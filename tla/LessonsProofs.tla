----------------------------- MODULE LessonsProofs -----------------------------
(***************************************************************************)
(* Theorems about the small programs, for every number of processes,       *)
(* threads, tickets, tasks and messages.  Each lesson has its invariant,   *)
(* which its own steps keep; that of Lessons says that the invariant of    *)
(* the lesson at hand holds.                                               *)
(***************************************************************************)
EXTENDS Lessons, TLAPS, FiniteSetTheorems, SequenceTheorems

-----------------------------------------------------------------------------
(* The ticket sale                                                         *)

TicketPlaces == {"off", "test", "sell", "write", "returned", "failed"}
Finished == {"returned", "failed"}

TicketsTypeOK ==
    /\ pc \in [Threads -> TicketPlaces]
    /\ v1 \in [what : {"start", "join"}, thread : Threads]
              \cup {TicketsL!Returned, TicketsL!Crashed} \cup {TicketsL!At("start", 1)}
    /\ v2 \in Int /\ v4 \in Nat
    /\ v3 \in [Threads -> Int]

\* What a thread is about to write back is not older than the sales allow.
RegsCovered == \A t \in Threads : pc[t] = "write" => v3[t] >= Stock - v4

\* A thread returns only when everything has been sold.
ReturnedSoldOut == \A t \in Threads : pc[t] = "returned" => v4 >= Stock

\* main has joined all threads before the one it waits for.
SellersJoined ==
    /\ v1.what = "join" => \A t \in Threads : t < v1.thread => pc[t] \in Finished
    /\ v1 = TicketsL!Returned => \A t \in Threads : pc[t] \in Finished

TicketsInv ==
    TicketsTypeOK /\ TicketsL!NeverUndersold /\ RegsCovered /\ ReturnedSoldOut /\ SellersJoined

\* Threads are numbered without a gap.
LEMMA ThreadNumbers ==
    /\ IsFiniteSet(Threads) /\ Stock \in Nat
    /\ Threads \subseteq Nat \ {0}
    /\ \A n \in Threads : TicketsL!Last(n) => \A t \in Threads : t <= n
    /\ \A n \in Threads : 1 \in Threads
<1>1. IsFiniteSet(Threads) /\ Stock \in Nat /\ Threads = 1..TicketsL!Cardinality(Threads)
  BY LessonsAssumption DEF TicketsL!TicketsAssumption, TicketsL!IsFiniteSet, IsFiniteSet
<1>2. TicketsL!Cardinality(Threads) = Cardinality(Threads)
  BY DEF TicketsL!Cardinality, Cardinality
<1>3. Cardinality(Threads) \in Nat
  BY <1>1, FS_CardinalityType
<1> DEFINE N == Cardinality(Threads)
<1>4. N \in Nat /\ Threads = 1..N
  BY <1>1, <1>2, <1>3
<1> HIDE DEF N
<1> QED BY <1>1, <1>4 DEF TicketsL!Last

LEMMA TicketsInit == TicketsL!Init => TicketsInv
<1> SUFFICES ASSUME TicketsL!Init PROVE TicketsInv OBVIOUS
<1>1. TicketsTypeOK
  BY ThreadNumbers DEF TicketsL!Init, TicketsTypeOK, TicketPlaces
<1>2. TicketsL!NeverUndersold /\ RegsCovered /\ ReturnedSoldOut
  BY ThreadNumbers DEF TicketsL!Init, TicketsL!NeverUndersold, RegsCovered, ReturnedSoldOut
<1>3. SellersJoined
  BY DEF TicketsL!Init, SellersJoined, TicketsL!At, TicketsL!Returned
<1> QED BY <1>1, <1>2, <1>3 DEF TicketsInv

\* Every step keeps the invariant: a thread writes back what covers the sales at the
\* time it read, and since then there have only been more of them.
LEMMA TicketsNext == TicketsInv /\ [TicketsL!Next]_(TicketsL!vars) => TicketsInv'
<1> SUFFICES ASSUME TicketsInv, [TicketsL!Next]_(TicketsL!vars) PROVE TicketsInv'
  OBVIOUS
<1> USE DEF TicketsInv
<1>0. Stock \in Nat /\ Threads \subseteq Nat
  BY ThreadNumbers
<1>a. ASSUME NEW n \in Threads, v1.thread = n, v1.what \in {"start", "join"},
             TicketsL!Advance(n)
      PROVE  v1' \in [what : {"start", "join"}, thread : Threads] \cup {TicketsL!Returned}
  BY <1>a, ThreadNumbers DEF TicketsL!Advance, TicketsL!At, TicketsL!Last
<1>1. ASSUME NEW t \in Threads, TicketsL!Start(t) PROVE TicketsInv'
  <2>1. v1 = TicketsL!At("start", t) /\ TicketsL!Advance(t)
    BY <1>1 DEF TicketsL!Start
  <2>2. TicketsTypeOK'
    BY <1>1, <1>a, <2>1
    DEF TicketsL!Start, TicketsTypeOK, TicketsL!Goto, TicketPlaces, TicketsL!At
  <2>3. TicketsL!NeverUndersold' /\ RegsCovered' /\ ReturnedSoldOut'
    BY <1>1 DEF TicketsL!Start, TicketsL!Goto, TicketsTypeOK, TicketsL!NeverUndersold,
                RegsCovered, ReturnedSoldOut
  <2>4. v1' \in {TicketsL!At("start", t + 1), TicketsL!At("join", 1)}
    BY <2>1 DEF TicketsL!Advance, TicketsL!At
  <2>5. SellersJoined'
    BY <2>4, ThreadNumbers DEF SellersJoined, TicketsL!At, TicketsL!Returned
  <2> QED BY <2>2, <2>3, <2>5
<1>2. ASSUME NEW t \in Threads, TicketsL!Join(t) PROVE TicketsInv'
  <2>1. v1 = TicketsL!At("join", t) /\ UNCHANGED <<pc, v2, v3, v4>>
    BY <1>2 DEF TicketsL!Join
  <2>2. TicketsL!NeverUndersold' /\ RegsCovered' /\ ReturnedSoldOut'
    BY <2>1 DEF TicketsL!NeverUndersold, RegsCovered, ReturnedSoldOut
  <2>3. CASE pc[t] \in Finished /\ TicketsL!Advance(t)
    <3>1. TicketsTypeOK'
      BY <1>a, <2>1, <2>3 DEF TicketsTypeOK, TicketsL!At
    <3>2. \A u \in Threads : u <= t => pc[u] \in Finished
      BY <1>0, <2>1, <2>3 DEF SellersJoined, TicketsL!At
    <3>3. SellersJoined'
      BY <1>0, <2>1, <2>3, <3>2, ThreadNumbers
      DEF SellersJoined, TicketsL!Advance, TicketsL!At, TicketsL!Returned
    <3> QED BY <2>2, <3>1, <3>3
  <2>4. CASE v1' = TicketsL!Crashed
    BY <2>1, <2>2, <2>4
    DEF TicketsTypeOK, SellersJoined, TicketsL!At, TicketsL!Crashed, TicketsL!Returned
  <2> QED BY <1>2, <2>3, <2>4 DEF TicketsL!Join, Finished
<1>3. ASSUME NEW t \in Threads, TicketsL!ThreadStep(t) PROVE TicketsInv'
  <2>1. pc[t] \in {"test", "sell", "write"} /\ UNCHANGED v1 /\ v1 # TicketsL!Returned
    BY <1>3 DEF TicketsL!ThreadStep, TicketsL!TestTickets, TicketsL!ReadTickets,
                TicketsL!WriteTickets, TicketsL!Alive
  <2>2. \A u \in Threads : u # t => pc'[u] = pc[u]
    BY <1>3 DEF TicketsL!ThreadStep, TicketsL!TestTickets, TicketsL!ReadTickets,
                TicketsL!WriteTickets, TicketsL!Goto, TicketsTypeOK
  <2>3. SellersJoined'
    BY <2>1, <2>2 DEF SellersJoined, Finished
  <2>4. CASE TicketsL!TestTickets(t)
    BY <1>0, <2>3, <2>4
    DEF TicketsL!TestTickets, TicketsL!Goto, TicketsTypeOK, TicketPlaces,
        TicketsL!NeverUndersold, RegsCovered, ReturnedSoldOut
  <2>5. CASE TicketsL!ReadTickets(t)
    BY <1>0, <2>3, <2>5
    DEF TicketsL!ReadTickets, TicketsL!Goto, TicketsTypeOK, TicketPlaces,
        TicketsL!NeverUndersold, RegsCovered, ReturnedSoldOut
  <2>6. CASE TicketsL!WriteTickets(t)
    <3>1. v3[t] >= Stock - v4
      BY <2>6 DEF TicketsL!WriteTickets, RegsCovered
    <3>2. TicketsTypeOK'
      BY <2>6 DEF TicketsL!WriteTickets, TicketsL!Goto, TicketsTypeOK, TicketPlaces
    <3>3. TicketsL!NeverUndersold' /\ RegsCovered' /\ ReturnedSoldOut'
      BY <1>0, <2>6, <3>1
      DEF TicketsL!WriteTickets, TicketsL!Goto, TicketsTypeOK, TicketsL!NeverUndersold,
          RegsCovered, ReturnedSoldOut
    <3> QED BY <2>3, <3>2, <3>3
  <2> QED BY <1>3, <2>4, <2>5, <2>6 DEF TicketsL!ThreadStep
<1>4. CASE UNCHANGED TicketsL!vars
  BY <1>4 DEF TicketsL!vars, TicketsTypeOK, TicketsL!NeverUndersold, RegsCovered,
              ReturnedSoldOut, SellersJoined
<1> QED BY <1>1, <1>2, <1>3, <1>4 DEF TicketsL!Next, TicketsL!MainStep

LEMMA TicketsSafe == TicketsInv => TicketsL!NeverUndersold /\ TicketsL!SoldOut
  BY DEF TicketsInv, SellersJoined, ReturnedSoldOut, TicketsL!SoldOut, Finished

\* The counter of tickets is never further down than by the sales made: lost
\* decrements only ever sell more (Thread/Main.cc:14-19).
THEOREM SalesCoverTickets == TicketsL!Spec => []TicketsL!NeverUndersold
  BY TicketsInit, TicketsNext, TicketsSafe, PTL DEF TicketsL!Spec

\* When main returns, and any thread could be made, at least as many tickets have
\* been sold as there were (Thread/Main.cc:23, 40-43).
THEOREM EverythingSold == TicketsL!Spec => []TicketsL!SoldOut
  BY TicketsInit, TicketsNext, TicketsSafe, PTL DEF TicketsL!Spec

-----------------------------------------------------------------------------
(* The threads of 8.Multithreading                                         *)

LEMMA ThreadNames == OneThread \in Threads /\ Server \notin Threads /\ Rounds \in Nat
  BY LessonsAssumption DEF ThreadsL!ThreadLessonAssumption

ThreadsTypeOK ==
    /\ pc \in [Threads \cup {Server} ->
                 {"begin", "none", "create", "join", "returned", "run", "loop", "over",
                  "terminated"}]
    /\ v3 \in Nat /\ v4 \in [Threads \cup {Server} -> Nat]

\* Where main and its thread can be at once in testThread.cc, and what has become of
\* the object that one hands the other.
ObjectOwned ==
    v1 = "testThread" =>
        /\ pc[Server] \in {"begin", "create", "join", "returned"}
        /\ pc[OneThread] \in {"none", "run", "over"}
        /\ pc[Server] \in {"begin", "create"} => pc[OneThread] = "none"
        /\ pc[Server] = "create" \/ pc[OneThread] = "run" => v2 = "live"
        /\ pc[OneThread] = "over" => v2 = "deleted" /\ v3 = 0
        /\ pc[Server] = "returned" => pc[OneThread] # "run"

ThreadsInv == ThreadsTypeOK /\ ObjectOwned /\ ThreadsL!OwnCounter

LEMMA ThreadsInit == ThreadsL!Init => ThreadsInv
  BY ThreadNames
  DEF ThreadsL!Init, ThreadsL!Programs, ThreadsInv, ThreadsTypeOK, ObjectOwned,
      ThreadsL!OwnCounter

LEMMA ThreadsNext == ThreadsInv /\ [ThreadsL!Next]_(ThreadsL!vars) => ThreadsInv'
<1> SUFFICES ASSUME ThreadsInv, [ThreadsL!Next]_(ThreadsL!vars) PROVE ThreadsInv'
  OBVIOUS
<1> USE ThreadNames
    DEF ThreadsInv, ThreadsTypeOK, ThreadsL!OwnCounter, ThreadsL!Of, ThreadsL!Ended
<1>1. CASE ThreadsL!NewThreadData
  BY <1>1 DEF ThreadsL!NewThreadData, ObjectOwned
<1>2. CASE ThreadsL!CreateChecked
  BY <1>2 DEF ThreadsL!CreateChecked, ObjectOwned
<1>3. CASE ThreadsL!Join
  BY <1>3 DEF ThreadsL!Join, ObjectOwned
<1>4. CASE ThreadsL!CreateLocal
  BY <1>4 DEF ThreadsL!CreateLocal, ObjectOwned
<1>5. CASE ThreadsL!CreateCrowd
  BY <1>5 DEF ThreadsL!CreateCrowd, ObjectOwned
<1>6. CASE ThreadsL!ConstructThread
  BY <1>6 DEF ThreadsL!ConstructThread, ObjectOwned
<1>7. CASE ThreadsL!Count
  BY <1>7 DEF ThreadsL!Count, ObjectOwned
<1>8. CASE ThreadsL!Delete
  BY <1>8 DEF ThreadsL!Delete, ObjectOwned
<1>9. CASE ThreadsL!CountDown
  BY <1>9 DEF ThreadsL!CountDown, ObjectOwned
<1>10. CASE ThreadsL!CountOwn
  BY <1>10 DEF ThreadsL!CountOwn, ObjectOwned
<1>11. CASE UNCHANGED ThreadsL!vars
  BY <1>11 DEF ThreadsL!vars, ObjectOwned
<1> QED BY <1>1, <1>2, <1>3, <1>4, <1>5, <1>6, <1>7, <1>8, <1>9, <1>10, <1>11
        DEF ThreadsL!Next, ThreadsL!MainStep, ThreadsL!ThreadStep

LEMMA ThreadsSafe == ThreadsInv => ThreadsL!MainLeavesLast /\ ThreadsL!OwnCounter
  BY DEF ThreadsInv, ObjectOwned, ThreadsL!MainLeavesLast, ThreadsL!Ended

-----------------------------------------------------------------------------
(* The pool of Teach_ThreadPool.hpp                                        *)

\* What division gives.
LEMMA Division ==
    ASSUME NEW x \in Nat, NEW y \in Nat \ {0}
    PROVE  /\ (x \div y) * y <= x /\ x < (x \div y + 1) * y
           /\ x \div y \in 0..x /\ x % y < y
           /\ (x \div y) * y + (x % y) = x
  OBVIOUS

\* A task has the right outcome whatever its numbers and its operator are.
LEMMA TaskRight ==
    ASSUME NEW task \in Nat \X Nat \X STRING
    PROVE  Pool!RightOutcome(task, Pool!RunTask(task))
<1> DEFINE x == task[1]
           y == task[2]
           outcome == Pool!RunTask(task)
<1>1. x \in Nat /\ y \in Nat
  OBVIOUS
<1> HIDE DEF x, y
<1>2. outcome.exitcode \in {"DivZero", "ModZero"} <=> y = 0 /\ task[3] \in {"/", "%"}
  BY DEF Pool!RunTask, Pool!Succeed, Pool!Fail, y
<1>3. ASSUME outcome.exitcode = "ok", task[3] = "/"
      PROVE  outcome.result * y <= x /\ x < (outcome.result + 1) * y
  <2>1. y # 0 /\ outcome.result = x \div y
    BY <1>3 DEF Pool!RunTask, Pool!Succeed, Pool!Fail, x, y
  <2> QED BY <1>1, <2>1, Division
<1>4. ASSUME outcome.exitcode = "ok", task[3] = "%"
      PROVE  outcome.result < y /\ \E q \in 0..x : q * y + outcome.result = x
  <2>1. y # 0 /\ outcome.result = x % y
    BY <1>4 DEF Pool!RunTask, Pool!Succeed, Pool!Fail, x, y
  <2>2. x \div y \in 0..x /\ (x \div y) * y + (x % y) = x /\ x % y < y
    BY <1>1, <2>1, Division
  <2> QED BY <2>1, <2>2
<1> QED BY <1>2, <1>3, <1>4 DEF Pool!RightOutcome, x, y

PoolTypeOK ==
    /\ pc \in [Threads -> {"off", "lock", "failed", "asleep", "run"}]
    /\ v1 \in Seq(1..MaxPush)
    /\ v2 \in [Threads -> Nat]
    /\ v3 \in Seq(Tasks) /\ Len(v3) <= MaxPush
    /\ DOMAIN v4 = 1..MaxPush

\* A task is in the queue once, or held by one worker, and has been made but not run.
HeldOnce ==
    /\ \A m, n \in 1..Len(v1) : v1[m] = v1[n] => m = n
    /\ \A n \in 1..Len(v1) : v1[n] \in 1..Len(v3) /\ v4[v1[n]] = <<>>
    /\ \A w \in Threads : pc[w] = "run" => v2[w] \in 1..Len(v3) /\ v4[v2[w]] = <<>>
    /\ \A w, u \in Threads : pc[w] = "run" /\ pc[u] = "run" /\ v2[w] = v2[u] => w = u
    /\ \A w \in Threads : pc[w] = "run" => \A n \in 1..Len(v1) : v1[n] # v2[w]

\* What has been run was made, and run once.
OutcomesRight ==
    \A k \in 1..MaxPush :
        v4[k] # <<>> => k <= Len(v3) /\ v4[k] = <<Pool!RunTask(v3[k])>>

PoolInv == PoolTypeOK /\ HeldOnce /\ OutcomesRight /\ Pool!NoneOverslept

LEMMA PoolInit == Pool!Init => PoolInv
<1> SUFFICES ASSUME Pool!Init PROVE PoolInv
  OBVIOUS
<1>1. PoolTypeOK /\ HeldOnce /\ OutcomesRight
  BY LessonsAssumption
  DEF Pool!TeachPoolAssumption, Pool!Init, PoolTypeOK, HeldOnce, OutcomesRight
<1>2. Pool!NoneOverslept
  BY DEF Pool!Init, Pool!NoneOverslept, Pool!At
<1> QED BY <1>1, <1>2 DEF PoolInv

\* A set when one more or one less is in it.
LEMMA OneMore ==
    ASSUME NEW S, IsFiniteSet(S), NEW w
    PROVE  /\ IsFiniteSet(S \cup {w}) /\ IsFiniteSet(S \ {w})
           /\ Cardinality(S) \in Nat
           /\ Cardinality(S \cup {w}) \in Nat /\ Cardinality(S \ {w}) \in Nat
           /\ Cardinality(S \cup {w}) >= Cardinality(S)
           /\ w \notin S => Cardinality(S \cup {w}) = Cardinality(S) + 1
           /\ Cardinality(S \ {w}) >= Cardinality(S) - 1
<1>1. /\ IsFiniteSet(S \cup {w})
      /\ Cardinality(S \cup {w}) = IF w \in S THEN Cardinality(S) ELSE Cardinality(S) + 1
  BY FS_AddElement
<1>2. /\ IsFiniteSet(S \ {w})
      /\ Cardinality(S \ {w}) = IF w \in S THEN Cardinality(S) - 1 ELSE Cardinality(S)
  BY FS_RemoveElement
<1>3. Cardinality(S) \in Nat /\ Cardinality(S \cup {w}) \in Nat /\ Cardinality(S \ {w}) \in Nat
  BY <1>1, <1>2, FS_CardinalityType
<1> QED BY <1>1, <1>2, <1>3

\* Where the threads are that wait for the mutex, or sleep, after one has moved.
LEMMA Moved ==
    ASSUME PoolTypeOK, NEW w \in Threads, NEW place, Pool!Goto(w, place)
    PROVE  /\ place = "lock" => Pool!At("lock")' = Pool!At("lock") \cup {w}
           /\ place # "lock" => Pool!At("lock")' = Pool!At("lock") \ {w}
           /\ place = "asleep" => Pool!At("asleep")' = Pool!At("asleep") \cup {w}
           /\ place # "asleep" => Pool!At("asleep")' = Pool!At("asleep") \ {w}
           /\ \A u \in Threads : u # w => pc'[u] = pc[u]
           /\ pc'[w] = place
  BY DEF PoolTypeOK, Pool!Goto, Pool!At

\* How many threads wait for the mutex after one has moved.
LEMMA LockCount ==
    ASSUME PoolTypeOK, NEW w \in Threads, NEW place, Pool!Goto(w, place)
    PROVE  /\ Cardinality(Pool!At("lock")) \in Nat /\ Cardinality(Pool!At("lock")') \in Nat
           /\ Cardinality(Pool!At("lock")') >= Cardinality(Pool!At("lock")) - 1
           /\ place = "lock" => Cardinality(Pool!At("lock")') >= Cardinality(Pool!At("lock"))
           /\ place = "lock" /\ pc[w] # "lock" =>
                 Cardinality(Pool!At("lock")') = Cardinality(Pool!At("lock")) + 1
<1>1. IsFiniteSet(Pool!At("lock"))
  BY ThreadNumbers, FS_Subset DEF Pool!At
<1>2. pc[w] # "lock" => w \notin Pool!At("lock")
  BY DEF Pool!At
<1>3. PICK S, T : S = Pool!At("lock") /\ T = Pool!At("lock")'
  OBVIOUS
<1>4. IsFiniteSet(S) /\ (pc[w] # "lock" => w \notin S)
  BY <1>1, <1>2, <1>3
<1>5. CASE place = "lock"
  <2>1. T = S \cup {w}
    BY <1>3, <1>5, Moved
  <2>2. /\ Cardinality(S) \in Nat /\ Cardinality(T) \in Nat
        /\ Cardinality(T) >= Cardinality(S)
        /\ w \notin S => Cardinality(T) = Cardinality(S) + 1
    BY <1>4, <2>1, OneMore
  <2> QED BY <1>3, <1>4, <2>2
<1>6. CASE place # "lock"
  <2>1. T = S \ {w}
    BY <1>3, <1>6, Moved
  <2>2. /\ Cardinality(S) \in Nat /\ Cardinality(T) \in Nat
        /\ Cardinality(T) >= Cardinality(S) - 1
    BY <1>4, <2>1, OneMore
  <2> QED BY <1>3, <1>6, <2>2
<1> QED BY <1>5, <1>6

LEMMA PoolNext == PoolInv /\ [Pool!Next]_(Pool!vars) => PoolInv'
<1> SUFFICES ASSUME PoolInv, [Pool!Next]_(Pool!vars) PROVE PoolInv'
  OBVIOUS
<1> USE DEF PoolInv
<1>0. /\ MaxPush \in Nat /\ \A t \in Tasks : t \in Nat \X Nat \X STRING
      /\ IsFiniteSet(Pool!At("lock")) /\ IsFiniteSet(Pool!At("asleep"))
  <2>1. IsFiniteSet(Threads)
    BY ThreadNumbers
  <2> QED BY <2>1, LessonsAssumption, FS_Subset DEF Pool!TeachPoolAssumption, Pool!At
<1>c. /\ \A S : Pool!Cardinality(S) = Cardinality(S)
  BY DEF Pool!Cardinality, Cardinality
<1>1. ASSUME NEW w \in Threads, Pool!StartWorker(w) PROVE PoolInv'
  <2>1. PICK place \in {"lock", "failed"} : Pool!Goto(w, place)
    BY <1>1 DEF Pool!StartWorker
  <2>2. UNCHANGED <<v1, v2, v3, v4>> /\ pc[w] = "off"
    BY <1>1 DEF Pool!StartWorker
  <2>3. PoolTypeOK' /\ HeldOnce' /\ OutcomesRight'
    BY <2>1, <2>2, Moved DEF PoolTypeOK, HeldOnce, OutcomesRight, Pool!Goto
  <2>4. Pool!NoneOverslept'
    <3>1. w \notin Pool!At("lock") /\ w \notin Pool!At("asleep")
      BY <2>2 DEF Pool!At
    <3>2. Pool!At("asleep")' = Pool!At("asleep")
      BY <2>1, <3>1, Moved
    <3>3. Pool!At("lock")' \in {Pool!At("lock"), Pool!At("lock") \cup {w}}
      BY <2>1, <3>1, Moved
    <3>4. /\ Cardinality(Pool!At("lock")') >= Cardinality(Pool!At("lock"))
          /\ Cardinality(Pool!At("lock")) \in Nat /\ Cardinality(Pool!At("lock")') \in Nat
      <4>1. PICK S, T : S = Pool!At("lock") /\ T = Pool!At("lock")'
        OBVIOUS
      <4>2. IsFiniteSet(S) /\ T \in {S, S \cup {w}}
        BY <1>0, <3>3, <4>1
      <4>3. /\ Cardinality(S) \in Nat /\ Cardinality(S \cup {w}) \in Nat
            /\ Cardinality(S \cup {w}) >= Cardinality(S)
        BY <4>2, OneMore
      <4>4. Cardinality(T) \in {Cardinality(S), Cardinality(S \cup {w})}
        BY <4>2
      <4> QED BY <4>1, <4>3, <4>4
    <3> QED BY <1>c, <2>2, <3>2, <3>4 DEF Pool!NoneOverslept, PoolTypeOK
  <2> QED BY <2>3, <2>4
<1>2. ASSUME Pool!Push PROVE PoolInv'
  <2> DEFINE k == Len(v3) + 1
  <2>1. PICK t \in Tasks : v3' = Append(v3, t)
    BY <1>2 DEF Pool!Push, Pool!MakeTask
  <2>2. /\ UNCHANGED <<v2, v4>> /\ Len(v3) < MaxPush
        /\ v1' = Append(v1, k)
    BY <1>2, <2>1 DEF Pool!Push, Pool!MakeTask, PoolTypeOK
  <2>3. /\ \A u \in Threads : pc'[u] = "run" => pc[u] = "run"
        /\ PoolTypeOK'
    <3>1. v1' \in Seq(1..MaxPush) /\ v3' \in Seq(Tasks) /\ Len(v3') <= MaxPush
      BY <1>0, <2>1, <2>2 DEF PoolTypeOK
    <3>2. CASE UNCHANGED pc
      BY <2>2, <3>1, <3>2 DEF PoolTypeOK
    <3>3. ASSUME NEW w \in Pool!At("asleep"), Pool!Goto(w, "lock")
          PROVE  /\ \A u \in Threads : pc'[u] = "run" => pc[u] = "run"
                 /\ PoolTypeOK'
      BY <2>2, <3>1, <3>3 DEF PoolTypeOK, Pool!Goto, Pool!At
    <3> QED BY <1>2, <3>2, <3>3 DEF Pool!Push, Pool!Wakeup
  <2>4. v4[k] = <<>>
    BY <1>0, <2>2 DEF PoolTypeOK, OutcomesRight
  <2>5. HeldOnce'
    <3>1. PICK c \in Nat : c = k
      BY DEF PoolTypeOK
    <3>2. /\ Len(v1') = Len(v1) + 1 /\ v1'[Len(v1) + 1] = c
          /\ \A n \in 1..Len(v1) : v1'[n] = v1[n]
          /\ Len(v3') = c
      BY <2>1, <2>2, <3>1 DEF PoolTypeOK
    <3> HIDE DEF k
    <3> QED BY <2>2, <2>3, <2>4, <3>1, <3>2 DEF HeldOnce, PoolTypeOK, k
  <2>6. OutcomesRight'
    BY <2>1, <2>2 DEF OutcomesRight, PoolTypeOK
  <2>7. Pool!NoneOverslept'
    <3>1. Len(v1') = Len(v1) + 1
      BY <2>2 DEF PoolTypeOK
    <3>2. CASE Pool!At("asleep") = {}
      <4>1. Pool!At("asleep")' = {}
        BY <1>2, <3>2 DEF Pool!Push, Pool!Wakeup, Pool!At
      <4> QED BY <4>1 DEF Pool!NoneOverslept
    <3>3. ASSUME NEW w \in Pool!At("asleep"), Pool!Goto(w, "lock")
          PROVE  Pool!NoneOverslept'
      <4>1. w \in Threads /\ w \notin Pool!At("lock")
        BY <3>3 DEF Pool!At
      <4>2. /\ Cardinality(Pool!At("lock")') = Cardinality(Pool!At("lock")) + 1
            /\ Cardinality(Pool!At("lock")) \in Nat
        BY <3>3, <4>1, LockCount DEF Pool!At
      <4> QED BY <1>c, <3>1, <3>3, <4>2 DEF Pool!NoneOverslept, PoolTypeOK
    <3> QED BY <1>2, <3>2, <3>3 DEF Pool!Push, Pool!Wakeup
  <2> QED BY <2>3, <2>5, <2>6, <2>7
<1>3. ASSUME NEW w \in Threads, Pool!ThreadSleep(w) PROVE PoolInv'
  <2>1. Pool!Goto(w, "asleep") /\ v1 = <<>> /\ UNCHANGED <<v1, v2, v3, v4>>
    BY <1>3 DEF Pool!ThreadSleep
  <2>2. PoolTypeOK' /\ HeldOnce' /\ OutcomesRight'
    BY <2>1, Moved DEF PoolTypeOK, HeldOnce, OutcomesRight, Pool!Goto
  <2>3. Cardinality(Pool!At("lock")') \in Nat
    BY <2>1, LockCount
  <2>4. Pool!NoneOverslept'
    BY <1>c, <2>1, <2>3 DEF Pool!NoneOverslept
  <2> QED BY <2>2, <2>4
<1>4. ASSUME NEW w \in Threads, Pool!SpuriousWakeup(w) PROVE PoolInv'
  <2>1. Pool!Goto(w, "lock") /\ pc[w] = "asleep" /\ UNCHANGED <<v1, v2, v3, v4>>
    BY <1>4 DEF Pool!SpuriousWakeup
  <2>2. PoolTypeOK' /\ HeldOnce' /\ OutcomesRight'
    BY <2>1, Moved DEF PoolTypeOK, HeldOnce, OutcomesRight, Pool!Goto
  <2>3. /\ Cardinality(Pool!At("lock")') >= Cardinality(Pool!At("lock"))
        /\ Cardinality(Pool!At("lock")) \in Nat /\ Cardinality(Pool!At("lock")') \in Nat
        /\ Pool!At("asleep") # {}
    BY <2>1, LockCount DEF Pool!At
  <2>4. Pool!NoneOverslept'
    BY <1>c, <2>1, <2>3 DEF Pool!NoneOverslept, PoolTypeOK
  <2> QED BY <2>2, <2>4
<1>5. ASSUME NEW w \in Threads, Pool!Take(w) PROVE PoolInv'
  <2>1. /\ Pool!Goto(w, "run") /\ pc[w] = "lock" /\ v1 # <<>> /\ UNCHANGED <<v3, v4>>
        /\ v2' = [v2 EXCEPT ![w] = Head(v1)] /\ v1' = Tail(v1)
    BY <1>5 DEF Pool!Take
  <2>2. /\ Len(v1) > 0 /\ Len(v1') = Len(v1) - 1 /\ Head(v1) = v1[1]
        /\ v1' \in Seq(1..MaxPush)
        /\ \A n \in 1..Len(v1') : v1'[n] = v1[n + 1]
    BY <2>1 DEF PoolTypeOK
  <2>3. PICK k \in 1..MaxPush : k = v1[1]
    <3>1. 1 \in 1..Len(v1) /\ v1 \in Seq(1..MaxPush)
      BY <2>2 DEF PoolTypeOK
    <3> QED BY <3>1, ElementOfSeq
  <2>4. PoolTypeOK'
    BY <1>0, <2>1, <2>2, <2>3 DEF PoolTypeOK, Pool!Goto
  <2>5. v2'[w] = k /\ \A u \in Threads : u # w => v2'[u] = v2[u]
    BY <2>1, <2>2, <2>3 DEF PoolTypeOK
  <2>6. HeldOnce'
    <3>1. pc'[w] = "run" /\ \A u \in Threads : u # w => pc'[u] = pc[u]
      BY <2>1, Moved
    <3>2. /\ \A n \in 1..Len(v1') : n + 1 \in 1..Len(v1) /\ v1'[n] = v1[n + 1]
          /\ 1 \in 1..Len(v1) /\ v1[1] = k
      BY <2>1, <2>2, <2>3 DEF PoolTypeOK
    <3>3. \A n \in 1..Len(v1') : v1'[n] # k
      BY <3>2 DEF HeldOnce
    <3>4. \A m, n \in 1..Len(v1') : v1'[m] = v1'[n] => m = n
      BY <3>2 DEF HeldOnce
    <3>5. \A n \in 1..Len(v1') : v1'[n] \in 1..Len(v3') /\ v4'[v1'[n]] = <<>>
      BY <2>1, <3>2 DEF HeldOnce
    <3>6. k \in 1..Len(v3') /\ v4'[k] = <<>>
      BY <2>1, <3>2 DEF HeldOnce
    <3>7. \A u \in Threads : pc[u] = "run" => v2[u] # k
      BY <3>2 DEF HeldOnce
    <3>8. \A u \in Threads : pc'[u] = "run" =>
             v2'[u] \in 1..Len(v3') /\ v4'[v2'[u]] = <<>>
      BY <2>1, <2>5, <3>1, <3>6 DEF HeldOnce
    <3>9. \A t, u \in Threads :
             pc'[t] = "run" /\ pc'[u] = "run" /\ v2'[t] = v2'[u] => t = u
      BY <2>5, <3>1, <3>7 DEF HeldOnce
    <3>10. \A u \in Threads : pc'[u] = "run" => \A n \in 1..Len(v1') : v1'[n] # v2'[u]
      <4> SUFFICES ASSUME NEW u \in Threads, pc'[u] = "run", NEW n \in 1..Len(v1')
                   PROVE  v1'[n] # v2'[u]
        OBVIOUS
      <4>1. CASE u = w
        BY <2>5, <3>3, <4>1
      <4>2. CASE u # w
        <5>1. pc[u] = "run" /\ v2'[u] = v2[u]
          BY <2>5, <3>1, <4>2
        <5>2. n + 1 \in 1..Len(v1) /\ v1'[n] = v1[n + 1]
          BY <3>2
        <5> QED BY <5>1, <5>2 DEF HeldOnce
      <4> QED BY <4>1, <4>2
    <3> QED BY <3>4, <3>5, <3>8, <3>9, <3>10 DEF HeldOnce
  <2>7. OutcomesRight'
    BY <2>1 DEF OutcomesRight
  <2>8. /\ Cardinality(Pool!At("lock")') >= Cardinality(Pool!At("lock")) - 1
        /\ Cardinality(Pool!At("lock")) \in Nat /\ Cardinality(Pool!At("lock")') \in Nat
    BY <2>1, LockCount
  <2>9. Pool!At("asleep")' = Pool!At("asleep")
    BY <2>1, Moved DEF Pool!At
  <2>10. Pool!NoneOverslept'
    <3>1. Len(v1) \in Nat /\ (Pool!At("asleep") # {} => Len(v1) <= Cardinality(Pool!At("lock")))
      BY <1>c DEF Pool!NoneOverslept, PoolTypeOK
    <3> QED BY <1>c, <2>2, <2>8, <2>9, <3>1 DEF Pool!NoneOverslept
  <2> QED BY <2>4, <2>6, <2>7, <2>10
<1>6. ASSUME NEW w \in Threads, Pool!Run(w) PROVE PoolInv'
  <2>1. /\ Pool!Goto(w, "lock") /\ pc[w] = "run" /\ UNCHANGED <<v1, v2, v3>>
        /\ v4' = [v4 EXCEPT ![v2[w]] = Append(@, Pool!RunTask(v3[v2[w]]))]
    BY <1>6 DEF Pool!Run
  <2>2. PICK k \in 1..MaxPush : k = v2[w] /\ k <= Len(v3) /\ v4[k] = <<>>
    BY <1>0, <2>1 DEF HeldOnce, PoolTypeOK
  <2>3. /\ v4'[k] = <<Pool!RunTask(v3[k])>>
        /\ \A j \in 1..MaxPush : j # k => v4'[j] = v4[j]
    BY <2>1, <2>2 DEF PoolTypeOK
  <2>4. PoolTypeOK'
    BY <2>1 DEF PoolTypeOK, Pool!Goto
  <2>5. HeldOnce'
    <3>1. Len(v3) \in Nat /\ \A u \in Threads : pc'[u] = "run" => pc[u] = "run" /\ u # w
      BY <2>1, Moved DEF PoolTypeOK
    <3>2. \A n \in 1..Len(v1) : v1[n] # k /\ v1[n] \in 1..MaxPush
      <4>1. \A n \in 1..Len(v1) : v1[n] # k
        BY <2>1, <2>2 DEF HeldOnce
      <4>2. \A n \in 1..Len(v1) : v1[n] \in 1..MaxPush
        BY ElementOfSeq DEF PoolTypeOK
      <4> QED BY <4>1, <4>2
    <3>3. \A u \in Threads : pc'[u] = "run" => v2[u] # k /\ v2[u] \in 1..MaxPush
      BY <1>0, <2>1, <2>2, <3>1 DEF HeldOnce, PoolTypeOK
    <3> QED BY <2>1, <2>3, <3>1, <3>2, <3>3 DEF HeldOnce
  <2>6. OutcomesRight'
    BY <2>1, <2>2, <2>3 DEF OutcomesRight
  <2>7. Pool!NoneOverslept'
    <3>1. Pool!At("asleep")' = Pool!At("asleep")
      BY <2>1, Moved DEF Pool!At
    <3>2. /\ Cardinality(Pool!At("lock")') >= Cardinality(Pool!At("lock"))
          /\ Cardinality(Pool!At("lock")) \in Nat /\ Cardinality(Pool!At("lock")') \in Nat
      BY <2>1, LockCount
    <3> QED BY <1>c, <2>1, <3>1, <3>2 DEF Pool!NoneOverslept, PoolTypeOK
  <2> QED BY <2>4, <2>5, <2>6, <2>7
<1>7. CASE UNCHANGED Pool!vars
  <2>1. UNCHANGED <<pc, v1, v2, v3, v4>>
    BY <1>7 DEF Pool!vars
  <2>2. PoolTypeOK' /\ HeldOnce' /\ OutcomesRight'
    BY <2>1 DEF PoolTypeOK, HeldOnce, OutcomesRight
  <2>3. Pool!NoneOverslept'
    BY <2>1 DEF Pool!NoneOverslept, Pool!At
  <2> QED BY <2>2, <2>3
<1> QED BY <1>1, <1>2, <1>3, <1>4, <1>5, <1>6, <1>7 DEF Pool!Next, Pool!WorkerStep

LEMMA PoolSafe == PoolInv => Pool!RunOnce /\ Pool!NoneOverslept
<1> SUFFICES ASSUME PoolInv, NEW k \in DOMAIN v3
             PROVE  /\ Len(v4[k]) <= 1
                    /\ \A n \in DOMAIN v4[k] : Pool!RightOutcome(v3[k], v4[k][n])
  BY DEF Pool!RunOnce, PoolInv
<1>1. k \in 1..MaxPush /\ v3[k] \in Nat \X Nat \X STRING
  BY LessonsAssumption DEF PoolInv, PoolTypeOK, Pool!TeachPoolAssumption
<1>2. CASE v4[k] = <<>>
  BY <1>2
<1>3. CASE v4[k] = <<Pool!RunTask(v3[k])>>
  BY <1>1, <1>3, TaskRight
<1> QED BY <1>1, <1>2, <1>3 DEF PoolInv, OutcomesRight

-----------------------------------------------------------------------------
(* The pool of My_Thread_Pool_Test.hpp                                     *)

\* As committed main dies with its first thread.
UnsizedInv ==
    /\ v1.what \in {"create", "crashed"}
    /\ \A w \in Threads : pc[w] = "off"
    /\ v5 = [k \in 1..MaxPush |-> 0]

LEMMA UnsizedInit == Unsized!Init => UnsizedInv
  BY DEF Unsized!Init, Unsized!At, UnsizedInv

LEMMA UnsizedNext == UnsizedInv /\ [Unsized!Next]_(Unsized!vars) => UnsizedInv'
<1> SUFFICES ASSUME UnsizedInv, [Unsized!Next]_(Unsized!vars) PROVE UnsizedInv'
  OBVIOUS
<1>1. CASE Unsized!MainStep
  BY <1>1 DEF Unsized!MainStep, Unsized!CreateThread, Unsized!AddTask, Unsized!Stop,
              Unsized!Join, Unsized!At, UnsizedInv
<1>2. ASSUME NEW w \in Threads, Unsized!WorkerStep(w) \/ Unsized!SpuriousWakeup(w)
      PROVE  FALSE
  BY <1>2 DEF Unsized!WorkerStep, Unsized!SpuriousWakeup, Unsized!Wait, Unsized!Quit,
              Unsized!Take, Unsized!Run, UnsizedInv
<1>3. CASE UNCHANGED Unsized!vars
  BY <1>3 DEF Unsized!vars, UnsizedInv
<1> QED BY <1>1, <1>2, <1>3 DEF Unsized!Next

LEMMA UnsizedSafe == UnsizedInv => Unsized!DrainedBeforeReturn
  BY LessonsAssumption DEF UnsizedInv, Unsized!DrainedBeforeReturn, Unsized!StopPoolAssumption

SizedTypeOK ==
    /\ pc \in [Threads -> {"off", "lock", "failed", "asleep", "run", "quit"}]
    /\ v1 \in [what : {"create", "add", "join", "returned", "crashed"}, number : Nat]
    /\ v1.what = "add" => v1.number >= 1
    /\ v2 \in Seq(1..MaxPush)
    /\ v3 \in BOOLEAN
    /\ v4 \in [Threads -> Nat]
    /\ v5 \in [1..MaxPush -> Nat]

\* Main has put task k into the queue.
Added(k) == v1.what # "create" /\ (v1.what = "add" => k < v1.number)

\* A task is in the queue once, or held by one worker, and has been added but not run;
\* what has been run was added, and run once.
AtMostOnce ==
    /\ \A m, n \in 1..Len(v2) : v2[m] = v2[n] => m = n
    /\ \A n \in 1..Len(v2) : Added(v2[n]) /\ v5[v2[n]] = 0
    /\ \A w \in Threads : pc[w] = "run" =>
          v4[w] \in 1..MaxPush /\ Added(v4[w]) /\ v5[v4[w]] = 0
    /\ \A w, u \in Threads : pc[w] = "run" /\ pc[u] = "run" /\ v4[w] = v4[u] => w = u
    /\ \A w \in Threads : pc[w] = "run" => \A n \in 1..Len(v2) : v2[n] # v4[w]
    /\ \A k \in 1..MaxPush : v5[k] = 0 \/ (v5[k] = 1 /\ Added(k))

\* What was added has been run, is being run, or waits in the queue.
NoneForgotten ==
    \A k \in 1..MaxPush : Added(k) =>
        \/ v5[k] = 1
        \/ \E n \in 1..Len(v2) : v2[n] = k
        \/ \E w \in Threads : pc[w] = "run" /\ v4[w] = k

\* A worker quits when stop is set and the queue is empty, for good as main adds no
\* more; main has joined all workers before the one it waits for.
Stopping ==
    /\ v3 => v1.what \in {"join", "returned", "crashed"}
    /\ \A w \in Threads : pc[w] = "quit" => v3 /\ v2 = <<>>
    /\ v1.what = "join" => \A w \in Threads : w < v1.number => pc[w] = "quit"
    /\ v1.what = "returned" => \A w \in Threads : pc[w] = "quit"

SizedInv == SizedTypeOK /\ AtMostOnce /\ NoneForgotten /\ Stopping

LEMMA SizedInit == SizedPool!Init => SizedInv
<1> SUFFICES ASSUME SizedPool!Init PROVE SizedInv
  OBVIOUS
<1>1. v1.what = "create" /\ v2 = <<>> /\ v3 = FALSE /\ \A w \in Threads : pc[w] = "off"
  BY DEF SizedPool!Init, SizedPool!At
<1>2. SizedTypeOK
  <2>1. v1 \in [what : {"create", "add", "join", "returned", "crashed"}, number : Nat]
    BY DEF SizedPool!Init, SizedPool!At
  <2>2. v4 \in [Threads -> Nat] /\ v5 \in [1..MaxPush -> Nat]
    BY DEF SizedPool!Init
  <2>3. pc \in [Threads -> {"off", "lock", "failed", "asleep", "run", "quit"}]
    BY DEF SizedPool!Init
  <2>4. v2 \in Seq(1..MaxPush)
    BY <1>1, EmptySeq
  <2>5. v1.what # "add" /\ v3 \in BOOLEAN
    BY <1>1
  <2> QED BY <2>1, <2>2, <2>3, <2>4, <2>5 DEF SizedTypeOK
<1>3. \A k \in 1..MaxPush : v5[k] = 0
  BY DEF SizedPool!Init
<1>4. AtMostOnce /\ NoneForgotten /\ Stopping
  BY <1>1, <1>3 DEF AtMostOnce, NoneForgotten, Stopping, Added
<1> QED BY <1>2, <1>4 DEF SizedInv

\* While the tasks stay where they are, so does what is said of them.
LEMMA TasksStay ==
    ASSUME SizedInv, UNCHANGED <<v2, v4, v5>>,
           \A w \in Threads : pc'[w] = "run" <=> pc[w] = "run",
           \A k \in 1..MaxPush : Added(k)' <=> Added(k)
    PROVE  AtMostOnce' /\ NoneForgotten'
<1>1. \A n \in 1..Len(v2) : v2[n] \in 1..MaxPush
  BY ElementOfSeq DEF SizedInv, SizedTypeOK
<1> QED BY <1>1 DEF SizedInv, AtMostOnce, NoneForgotten

LEMMA SizedMain == SizedInv /\ SizedPool!MainStep => SizedInv'
<1> SUFFICES ASSUME SizedInv, SizedPool!MainStep PROVE SizedInv'
  OBVIOUS
<1>0. /\ MaxPush \in Nat /\ Threads \subseteq Nat
      /\ \A w \in Threads : w + 1 \notin Threads => \A u \in Threads : u <= w
  BY LessonsAssumption, ThreadNumbers DEF SizedPool!StopPoolAssumption, TicketsL!Last
<1>1. CASE SizedPool!CreateThread
  <2>1. /\ v1.what = "create" /\ v1.number \in Threads /\ UNCHANGED <<v2, v3, v4, v5>>
        /\ SizedPool!Goto(v1.number, "lock") \/ SizedPool!Goto(v1.number, "failed")
        /\ v1' \in {SizedPool!At("create", v1.number + 1), SizedPool!At("add", 1)}
    BY <1>1 DEF SizedPool!CreateThread
  <2>2. SizedTypeOK'
    <3>1. /\ v1' \in [what : {"create", "add", "join", "returned", "crashed"}, number : Nat]
          /\ v1'.what = "add" => v1'.number >= 1
      <4>1. v1.number + 1 \in Nat /\ v1.number + 1 >= 1
        <5>1. PICK w \in Nat : w = v1.number
          BY <1>0, <2>1
        <5> QED BY <5>1
      <4> QED BY <2>1, <4>1 DEF SizedPool!At
    <3>2. pc' \in [Threads -> {"off", "lock", "failed", "asleep", "run", "quit"}]
      BY <2>1 DEF SizedInv, SizedTypeOK, SizedPool!Goto
    <3> QED BY <2>1, <3>1, <3>2 DEF SizedInv, SizedTypeOK
  <2>3. \A w \in Threads : pc[w] # "run" /\ pc'[w] # "run" /\ pc'[w] # "quit"
    BY <2>1 DEF SizedInv, SizedTypeOK, SizedPool!Goto, AtMostOnce, Stopping, Added
  <2>4. \A k \in 1..MaxPush : ~Added(k) /\ ~Added(k)'
    BY <1>0, <2>1 DEF Added, SizedPool!At
  <2>5. AtMostOnce' /\ NoneForgotten'
    BY <2>1, <2>3, <2>4, TasksStay
  <2>6. Stopping'
    BY <2>1, <2>3 DEF SizedInv, Stopping, SizedPool!At
  <2> QED BY <2>2, <2>5, <2>6 DEF SizedInv
<1>2. CASE SizedPool!AddTask
  <2>1. PICK k \in 1..MaxPush : k = v1.number
    BY <1>0, <1>2 DEF SizedPool!AddTask, SizedInv, SizedTypeOK
  <2>2. /\ v1.what = "add" /\ UNCHANGED <<v3, v4, v5>>
        /\ v2' = Append(v2, k) /\ v1' = SizedPool!At("add", k + 1)
    BY <1>2, <2>1 DEF SizedPool!AddTask
  <2>3. /\ \A w \in Threads : /\ pc'[w] = "run" <=> pc[w] = "run"
                              /\ pc'[w] = "quit" => pc[w] = "quit"
        /\ pc' \in [Threads -> {"off", "lock", "failed", "asleep", "run", "quit"}]
    BY <1>2 DEF SizedPool!AddTask, SizedPool!WakeOne, SizedPool!Asleep, SizedPool!Goto,
                SizedInv, SizedTypeOK
  <2>4. /\ v2' \in Seq(1..MaxPush) /\ Len(v2') = Len(v2) + 1 /\ v2'[Len(v2) + 1] = k
        /\ Len(v2) \in Nat
        /\ \A n \in 1..Len(v2) : v2'[n] = v2[n] /\ v2[n] \in 1..MaxPush
    <3>1. v2 \in Seq(1..MaxPush)
      BY DEF SizedInv, SizedTypeOK
    <3>2. \A n \in 1..Len(v2) : v2[n] \in 1..MaxPush
      BY <3>1, ElementOfSeq
    <3> QED BY <2>2, <3>1, <3>2, AppendProperties
  <2>5. SizedTypeOK'
    BY <2>2, <2>3, <2>4 DEF SizedInv, SizedTypeOK, SizedPool!At
  <2>6. /\ \A j \in 1..MaxPush : Added(j)' <=> Added(j) \/ j = k
        /\ ~Added(k)
    BY <2>1, <2>2 DEF Added, SizedPool!At
  <2>7. v5[k] = 0
    BY <2>6 DEF SizedInv, AtMostOnce
  <2>8. AtMostOnce'
    BY <2>2, <2>3, <2>4, <2>6, <2>7 DEF SizedInv, AtMostOnce
  <2>9. NoneForgotten'
    BY <2>2, <2>3, <2>4, <2>6 DEF SizedInv, NoneForgotten
  <2>10. Stopping'
    BY <2>2, <2>3 DEF SizedInv, Stopping, SizedPool!At
  <2> QED BY <2>5, <2>8, <2>9, <2>10 DEF SizedInv
<1>3. CASE SizedPool!Stop
  <2>1. /\ v1.what = "add" /\ v1.number > MaxPush /\ UNCHANGED <<v2, v4, v5>>
        /\ v1' = SizedPool!At("join", 1) /\ v3' = TRUE
    BY <1>3 DEF SizedPool!Stop
  <2>2. /\ \A w \in Threads : /\ pc'[w] = "run" <=> pc[w] = "run"
                              /\ pc'[w] = "quit" => pc[w] = "quit"
        /\ pc' \in [Threads -> {"off", "lock", "failed", "asleep", "run", "quit"}]
    BY <1>3 DEF SizedPool!Stop, SizedPool!Asleep, SizedInv, SizedTypeOK
  <2>3. SizedTypeOK'
    BY <2>1, <2>2 DEF SizedInv, SizedTypeOK, SizedPool!At
  <2>4. \A k \in 1..MaxPush : Added(k)' <=> Added(k)
    BY <1>0, <2>1 DEF Added, SizedPool!At, SizedInv, SizedTypeOK
  <2>5. AtMostOnce' /\ NoneForgotten'
    BY <2>1, <2>2, <2>4, TasksStay
  <2>6. \A w \in Threads : w >= 1
    BY ThreadNumbers
  <2>7. Stopping'
    BY <1>0, <2>1, <2>2, <2>6 DEF SizedInv, Stopping, SizedPool!At
  <2> QED BY <2>3, <2>5, <2>7 DEF SizedInv
<1>4. CASE SizedPool!Join
  <2>1. /\ v1.what = "join" /\ v1.number \in Threads /\ UNCHANGED <<pc, v2, v3, v4, v5>>
        /\ \/ v1' = SizedPool!At("crashed", 0)
           \/ /\ pc[v1.number] = "quit"
              /\ v1' = IF v1.number + 1 \in Threads THEN SizedPool!At("join", v1.number + 1)
                                                    ELSE SizedPool!At("returned", 0)
    BY <1>4 DEF SizedPool!Join
  <2>2. SizedTypeOK'
    BY <1>0, <2>1 DEF SizedInv, SizedTypeOK, SizedPool!At
  <2>3. \A k \in 1..MaxPush : Added(k)' <=> Added(k)
    BY <2>1 DEF Added, SizedPool!At
  <2>4. AtMostOnce' /\ NoneForgotten'
    BY <2>1, <2>3, TasksStay
  <2>5. PICK w \in Threads : w = v1.number
    BY <2>1
  <2>6. pc[w] = "quit" => \A u \in Threads : u <= w => pc[u] = "quit"
    BY <1>0, <2>1, <2>5 DEF SizedInv, Stopping
  <2>7. ASSUME v1' = SizedPool!At("crashed", 0) PROVE Stopping'
    BY <2>1, <2>7 DEF SizedInv, Stopping, SizedPool!At
  <2>8. ASSUME pc[w] = "quit", v1' = SizedPool!At("join", w + 1) PROVE Stopping'
    BY <1>0, <2>1, <2>6, <2>8 DEF SizedInv, Stopping, SizedPool!At
  <2>9. ASSUME pc[w] = "quit", w + 1 \notin Threads, v1' = SizedPool!At("returned", 0) PROVE Stopping'
    BY <1>0, <2>1, <2>6, <2>9 DEF SizedInv, Stopping, SizedPool!At
  <2>10. Stopping'
    BY <2>1, <2>5, <2>7, <2>8, <2>9
  <2> QED BY <2>2, <2>4, <2>10 DEF SizedInv
<1> QED BY <1>1, <1>2, <1>3, <1>4 DEF SizedPool!MainStep

LEMMA SizedWorker ==
    ASSUME SizedInv, NEW w \in Threads,
           SizedPool!WorkerStep(w) \/ SizedPool!SpuriousWakeup(w)
    PROVE  SizedInv'
<1> DEFINE Places == {"off", "lock", "failed", "asleep", "run", "quit"}
<1>1. \A k \in 1..MaxPush : UNCHANGED v1 => (Added(k)' <=> Added(k))
  BY DEF Added
<1>2. ASSUME NEW place \in Places, SizedPool!Goto(w, place)
      PROVE  /\ pc' \in [Threads -> Places] /\ pc'[w] = place
             /\ \A u \in Threads : u # w => pc'[u] = pc[u]
  BY <1>2 DEF SizedPool!Goto, SizedInv, SizedTypeOK
<1>3. CASE SizedPool!Wait(w) \/ SizedPool!SpuriousWakeup(w)
  <2>1. PICK place \in {"asleep", "lock"} :
            SizedPool!Goto(w, place) /\ pc[w] \in {"asleep", "lock"} /\ UNCHANGED <<v1, v2, v3, v4, v5>>
    BY <1>3 DEF SizedPool!Wait, SizedPool!SpuriousWakeup
  <2>2. AtMostOnce' /\ NoneForgotten'
    BY <1>1, <1>2, <2>1, TasksStay
  <2>3. SizedTypeOK' /\ Stopping'
    BY <1>2, <2>1 DEF SizedInv, SizedTypeOK, Stopping
  <2> QED BY <2>2, <2>3 DEF SizedInv
<1>4. CASE SizedPool!Quit(w)
  <2>1. /\ SizedPool!Goto(w, "quit") /\ pc[w] = "lock" /\ v3 /\ v2 = <<>>
        /\ UNCHANGED <<v1, v2, v3, v4, v5>>
    BY <1>4 DEF SizedPool!Quit
  <2>2. AtMostOnce' /\ NoneForgotten'
    BY <1>1, <1>2, <2>1, TasksStay
  <2>3. SizedTypeOK' /\ Stopping'
    BY <1>2, <2>1 DEF SizedInv, SizedTypeOK, Stopping
  <2> QED BY <2>2, <2>3 DEF SizedInv
<1>5. CASE SizedPool!Take(w)
  <2>1. /\ SizedPool!Goto(w, "run") /\ pc[w] = "lock" /\ v2 # <<>> /\ UNCHANGED <<v1, v3, v5>>
        /\ v4' = [v4 EXCEPT ![w] = Head(v2)] /\ v2' = Tail(v2)
    BY <1>5 DEF SizedPool!Take
  <2>2. /\ Len(v2) > 0 /\ Len(v2) \in Nat /\ Len(v2') = Len(v2) - 1 /\ Head(v2) = v2[1]
        /\ v2' \in Seq(1..MaxPush)
        /\ \A n \in 1..Len(v2') : v2'[n] = v2[n + 1]
    BY <2>1 DEF SizedInv, SizedTypeOK
  <2>3. PICK k \in 1..MaxPush : k = v2[1]
    <3>1. 1 \in 1..Len(v2) /\ v2 \in Seq(1..MaxPush)
      BY <2>2 DEF SizedInv, SizedTypeOK
    <3> QED BY <3>1, ElementOfSeq
  <2>4. /\ v4'[w] = k /\ \A u \in Threads : u # w => v4'[u] = v4[u]
        /\ v4' \in [Threads -> Nat]
    BY <2>1, <2>2, <2>3 DEF SizedInv, SizedTypeOK
  <2>5. SizedTypeOK'
    BY <1>2, <2>1, <2>2, <2>4 DEF SizedInv, SizedTypeOK
  <2>6. /\ \A n \in 1..Len(v2') : n + 1 \in 1..Len(v2)
        /\ \A n \in 1..Len(v2) : n = 1 \/ (n - 1 \in 1..Len(v2') /\ v2'[n - 1] = v2[n])
    BY <2>2
  <2>a. /\ pc'[w] = "run" /\ \A u \in Threads : u # w => pc'[u] = pc[u]
        /\ \A j \in 1..MaxPush : Added(j)' <=> Added(j)
        /\ \A n \in 1..Len(v2) : v2[n] \in 1..MaxPush
    <3>1. v2 \in Seq(1..MaxPush)
      BY DEF SizedInv, SizedTypeOK
    <3> QED BY <1>1, <1>2, <2>1, <3>1, ElementOfSeq
  <2>7. AtMostOnce'
    <3>1. \A m, n \in 1..Len(v2') : v2'[m] = v2'[n] => m = n
      BY <2>2, <2>6 DEF SizedInv, AtMostOnce
    <3>2. \A n \in 1..Len(v2') : Added(v2'[n]) /\ v5[v2'[n]] = 0
      BY <2>2, <2>6 DEF SizedInv, AtMostOnce
    <3>3. Added(k) /\ v5[k] = 0 /\ \A u \in Threads : pc[u] = "run" => v4[u] # k
      <4>1. 1 \in 1..Len(v2)
        BY <2>2
      <4> QED BY <2>3, <4>1 DEF SizedInv, AtMostOnce
    <3>4. \A n \in 1..Len(v2') : v2'[n] # k
      <4>1. 1 \in 1..Len(v2) /\ \A n \in 1..Len(v2') : n + 1 \in 1..Len(v2) /\ n + 1 # 1
        BY <2>2, <2>6
      <4> QED BY <2>2, <2>3, <4>1 DEF SizedInv, AtMostOnce
    <3>5. \A u \in Threads : pc'[u] = "run" =>
              v4'[u] \in 1..MaxPush /\ Added(v4'[u]) /\ v5[v4'[u]] = 0
      BY <2>4, <2>a, <3>3 DEF SizedInv, AtMostOnce
    <3>6. \A u, x \in Threads : pc'[u] = "run" /\ pc'[x] = "run" /\ v4'[u] = v4'[x] => u = x
      BY <2>4, <2>a, <3>3 DEF SizedInv, AtMostOnce
    <3>7. \A u \in Threads : pc'[u] = "run" => \A n \in 1..Len(v2') : v2'[n] # v4'[u]
      <4> SUFFICES ASSUME NEW u \in Threads, pc'[u] = "run", NEW n \in 1..Len(v2')
                   PROVE  v2'[n] # v4'[u]
        OBVIOUS
      <4>1. CASE u = w
        BY <2>4, <3>4, <4>1
      <4>2. CASE u # w
        <5>1. pc[u] = "run" /\ v4'[u] = v4[u] /\ v2'[n] = v2[n + 1] /\ n + 1 \in 1..Len(v2)
          BY <2>2, <2>4, <2>6, <2>a, <4>2
        <5> QED BY <5>1 DEF SizedInv, AtMostOnce
      <4> QED BY <4>1, <4>2
    <3>8. \A j \in 1..MaxPush : v5[j] = 0 \/ (v5[j] = 1 /\ Added(j))
      BY DEF SizedInv, AtMostOnce
    <3> QED BY <2>1, <3>1, <3>2, <3>5, <3>6, <3>7, <3>8 DEF AtMostOnce, Added
  <2>8. NoneForgotten'
    <3> SUFFICES ASSUME NEW j \in 1..MaxPush, Added(j)'
                 PROVE  \/ v5'[j] = 1
                        \/ \E n \in 1..Len(v2') : v2'[n] = j
                        \/ \E u \in Threads : pc'[u] = "run" /\ v4'[u] = j
      BY DEF NoneForgotten
    <3>1. CASE v5[j] = 1
      BY <2>1, <3>1
    <3>2. ASSUME NEW n \in 1..Len(v2), v2[n] = j
          PROVE  \/ \E m \in 1..Len(v2') : v2'[m] = j
                 \/ \E u \in Threads : pc'[u] = "run" /\ v4'[u] = j
      BY <2>3, <2>4, <2>6, <2>a, <3>2
    <3>3. ASSUME NEW u \in Threads, pc[u] = "run", v4[u] = j
          PROVE  pc'[u] = "run" /\ v4'[u] = j
      BY <2>1, <2>4, <2>a, <3>3
    <3> QED BY <2>a, <3>1, <3>2, <3>3 DEF SizedInv, NoneForgotten
  <2>9. Stopping'
    BY <1>2, <2>1 DEF SizedInv, Stopping
  <2> QED BY <2>5, <2>7, <2>8, <2>9 DEF SizedInv
<1>6. CASE SizedPool!Run(w)
  <2>1. /\ SizedPool!Goto(w, "lock") /\ pc[w] = "run" /\ UNCHANGED <<v1, v2, v3, v4>>
        /\ v5' = [v5 EXCEPT ![v4[w]] = @ + 1]
    BY <1>6 DEF SizedPool!Run
  <2>2. PICK k \in 1..MaxPush : k = v4[w] /\ v5[k] = 0 /\ Added(k)
    BY <2>1 DEF SizedInv, AtMostOnce
  <2>3. /\ v5'[k] = 1 /\ \A j \in 1..MaxPush : j # k => v5'[j] = v5[j]
        /\ v5' \in [1..MaxPush -> Nat]
    BY <2>1, <2>2 DEF SizedInv, SizedTypeOK
  <2>4. SizedTypeOK'
    BY <1>2, <2>1, <2>3 DEF SizedInv, SizedTypeOK
  <2>5. /\ \A n \in 1..Len(v2) : v2[n] \in 1..MaxPush /\ v2[n] # k
        /\ \A u \in Threads : pc'[u] = "run" => pc[u] = "run" /\ v4[u] # k
    <3>1. v2 \in Seq(1..MaxPush)
      BY DEF SizedInv, SizedTypeOK
    <3>2. \A n \in 1..Len(v2) : v2[n] \in 1..MaxPush
      BY <3>1, ElementOfSeq
    <3>3. \A n \in 1..Len(v2) : v2[n] # k
      BY <2>1, <2>2 DEF SizedInv, AtMostOnce
    <3>4. \A u \in Threads : pc'[u] = "run" => pc[u] = "run" /\ u # w
      BY <1>2, <2>1
    <3>5. \A u \in Threads : pc[u] = "run" /\ u # w => v4[u] # k
      BY <2>1, <2>2 DEF SizedInv, AtMostOnce
    <3> QED BY <3>2, <3>3, <3>4, <3>5
  <2>6. AtMostOnce'
    BY <1>1, <2>1, <2>2, <2>3, <2>5 DEF SizedInv, AtMostOnce
  <2>7. NoneForgotten'
    BY <1>1, <1>2, <2>1, <2>2, <2>3, <2>5 DEF SizedInv, NoneForgotten
  <2>8. Stopping'
    BY <1>2, <2>1 DEF SizedInv, Stopping
  <2> QED BY <2>4, <2>6, <2>7, <2>8 DEF SizedInv
<1> QED BY <1>3, <1>4, <1>5, <1>6 DEF SizedPool!WorkerStep

LEMMA SizedNext == SizedInv /\ [SizedPool!Next]_(SizedPool!vars) => SizedInv'
<1> SUFFICES ASSUME SizedInv, UNCHANGED SizedPool!vars PROVE SizedInv'
  BY SizedMain, SizedWorker DEF SizedPool!Next
<1>1. UNCHANGED <<pc, v1, v2, v3, v4, v5>>
  BY DEF SizedPool!vars
<1>2. AtMostOnce' /\ NoneForgotten'
  BY <1>1, TasksStay DEF Added
<1>3. SizedTypeOK' /\ Stopping'
  BY <1>1 DEF SizedInv, SizedTypeOK, Stopping
<1> QED BY <1>2, <1>3 DEF SizedInv

\* When main returns all workers have quit, so that the queue is empty and no task is
\* being run.
LEMMA SizedSafe == SizedInv => SizedPool!DrainedBeforeReturn
<1> SUFFICES ASSUME SizedInv PROVE SizedPool!DrainedBeforeReturn
  OBVIOUS
<1>1. \A k \in 1..MaxPush : v5[k] <= 1
  BY DEF SizedInv, AtMostOnce
<1>2. ASSUME v1.what = "returned", NEW k \in 1..MaxPush PROVE v5[k] = 1
  <2>1. PICK w \in Threads : TRUE
    BY ThreadNames
  <2>2. v2 = <<>> /\ \A u \in Threads : pc[u] # "run"
    BY <1>2, <2>1 DEF SizedInv, Stopping
  <2>3. Added(k)
    BY <1>2 DEF Added
  <2> QED BY <2>2, <2>3 DEF SizedInv, NoneForgotten
<1> QED BY <1>1, <1>2 DEF SizedPool!DrainedBeforeReturn

-----------------------------------------------------------------------------
(* All programs that do work                                               *)

WorkInv ==
    /\ lesson = "tickets" => TicketsInv
    /\ lesson = "pool" => PoolInv
    /\ lesson = "unsized" => UnsizedInv
    /\ lesson = "sized" => SizedInv
    /\ lesson = "threads" => ThreadsInv

LEMMA WorkInit == Init => WorkInv
  BY TicketsInit, PoolInit, UnsizedInit, SizedInit, ThreadsInit DEF Init, WorkInv

LEMMA WorkNext == WorkInv /\ [Next]_vars => WorkInv'
<1> SUFFICES ASSUME WorkInv, [Next]_vars PROVE WorkInv'
  OBVIOUS
<1>1. lesson' = lesson
  BY DEF Next, vars
<1>2. ASSUME lesson = "tickets" PROVE TicketsInv'
  <2>1. [TicketsL!Next]_(TicketsL!vars)
    BY <1>2 DEF Next, vars, TicketsL!vars
  <2> QED BY <1>2, <2>1, TicketsNext DEF WorkInv
<1>3. ASSUME lesson = "pool" PROVE PoolInv'
  <2>1. [Pool!Next]_(Pool!vars)
    BY <1>3 DEF Next, vars, Pool!vars
  <2> QED BY <1>3, <2>1, PoolNext DEF WorkInv
<1>4. ASSUME lesson = "unsized" PROVE UnsizedInv'
  <2>1. [Unsized!Next]_(Unsized!vars)
    BY <1>4 DEF Next, vars, Unsized!vars
  <2> QED BY <1>4, <2>1, UnsizedNext DEF WorkInv
<1>5. ASSUME lesson = "sized" PROVE SizedInv'
  <2>1. [SizedPool!Next]_(SizedPool!vars)
    BY <1>5 DEF Next, vars, SizedPool!vars
  <2> QED BY <1>5, <2>1, SizedNext DEF WorkInv
<1>6. ASSUME lesson = "threads" PROVE ThreadsInv'
  <2>1. [ThreadsL!Next]_(ThreadsL!vars)
    BY <1>6 DEF Next, vars, ThreadsL!vars
  <2> QED BY <1>6, <2>1, ThreadsNext DEF WorkInv
<1> QED BY <1>1, <1>2, <1>3, <1>4, <1>5, <1>6 DEF WorkInv

\* However many threads, tickets and tasks there are: too few tickets are never sold,
\* every task of the one pool is run once with the right outcome, none of the other
\* is left when main returns, and main leaves after its thread (Thread/Main.cc:12-43,
\* Teach_ThreadPool.hpp:57-95, My_Thread_Pool_Test.hpp:29-82, testThread.cc:52-76).
THEOREM WorkAlwaysDone == FairSpec => []WorkDone
<1>1. WorkInv => WorkDone
  BY TicketsSafe, PoolSafe, UnsizedSafe, SizedSafe, ThreadsSafe DEF WorkInv, WorkDone
<1> QED BY <1>1, WorkInit, WorkNext, PTL DEF FairSpec

-----------------------------------------------------------------------------
(* The parent and the child of 1.testPipe                                  *)

\* As long as the parent has not read, it holds the end it will read from, so that
\* its child is not killed, and a child that may still write holds the other one.
PipeInv ==
    /\ pc \in [parent : {"start", "fork", "close", "read", "closeread", "wait", "exit"},
               child : {"none", "close", "write", "zombie", "reaped"}]
    /\ v3 \in Nat
    /\ pc["parent"] \in {"start", "fork", "close", "read"} =>
          v4 = PipeL!Unread /\ pc["child"] \in {"none", "close", "write"}
    /\ pc["parent"] \in {"start", "fork"} => pc["child"] = "none"
    /\ pc["parent"] \in {"fork", "close", "read"} => "parent" \in v1
    /\ pc["child"] \in {"close", "write"} => "child" \in v2
    /\ v4 = 0 => pc["child"] = "none"

LEMMA PipeInit == PipeL!Init => PipeInv
  BY DEF PipeL!Init, PipeL!Unread, PipeInv

LEMMA PipeNext == PipeInv /\ [PipeL!Next]_(PipeL!vars) => PipeInv'
<1> SUFFICES ASSUME PipeInv, [PipeL!Next]_(PipeL!vars) PROVE PipeInv'
  OBVIOUS
<1> USE DEF PipeInv, PipeL!Goto, PipeL!Unread
<1>1. CASE PipeL!Pipe
  BY <1>1 DEF PipeL!Pipe
<1>2. CASE PipeL!Fork
  BY <1>2 DEF PipeL!Fork
<1>3. CASE PipeL!CloseWriteEnd
  BY <1>3 DEF PipeL!CloseWriteEnd
<1>4. CASE PipeL!FatherProcessRead
  BY <1>4 DEF PipeL!FatherProcessRead
<1>5. CASE PipeL!CloseReadEnd
  BY <1>5 DEF PipeL!CloseReadEnd
<1>6. CASE PipeL!Wait
  BY <1>6 DEF PipeL!Wait
<1>7. CASE PipeL!CloseUnused
  BY <1>7 DEF PipeL!CloseUnused
<1>8. CASE PipeL!SubProcessWrite
  BY <1>8 DEF PipeL!SubProcessWrite
<1>9. CASE PipeL!Killed
  BY <1>9 DEF PipeL!Killed
<1>10. CASE UNCHANGED PipeL!vars
  BY <1>10 DEF PipeL!vars
<1> QED BY <1>1, <1>2, <1>3, <1>4, <1>5, <1>6, <1>7, <1>8, <1>9, <1>10
        DEF PipeL!Next, PipeL!ParentStep, PipeL!ChildStep

LEMMA PipeSafe == PipeInv => PipeL!EndOfFileWithoutChild
  BY DEF PipeInv, PipeL!EndOfFileWithoutChild

-----------------------------------------------------------------------------
(* The chat client                                                         *)

\* Main has waited for its threads, one after the other, before it closes the socket.
ChatInv ==
    /\ pc \in [main : {"InitClient", "start recver", "start sender", "join recver",
                       "join sender", "close", "exited", "crashed", "returned"},
               recver : {"constructed", "created", "failed", "running", "ended"},
               sender : {"constructed", "created", "failed", "running", "ended"}]
    /\ pc["main"] \in {"join sender", "close", "returned"} => ~Chat!Alive("recver")
    /\ pc["main"] \in {"close", "returned"} => ~Chat!Alive("sender")
    /\ v1 = "closed" => pc["main"] = "returned"

LEMMA ChatInit == Chat!Init => ChatInv
  BY DEF Chat!Init, ChatInv

LEMMA ChatNext == ChatInv /\ [Chat!Next]_(Chat!vars) => ChatInv'
<1> SUFFICES ASSUME ChatInv, [Chat!Next]_(Chat!vars) PROVE ChatInv'
  OBVIOUS
<1> USE DEF ChatInv, Chat!Alive, Chat!At
<1>1. CASE Chat!InitClient
  BY <1>1 DEF Chat!InitClient
<1>2. ASSUME NEW t \in {"recver", "sender"}, NEW here \in {"start recver", "start sender"},
             NEW there \in {"start sender", "join recver"}, Chat!Start(t, here, there)
      PROVE  ChatInv'
  BY <1>2 DEF Chat!Start
<1>3. CASE Chat!Join("recver", "join recver", "join sender")
  BY <1>3 DEF Chat!Join
<1>4. CASE Chat!Join("sender", "join sender", "close")
  BY <1>4 DEF Chat!Join
<1>5. CASE Chat!CloseSocket
  BY <1>5 DEF Chat!CloseSocket
<1>6. CASE Chat!RecverStep \/ Chat!SenderStep
  BY <1>6 DEF Chat!RecverStep, Chat!SenderStep, Chat!Excute, Chat!Show, Chat!Say,
              Chat!StopSaying
<1>7. CASE Chat!RecvError \/ Chat!Arrive
  BY <1>7 DEF Chat!RecvError, Chat!Arrive
<1>8. CASE UNCHANGED Chat!vars
  BY <1>8 DEF Chat!vars
<1> QED BY <1>1, <1>2, <1>3, <1>4, <1>5, <1>6, <1>7, <1>8 DEF Chat!Next, Chat!MainStep

LEMMA ChatSafe == ChatInv => Chat!SocketOutlivesUsers
  BY DEF ChatInv, Chat!SocketOutlivesUsers, Chat!Workers

-----------------------------------------------------------------------------
(* The program that polls its standard input                               *)

LEMMA PollingInit == Polling!Init => Polling!AllEchoed
  BY DEF Polling!Init, Polling!AllEchoed

LEMMA PollingNext ==
    Polling!AllEchoed /\ [Polling!Next]_(Polling!vars) => Polling!AllEchoed'
  BY DEF Polling!AllEchoed, Polling!Next, Polling!vars, Polling!Step, Polling!SetNonBlock,
         Polling!Echo, Polling!ReadDone, Polling!PollAgain, Polling!ReadError, Polling!Type,
         Polling!EndInput, Polling!Over

-----------------------------------------------------------------------------
(* Fifos                                                                   *)

Messages == Clients \X Nat
Contents(q) == {q[n] : n \in 1..Len(q)}

\* What is in a fifo after a read of its first n messages, and after a write.
LEMMA ContentsCut ==
    ASSUME NEW q \in Seq(Messages), NEW n \in 1..Len(q)
    PROVE  /\ SubSeq(q, 1, n) \in Seq(Messages) /\ SubSeq(q, n + 1, Len(q)) \in Seq(Messages)
           /\ Contents(q) = Contents(SubSeq(q, 1, n)) \cup Contents(SubSeq(q, n + 1, Len(q)))
<1>1. /\ Len(q) \in Nat /\ n \in Nat /\ 1 <= n /\ n <= Len(q)
      /\ \A i \in 1..Len(q) : q[i] \in Messages
  BY ElementOfSeq
<1>2. /\ Len(SubSeq(q, 1, n)) = n
      /\ \A i \in 1..n : SubSeq(q, 1, n)[i] = q[i]
      /\ SubSeq(q, 1, n) \in Seq(Messages)
  BY <1>1
<1>3. /\ Len(SubSeq(q, n + 1, Len(q))) = Len(q) - n
      /\ \A i \in 1..(Len(q) - n) : SubSeq(q, n + 1, Len(q))[i] = q[n + i]
      /\ SubSeq(q, n + 1, Len(q)) \in Seq(Messages)
  BY <1>1
<1>4. ASSUME NEW i \in 1..Len(q), i > n
      PROVE  i - n \in 1..(Len(q) - n) /\ SubSeq(q, n + 1, Len(q))[i - n] = q[i]
  BY <1>1, <1>3, <1>4
<1>5. \A i \in 1..Len(q) : i <= n => i \in 1..n
  BY <1>1
<1>6. (\A i \in 1..n : i \in 1..Len(q)) /\ \A i \in 1..(Len(q) - n) : n + i \in 1..Len(q)
  BY <1>1
<1>7. \A m \in Contents(q) :
         m \in Contents(SubSeq(q, 1, n)) \/ m \in Contents(SubSeq(q, n + 1, Len(q)))
  <2> SUFFICES ASSUME NEW i \in 1..Len(q)
               PROVE  \/ q[i] \in Contents(SubSeq(q, 1, n))
                      \/ q[i] \in Contents(SubSeq(q, n + 1, Len(q)))
    BY DEF Contents
  <2>1. CASE i <= n
    BY <1>2, <1>5, <2>1 DEF Contents
  <2>2. CASE i > n
    BY <1>3, <1>4, <2>2 DEF Contents
  <2> QED BY <1>1, <2>1, <2>2
<1>8. /\ \A m \in Contents(SubSeq(q, 1, n)) : m \in Contents(q)
      /\ \A m \in Contents(SubSeq(q, n + 1, Len(q))) : m \in Contents(q)
  BY <1>2, <1>3, <1>6 DEF Contents
<1> QED BY <1>2, <1>3, <1>7, <1>8

LEMMA ContentsAppend ==
    ASSUME NEW q \in Seq(Messages), NEW m \in Messages
    PROVE  Append(q, m) \in Seq(Messages) /\ Contents(Append(q, m)) = Contents(q) \cup {m}
<1>1. /\ Append(q, m) \in Seq(Messages) /\ Len(Append(q, m)) = Len(q) + 1 /\ Len(q) \in Nat
      /\ Append(q, m)[Len(q) + 1] = m
      /\ \A i \in 1..Len(q) : Append(q, m)[i] = q[i]
  OBVIOUS
<1> QED BY <1>1 DEF Contents

LEMMA ContentsEmpty == <<>> \in Seq(Messages) /\ Contents(<<>>) = {}
  BY EmptySeq DEF Contents

LEMMA ContentsConcat ==
    ASSUME NEW p \in Seq(Messages), NEW q \in Seq(Messages)
    PROVE  p \o q \in Seq(Messages) /\ Contents(p \o q) = Contents(p) \cup Contents(q)
<1>1. /\ p \o q \in Seq(Messages) /\ Len(p \o q) = Len(p) + Len(q)
      /\ Len(p) \in Nat /\ Len(q) \in Nat
      /\ \A i \in 1..Len(p) : (p \o q)[i] = p[i]
      /\ \A i \in 1..Len(q) : (p \o q)[Len(p) + i] = q[i]
  OBVIOUS
<1>2. \A i \in 1..Len(p \o q) : i \in 1..Len(p) \/ (i - Len(p) \in 1..Len(q) /\ i = Len(p) + (i - Len(p)))
  BY <1>1
<1>3. \A i \in 1..Len(p) : i \in 1..Len(p \o q)
  BY <1>1
<1>4. \A i \in 1..Len(q) : Len(p) + i \in 1..Len(p \o q)
  BY <1>1
<1>5. \A m \in Contents(p \o q) : m \in Contents(p) \cup Contents(q)
  BY <1>1, <1>2 DEF Contents
<1>6. \A m \in Contents(p) \cup Contents(q) : m \in Contents(p \o q)
  BY <1>1, <1>3, <1>4 DEF Contents
<1> QED BY <1>1, <1>5, <1>6

\* One fifo gets other contents, or a new one is made.
LEMMA OneFifo ==
    ASSUME NEW d \in Seq(Seq(Messages)), NEW f \in 1..Len(d), NEW q \in Seq(Messages)
    PROVE  /\ [d EXCEPT ![f] = q] \in Seq(Seq(Messages))
           /\ Len([d EXCEPT ![f] = q]) = Len(d)
           /\ [d EXCEPT ![f] = q][f] = q
           /\ \A g \in 1..Len(d) : g # f => [d EXCEPT ![f] = q][g] = d[g]
  OBVIOUS

LEMMA NewFifo ==
    ASSUME NEW d \in Seq(Seq(Messages))
    PROVE  /\ Append(d, <<>>) \in Seq(Seq(Messages))
           /\ Len(Append(d, <<>>)) = Len(d) + 1 /\ Len(d) \in Nat
           /\ Append(d, <<>>)[Len(d) + 1] = <<>>
           /\ \A g \in 1..Len(d) : Append(d, <<>>)[g] = d[g]
<1>1. <<>> \in Seq(Messages)
  BY EmptySeq
<1> QED BY <1>1, AppendProperties

-----------------------------------------------------------------------------
(* The shared memory of 4.shm, with any servers and either flag            *)

ShmPlaces ==
    {"off", "attached", "created", "opening", "open", "show", "zero", "zeroed", "stored",
     "done", "killed"}

ShmTypeOK(servers) ==
    /\ pc \in [servers \cup Clients -> ShmPlaces]
    /\ v2 \in Seq(Seq(Messages))
    /\ v1 \in 0..Len(v2)
    /\ v3 \in [servers \cup Clients -> 0..Len(v2)]
    /\ v7 \in Clients \cup {0}
    /\ DOMAIN v8 = servers \cup Clients
    /\ \A c \in Clients : v8[c] \in Nat

\* A message tells of a letter that its client has stored.
ToldStored ==
    \A f \in 1..Len(v2) : \A m \in Contents(v2[f]) : m[2] <= v8[m[1]]

\* So does what a server has read last, if it has read anything.
ReadStored(servers) ==
    \A s \in servers :
        v8[s] = <<0, 0>> \/ (v8[s] \in Messages /\ v8[s][2] <= v8[v8[s][1]])

\* All letters of the client that cleared the memory last are there.
OwnerStored ==
    /\ v7 \in Clients => 1..v8[v7] \subseteq v5 /\ pc[v7] \notin {"off", "zero"}
    /\ \A c \in Clients : pc[c] \in {"off", "zero"} => v8[c] = 0

ShmInv(servers) ==
    ShmTypeOK(servers) /\ ToldStored /\ ReadStored(servers) /\ OwnerStored

LEMMA ShmInit ==
    ASSUME NEW servers, NEW exclusive, Shm(servers, exclusive)!ShmAssumption,
           Shm(servers, exclusive)!Init
    PROVE  ShmInv(servers)
<1>1. /\ pc = [p \in servers \cup Clients |-> "off"]
      /\ v1 = 0 /\ v2 = <<>> /\ v3 = [p \in servers \cup Clients |-> 0]
      /\ v7 = 0
      /\ v8 = [p \in servers \cup Clients |-> IF p \in Clients THEN 0 ELSE <<0, 0>>]
  BY DEF Shm!Init, Shm!PipeInit, Shm!Processes, Shm!NoFifo, Shm!NoMessage
<1>2. servers \cap Clients = {} /\ 0 \notin Clients
  BY DEF Shm!ShmAssumption, Shm!NamedPipeAssumption, Shm!Processes
<1>3. v2 \in Seq(Seq(Messages)) /\ Len(v2) = 0
  BY <1>1, EmptySeq
<1>4. ShmTypeOK(servers)
  BY <1>1, <1>2, <1>3 DEF ShmTypeOK, ShmPlaces
<1>5. ToldStored
  BY <1>3 DEF ToldStored
<1>6. ReadStored(servers) /\ OwnerStored
  BY <1>1, <1>2 DEF ReadStored, OwnerStored
<1> QED BY <1>4, <1>5, <1>6 DEF ShmInv

\* A step that neither writes a message nor touches letters or memory.
LEMMA ShmQuiet ==
    ASSUME NEW servers, servers \cap Clients = {}, ShmInv(servers), ShmTypeOK(servers)',
           UNCHANGED <<v5, v7, v8>>,
           \A f \in 1..Len(v2') : \A m \in Contents(v2'[f]) :
               f \in 1..Len(v2) /\ m \in Contents(v2[f]),
           \A c \in Clients : pc'[c] \in {"off", "zero"} => pc[c] \in {"off", "zero"}
    PROVE  ShmInv(servers)'
<1>1. ToldStored'
  BY DEF ShmInv, ToldStored
<1>2. ReadStored(servers)'
  BY DEF ShmInv, ReadStored
<1>3. OwnerStored'
  BY DEF ShmInv, OwnerStored
<1> QED BY <1>1, <1>2, <1>3 DEF ShmInv

\* What closing leaves in the fifos.
LEMMA ShmClose ==
    ASSUME NEW servers, NEW exclusive, Shm(servers, exclusive)!ShmAssumption,
           ShmInv(servers), NEW p \in servers \cup Clients,
           NEW place \in ShmPlaces \ {"off", "zero"},
           Shm(servers, exclusive)!Goto(p, place), Shm(servers, exclusive)!Close(p),
           UNCHANGED <<v1, v5, v7, v8>>
    PROVE  ShmInv(servers)'
<1>0. servers \cap Clients = {}
  BY DEF Shm!ShmAssumption, Shm!NamedPipeAssumption
<1>1. pc' \in [servers \cup Clients -> ShmPlaces] /\ pc'[p] = place
      /\ \A q \in servers \cup Clients : q # p => pc'[q] = pc[q]
  BY DEF Shm!Goto, ShmInv, ShmTypeOK
<1>2. \A q \in servers \cup Clients : pc'[q] \in {"off", "zero"} => pc[q] \in {"off", "zero"}
  BY <1>1
<1>3. PICK f \in 0..Len(v2) : f = v3[p]
  BY DEF ShmInv, ShmTypeOK
<1>4. v3' = [v3 EXCEPT ![p] = 0] /\ (v2' = v2 \/ (f # 0 /\ v2' = [v2 EXCEPT ![f] = <<>>]))
  BY <1>3 DEF Shm!Close, Shm!NoFifo
<1>5. v2 \in Seq(Seq(Messages)) /\ Len(v2) \in Nat
  BY DEF ShmInv, ShmTypeOK
<1>6. /\ v2' \in Seq(Seq(Messages)) /\ Len(v2') = Len(v2)
      /\ \A g \in 1..Len(v2) : Contents(v2'[g]) \subseteq Contents(v2[g])
  <2>1. CASE v2' = v2
    BY <1>5, <2>1
  <2>2. CASE f # 0 /\ v2' = [v2 EXCEPT ![f] = <<>>]
    <3>1. f \in 1..Len(v2)
      BY <1>5, <2>2
    <3>2. /\ v2' \in Seq(Seq(Messages)) /\ Len(v2') = Len(v2) /\ v2'[f] = <<>>
          /\ \A g \in 1..Len(v2) : g # f => v2'[g] = v2[g]
      BY <1>5, <2>2, <3>1, OneFifo, ContentsEmpty
    <3> QED BY <3>2, ContentsEmpty
  <2> QED BY <1>4, <2>1, <2>2
<1>7. ShmTypeOK(servers)'
  BY <1>1, <1>4, <1>5, <1>6 DEF ShmInv, ShmTypeOK
<1> QED BY <1>0, <1>2, <1>6, <1>7, ShmQuiet

\* Opening touches no fifo.
LEMMA ShmOpen ==
    ASSUME NEW servers, NEW exclusive, Shm(servers, exclusive)!ShmAssumption,
           ShmInv(servers), NEW p \in servers \cup Clients,
           Shm(servers, exclusive)!OpenNamedPipe(p),
           UNCHANGED <<v5, v7, v8>>
    PROVE  ShmInv(servers)'
<1>0. servers \cap Clients = {}
  BY DEF Shm!ShmAssumption, Shm!NamedPipeAssumption
<1>1. /\ pc' \in [servers \cup Clients -> ShmPlaces]
      /\ \A q \in servers \cup Clients : pc'[q] \in {"open", "opening", pc[q]}
  BY DEF Shm!OpenNamedPipe, Shm!Processes, ShmInv, ShmTypeOK, ShmPlaces
<1>2. UNCHANGED <<v1, v2>> /\ v3' = [v3 EXCEPT ![p] = v1]
  BY DEF Shm!OpenNamedPipe
<1>3. ShmTypeOK(servers)'
  BY <1>1, <1>2 DEF ShmInv, ShmTypeOK
<1> QED BY <1>0, <1>1, <1>2, <1>3, ShmQuiet

\* The steps of a server.
LEMMA ShmServerNext ==
    ASSUME NEW servers, NEW exclusive, Shm(servers, exclusive)!ShmAssumption,
           ShmInv(servers), NEW s \in servers,
           Shm(servers, exclusive)!ServerStep(s)
    PROVE  ShmInv(servers)'
<1>0. servers \cap Clients = {} /\ 0 \notin Clients
  BY DEF Shm!ShmAssumption, Shm!NamedPipeAssumption, Shm!Processes
<1>1. ASSUME NEW place \in ShmPlaces \ {"off", "zero"}, Shm(servers, exclusive)!Goto(s, place)
      PROVE  /\ pc' \in [servers \cup Clients -> ShmPlaces]
             /\ \A c \in Clients : pc'[c] = pc[c]
  BY <1>0, <1>1 DEF Shm!Goto, ShmInv, ShmTypeOK
<1>2. CASE Shm(servers, exclusive)!StartServer(s)
  <2>1. Shm(servers, exclusive)!Goto(s, "attached") /\ UNCHANGED <<v1, v2, v3, v5, v7, v8>>
    BY <1>2 DEF Shm!StartServer
  <2>2. ShmTypeOK(servers)' /\ \A c \in Clients : pc'[c] = pc[c]
    BY <1>1, <2>1 DEF ShmInv, ShmTypeOK, ShmPlaces
  <2> QED BY <1>0, <2>1, <2>2, ShmQuiet
<1>3. CASE Shm(servers, exclusive)!MakeFifo(s)
  <2>1. /\ Shm(servers, exclusive)!Goto(s, "created") /\ UNCHANGED <<v3, v5, v7, v8>>
        /\ \/ v2' = Append(v2, <<>>) /\ v1' = Len(v2')
           \/ UNCHANGED <<v1, v2>>
    BY <1>3 DEF Shm!MakeFifo, Shm!CreateNamedPipe, Shm!shmVars
  <2>2. v2 \in Seq(Seq(Messages))
    BY DEF ShmInv, ShmTypeOK
  <2>3. /\ v2' \in Seq(Seq(Messages)) /\ v1' \in 0..Len(v2') /\ Len(v2') >= Len(v2)
        /\ Len(v2) \in Nat /\ Len(v2') \in Nat
        /\ \A f \in 1..Len(v2') : v2'[f] = <<>> \/ (f \in 1..Len(v2) /\ v2'[f] = v2[f])
    <3>1. CASE UNCHANGED <<v1, v2>>
      BY <2>2, <3>1 DEF ShmInv, ShmTypeOK
    <3>2. CASE v2' = Append(v2, <<>>) /\ v1' = Len(v2')
      BY <2>2, <3>2, NewFifo
    <3> QED BY <2>1, <3>1, <3>2
  <2>4. ShmTypeOK(servers)'
    <3>1. v3' \in [servers \cup Clients -> 0..Len(v2')]
      BY <2>1, <2>3 DEF ShmInv, ShmTypeOK
    <3> QED BY <1>1, <2>1, <2>3, <3>1 DEF ShmInv, ShmTypeOK, ShmPlaces
  <2>5. \A c \in Clients : pc'[c] = pc[c]
    BY <1>1, <2>1 DEF ShmPlaces
  <2> QED BY <1>0, <2>1, <2>3, <2>4, <2>5, ShmQuiet, ContentsEmpty
<1>4. CASE Shm(servers, exclusive)!OpenForRead(s)
  BY <1>4, ShmOpen DEF Shm!OpenForRead, Shm!shmVars
<1>5. CASE Shm(servers, exclusive)!Wakeup(s)
  <2>1. PICK n \in 1..Capacity :
          /\ v3[s] # 0 /\ n \in 1..Len(v2[v3[s]])
          /\ v2' = [v2 EXCEPT ![v3[s]] = SubSeq(@, n + 1, Len(@))]
          /\ v8' = [v8 EXCEPT ![s] = v2[v3[s]][n]]
    BY <1>5 DEF Shm!Wakeup, Shm!ReadNamedPipe, Shm!NoFifo
  <2>2. Shm(servers, exclusive)!Goto(s, "show") /\ UNCHANGED <<v1, v3, v5, v7>>
    BY <1>5 DEF Shm!Wakeup
  <2>3. v2 \in Seq(Seq(Messages)) /\ Len(v2) \in Nat
    BY DEF ShmInv, ShmTypeOK
  <2>4. PICK f \in 1..Len(v2) : f = v3[s]
    BY <2>1, <2>3 DEF ShmInv, ShmTypeOK
  <2>5. PICK q \in Seq(Messages) : q = v2[f]
    BY <2>3, <2>4, ElementOfSeq
  <2>6. PICK m \in Messages : m = q[n] /\ m \in Contents(q)
    BY <2>1, <2>4, <2>5, ElementOfSeq DEF Contents
  <2>7. PICK r \in Seq(Messages) : r = SubSeq(q, n + 1, Len(q)) /\ Contents(r) \subseteq Contents(q)
    <3>1. n \in 1..Len(q)
      BY <2>1, <2>4, <2>5
    <3>2. /\ SubSeq(q, n + 1, Len(q)) \in Seq(Messages)
          /\ Contents(SubSeq(q, n + 1, Len(q))) \subseteq Contents(q)
      BY <3>1, ContentsCut
    <3> QED BY <3>2
  <2>8. v2' = [v2 EXCEPT ![f] = r]
    BY <2>1, <2>4, <2>5, <2>7
  <2>9. /\ v2' \in Seq(Seq(Messages)) /\ Len(v2') = Len(v2)
        /\ \A g \in 1..Len(v2) : Contents(v2'[g]) \subseteq Contents(v2[g])
    BY <2>3, <2>5, <2>7, <2>8, OneFifo
  <2>10. v8'[s] = m /\ DOMAIN v8' = DOMAIN v8 /\ \A p \in DOMAIN v8 : p # s => v8'[p] = v8[p]
    BY <2>1, <2>4, <2>5, <2>6 DEF ShmInv, ShmTypeOK
  <2>11. \A c \in Clients : v8'[c] = v8[c] /\ pc'[c] = pc[c]
    BY <1>0, <1>1, <2>2, <2>10 DEF ShmInv, ShmTypeOK, ShmPlaces
  <2>12. ShmTypeOK(servers)'
    BY <1>1, <2>2, <2>9, <2>10, <2>11 DEF ShmInv, ShmTypeOK, ShmPlaces
  <2>13. \A k \in Messages : k[1] \in Clients
    BY DEF Messages
  <2>14. ToldStored'
    <3> SUFFICES ASSUME NEW g \in 1..Len(v2), NEW k \in Contents(v2'[g])
                 PROVE  k[2] <= v8'[k[1]]
      BY <2>9 DEF ToldStored
    <3>1. k \in Messages
      BY <2>9, ElementOfSeq DEF Contents
    <3> QED BY <2>9, <2>11, <2>13, <3>1 DEF ShmInv, ToldStored
  <2>15. m[2] <= v8[m[1]]
    BY <2>5, <2>6 DEF ShmInv, ToldStored
  <2>16. ReadStored(servers)'
    BY <2>10, <2>11, <2>13, <2>15 DEF ShmInv, ShmTypeOK, ReadStored
  <2>17. OwnerStored'
    BY <2>2, <2>11 DEF ShmInv, OwnerStored
  <2> QED BY <2>12, <2>14, <2>16, <2>17 DEF ShmInv
<1>6. CASE Shm(servers, exclusive)!WakeupByEndOfFile(s)
  <2>1. /\ Shm(servers, exclusive)!Goto(s, "show") /\ UNCHANGED <<v1, v2, v3, v5, v7>>
        /\ v8' = [v8 EXCEPT ![s] = <<0, 0>>]
    BY <1>6 DEF Shm!WakeupByEndOfFile, Shm!NoMessage
  <2>2. v8'[s] = <<0, 0>> /\ DOMAIN v8' = DOMAIN v8 /\ \A p \in DOMAIN v8 : p # s => v8'[p] = v8[p]
    BY <2>1 DEF ShmInv, ShmTypeOK
  <2>3. \A c \in Clients : v8'[c] = v8[c] /\ pc'[c] = pc[c]
    BY <1>0, <1>1, <2>1, <2>2 DEF ShmInv, ShmTypeOK, ShmPlaces
  <2>4. ShmTypeOK(servers)'
    BY <1>1, <2>1, <2>2, <2>3 DEF ShmInv, ShmTypeOK, ShmPlaces
  <2>5. \A k \in Messages : k[1] \in Clients
    BY DEF Messages
  <2>6. ToldStored'
    <3> SUFFICES ASSUME NEW g \in 1..Len(v2), NEW k \in Contents(v2[g])
                 PROVE  k[2] <= v8'[k[1]]
      BY <2>1 DEF ToldStored
    <3>1. k \in Messages
      BY ElementOfSeq DEF ShmInv, ShmTypeOK, Contents
    <3> QED BY <2>3, <2>5, <3>1 DEF ShmInv, ToldStored
  <2>7. ReadStored(servers)' /\ OwnerStored'
    BY <2>1, <2>2, <2>3, <2>5 DEF ShmInv, ShmTypeOK, ReadStored, OwnerStored
  <2> QED BY <2>4, <2>6, <2>7 DEF ShmInv
<1>7. CASE Shm(servers, exclusive)!Show(s)
  <2>1. Shm(servers, exclusive)!Goto(s, "open") /\ UNCHANGED <<v1, v2, v3, v5, v7, v8>>
    BY <1>7 DEF Shm!Show, Shm!shmVars
  <2>2. ShmTypeOK(servers)' /\ \A c \in Clients : pc'[c] = pc[c]
    BY <1>1, <2>1 DEF ShmInv, ShmTypeOK, ShmPlaces
  <2> QED BY <1>0, <2>1, <2>2, ShmQuiet
<1>8. CASE Shm(servers, exclusive)!SegmentationFault(s)
  BY <1>8, ShmClose DEF Shm!SegmentationFault, Shm!shmVars, ShmPlaces
<1> QED BY <1>2, <1>3, <1>4, <1>5, <1>6, <1>7, <1>8 DEF Shm!ServerStep

\* The steps of a client: a letter is stored before it is told of, and the memory of
\* the client that has cleared it last is cleared by nobody else.
LEMMA ShmClientNext ==
    ASSUME NEW servers, NEW exclusive, Shm(servers, exclusive)!ShmAssumption,
           ShmInv(servers), NEW c \in Clients,
           Shm(servers, exclusive)!ClientStep(c)
    PROVE  ShmInv(servers)'
<1>0. servers \cap Clients = {} /\ 0 \notin Clients /\ Letters \in Nat
  BY DEF Shm!ShmAssumption, Shm!NamedPipeAssumption, Shm!Processes
<1>1. ASSUME NEW place \in ShmPlaces, Shm(servers, exclusive)!Goto(c, place)
      PROVE  /\ pc' \in [servers \cup Clients -> ShmPlaces] /\ pc'[c] = place
             /\ \A d \in Clients : d # c => pc'[d] = pc[d]
  BY <1>1 DEF Shm!Goto, ShmInv, ShmTypeOK
<1>2. CASE Shm(servers, exclusive)!StartClient(c)
  <2>1. /\ Shm(servers, exclusive)!Goto(c, "zero") /\ UNCHANGED <<v1, v2, v3, v5, v7, v8>>
        /\ pc[c] = "off"
    BY <1>2 DEF Shm!StartClient
  <2>2. ShmTypeOK(servers)'
    BY <1>1, <2>1 DEF ShmInv, ShmTypeOK, ShmPlaces
  <2>3. \A d \in Clients : pc'[d] = "zero" \/ pc'[d] = "off" => pc[d] \in {"off", "zero"}
    BY <1>1, <2>1 DEF ShmPlaces
  <2> QED BY <1>0, <2>1, <2>2, <2>3, ShmQuiet
<1>3. CASE Shm(servers, exclusive)!Zero(c)
  <2>1. /\ Shm(servers, exclusive)!Goto(c, "zeroed") /\ UNCHANGED <<v1, v2, v3, v8>>
        /\ pc[c] = "zero" /\ v5' = {} /\ v7' = c
    BY <1>3 DEF Shm!Zero
  <2>2. ShmTypeOK(servers)'
    BY <1>1, <2>1 DEF ShmInv, ShmTypeOK, ShmPlaces
  <2>3. ToldStored' /\ ReadStored(servers)'
    BY <2>1 DEF ShmInv, ToldStored, ReadStored
  <2>4. v8[c] = 0
    BY <2>1 DEF ShmInv, OwnerStored
  <2>5. OwnerStored'
    BY <1>1, <2>1, <2>4 DEF ShmInv, OwnerStored, ShmPlaces
  <2> QED BY <2>2, <2>3, <2>5 DEF ShmInv
<1>4. CASE Shm(servers, exclusive)!OpenForWrite(c)
  BY <1>4, ShmOpen DEF Shm!OpenForWrite, Shm!shmVars
<1>5. CASE Shm(servers, exclusive)!OpenForWriteFails(c)
  <2>1. Shm(servers, exclusive)!Goto(c, "open") /\ UNCHANGED <<v1, v2, v3, v5, v7, v8>>
    BY <1>5 DEF Shm!OpenForWriteFails, Shm!shmVars
  <2>2. ShmTypeOK(servers)'
    BY <1>1, <2>1 DEF ShmInv, ShmTypeOK, ShmPlaces
  <2>3. \A d \in Clients : pc'[d] \in {"off", "zero"} => pc[d] \in {"off", "zero"}
    BY <1>1, <2>1 DEF ShmPlaces
  <2> QED BY <1>0, <2>1, <2>2, <2>3, ShmQuiet
<1>6. CASE Shm(servers, exclusive)!Store(c)
  <2>1. /\ Shm(servers, exclusive)!Goto(c, "stored") /\ UNCHANGED <<v1, v2, v3, v7>>
        /\ v8' = [v8 EXCEPT ![c] = @ + 1] /\ v5' = v5 \cup {v8'[c]} /\ pc[c] = "open"
    BY <1>6 DEF Shm!Store
  <2>2. PICK n \in Nat : n = v8[c]
    BY DEF ShmInv, ShmTypeOK
  <2>3. v8'[c] = n + 1 /\ DOMAIN v8' = DOMAIN v8 /\ \A p \in DOMAIN v8 : p # c => v8'[p] = v8[p]
    BY <2>1, <2>2 DEF ShmInv, ShmTypeOK
  <2>4. \A d \in Clients : v8'[d] \in Nat /\ v8'[d] >= v8[d] /\ v8[d] \in Nat
    BY <2>2, <2>3 DEF ShmInv, ShmTypeOK
  <2>5. ShmTypeOK(servers)'
    BY <1>1, <2>1, <2>3, <2>4 DEF ShmInv, ShmTypeOK, ShmPlaces
  <2>6. \A k \in Messages : k[1] \in Clients /\ k[2] \in Nat
    BY DEF Messages
  <2>7. ToldStored'
    <3> SUFFICES ASSUME NEW g \in 1..Len(v2), NEW k \in Contents(v2[g])
                 PROVE  k[2] <= v8'[k[1]]
      BY <2>1 DEF ToldStored
    <3>1. k \in Messages
      BY ElementOfSeq DEF ShmInv, ShmTypeOK, Contents
    <3>2. k[2] <= v8[k[1]]
      BY DEF ShmInv, ToldStored
    <3> QED BY <2>4, <2>6, <3>1, <3>2
  <2>8. ReadStored(servers)'
    <3> SUFFICES ASSUME NEW s \in servers
                 PROVE  v8'[s] = <<0, 0>> \/ (v8'[s] \in Messages /\ v8'[s][2] <= v8'[v8'[s][1]])
      BY DEF ReadStored
    <3>1. v8'[s] = v8[s]
      BY <1>0, <2>3 DEF ShmInv, ShmTypeOK
    <3>2. ASSUME v8[s] \in Messages, v8[s][2] <= v8[v8[s][1]]
          PROVE  v8[s][2] <= v8'[v8[s][1]]
      BY <2>4, <2>6, <3>2
    <3> QED BY <3>1, <3>2 DEF ShmInv, ReadStored
  <2>9. OwnerStored'
    <3>1. 1..(n + 1) = (1..n) \cup {n + 1}
      OBVIOUS
    <3>2. v7 = c => 1..(n + 1) \subseteq v5'
      BY <2>1, <2>2, <2>3, <3>1 DEF ShmInv, OwnerStored
    <3>3. ASSUME v7 \in Clients PROVE 1..v8'[v7] \subseteq v5' /\ pc'[v7] \notin {"off", "zero"}
      <4>1. CASE v7 = c
        BY <1>1, <2>1, <2>3, <3>2, <4>1 DEF ShmPlaces
      <4>2. CASE v7 # c
        <5>1. v8'[v7] = v8[v7] /\ pc'[v7] = pc[v7]
          BY <1>1, <2>1, <2>3, <3>3, <4>2 DEF ShmInv, ShmTypeOK, ShmPlaces
        <5> QED BY <2>1, <3>3, <5>1 DEF ShmInv, OwnerStored
      <4> QED BY <4>1, <4>2
    <3>4. \A d \in Clients : pc'[d] \in {"off", "zero"} => v8'[d] = 0
      BY <1>1, <2>1, <2>3 DEF ShmInv, ShmTypeOK, OwnerStored, ShmPlaces
    <3> QED BY <2>1, <3>3, <3>4 DEF OwnerStored
  <2> QED BY <2>5, <2>7, <2>8, <2>9 DEF ShmInv
<1>7. CASE Shm(servers, exclusive)!Tell(c)
  <2>1. /\ Shm(servers, exclusive)!Goto(c, "open") /\ UNCHANGED <<v1, v3, v5, v7, v8>>
        /\ \/ UNCHANGED v2
           \/ v3[c] # 0 /\ v2' = [v2 EXCEPT ![v3[c]] = Append(@, <<c, v8[c]>>)]
    BY <1>7 DEF Shm!Tell, Shm!WriteNamedPipe, Shm!NoFifo, Shm!shmVars
  <2>2. v2 \in Seq(Seq(Messages)) /\ Len(v2) \in Nat
    BY DEF ShmInv, ShmTypeOK
  <2>3. PICK m \in Messages : m = <<c, v8[c]>>
    BY DEF ShmInv, ShmTypeOK, Messages
  <2>4. /\ v2' \in Seq(Seq(Messages)) /\ Len(v2') = Len(v2)
        /\ \A g \in 1..Len(v2) : Contents(v2'[g]) \subseteq Contents(v2[g]) \cup {m}
    <3>1. CASE UNCHANGED v2
      BY <2>2, <3>1
    <3>2. CASE v3[c] # 0 /\ v2' = [v2 EXCEPT ![v3[c]] = Append(@, <<c, v8[c]>>)]
      <4>1. PICK f \in 1..Len(v2) : f = v3[c]
        BY <2>2, <3>2 DEF ShmInv, ShmTypeOK
      <4>2. PICK q \in Seq(Messages) : q = v2[f]
        BY <2>2, <4>1, ElementOfSeq
      <4>3. PICK r \in Seq(Messages) : r = Append(q, m) /\ Contents(r) = Contents(q) \cup {m}
        BY ContentsAppend
      <4>4. v2' = [v2 EXCEPT ![f] = r]
        BY <2>3, <3>2, <4>1, <4>2, <4>3
      <4> QED BY <2>2, <4>2, <4>3, <4>4, OneFifo
    <3> QED BY <2>1, <3>1, <3>2
  <2>5. ShmTypeOK(servers)'
    BY <1>1, <2>1, <2>4 DEF ShmInv, ShmTypeOK, ShmPlaces
  <2>6. m[1] = c /\ m[2] = v8[c] /\ v8[c] \in Nat
    BY <2>3 DEF ShmInv, ShmTypeOK
  <2>7. ToldStored'
    <3> SUFFICES ASSUME NEW g \in 1..Len(v2), NEW k \in Contents(v2'[g])
                 PROVE  k[2] <= v8[k[1]]
      BY <2>1, <2>4 DEF ToldStored
    <3>1. CASE k = m
      BY <2>6, <3>1
    <3>2. CASE k \in Contents(v2[g])
      BY <3>2 DEF ShmInv, ToldStored
    <3> QED BY <2>4, <3>1, <3>2
  <2>8. ReadStored(servers)'
    BY <2>1 DEF ShmInv, ReadStored
  <2>9. OwnerStored'
    BY <1>1, <2>1 DEF ShmInv, OwnerStored, ShmPlaces
  <2> QED BY <2>5, <2>7, <2>8, <2>9 DEF ShmInv
<1>8. CASE Shm(servers, exclusive)!Exit(c)
  BY <1>8, ShmClose DEF Shm!Exit, Shm!shmVars, ShmPlaces
<1>9. CASE Shm(servers, exclusive)!SegmentationFault(c)
  BY <1>9, ShmClose DEF Shm!SegmentationFault, Shm!shmVars, ShmPlaces
<1>10. CASE Shm(servers, exclusive)!Killed(c)
  BY <1>10, ShmClose DEF Shm!Killed, Shm!shmVars, ShmPlaces
<1> QED BY <1>2, <1>3, <1>4, <1>5, <1>6, <1>7, <1>8, <1>9, <1>10 DEF Shm!ClientStep

LEMMA ShmNext ==
    ASSUME NEW servers, NEW exclusive, Shm(servers, exclusive)!ShmAssumption,
           ShmInv(servers),
           [Shm(servers, exclusive)!Next]_(Shm(servers, exclusive)!vars)
    PROVE  ShmInv(servers)'
<1>1. ASSUME NEW s \in servers, Shm(servers, exclusive)!Killed(s) PROVE ShmInv(servers)'
  BY <1>1, ShmClose DEF Shm!Killed, Shm!shmVars, ShmPlaces
<1>2. CASE UNCHANGED Shm(servers, exclusive)!vars
  <2>1. UNCHANGED <<pc, v1, v2, v3, v4, v5, v6, v7, v8>>
    BY <1>2 DEF Shm!vars, Shm!pipeVars
  <2>2. ShmTypeOK(servers)'
    BY <2>1 DEF ShmInv, ShmTypeOK
  <2>3. ToldStored' /\ ReadStored(servers)'
    BY <2>1 DEF ShmInv, ToldStored, ReadStored
  <2>4. OwnerStored'
    BY <2>1 DEF ShmInv, OwnerStored
  <2> QED BY <2>2, <2>3, <2>4 DEF ShmInv
<1> QED BY <1>1, <1>2, ShmServerNext, ShmClientNext DEF Shm!Next

LEMMA ShmSafe ==
    ASSUME NEW servers, NEW exclusive, Shm(servers, exclusive)!ShmAssumption,
           ShmInv(servers)
    PROVE  Shm(servers, exclusive)!ToldLettersThere
<1> SUFFICES ASSUME NEW s \in servers, v8[s][1] = v7
             PROVE  1..v8[s][2] \subseteq v5
  BY DEF Shm!ToldLettersThere
<1>1. CASE v8[s] = <<0, 0>>
  BY <1>1
<1>2. CASE v8[s] \in Messages /\ v8[s][2] <= v8[v8[s][1]]
  <2>1. v7 \in Clients /\ v8[s][2] \in Nat /\ v8[v7] \in Nat
    BY <1>2 DEF Messages, ShmInv, ShmTypeOK
  <2>2. 1..v8[v7] \subseteq v5
    BY <2>1 DEF ShmInv, OwnerStored
  <2> QED BY <1>2, <2>1, <2>2
<1> QED BY <1>1, <1>2 DEF ShmInv, ReadStored

\* With IPC_EXCL on both sides the segment is mapped only by the one that made it.
MappedByMaker ==
    /\ v6 # {} => v4 = TRUE
    /\ \A p, q \in v6 : p = q

SegmentInv == ShmInv(Servers) /\ MappedByMaker

\* A step of one process asks for the segment exclusively or leaves it as it is.
LEMMA SegmentSteps ==
    ASSUME Shm(Servers, TRUE)!Next
    PROVE  \/ \E p \in Servers \cup Clients : Shm(Servers, TRUE)!AttachShm(p, TRUE)
           \/ UNCHANGED <<v4, v6>>
<1>1. ASSUME NEW s \in Servers, Shm(Servers, TRUE)!ServerStep(s)
      PROVE  Shm(Servers, TRUE)!AttachShm(s, TRUE) \/ UNCHANGED <<v4, v6>>
  BY <1>1 DEF Shm!ServerStep, Shm!StartServer, Shm!MakeFifo, Shm!OpenForRead, Shm!Wakeup,
              Shm!WakeupByEndOfFile, Shm!Show, Shm!SegmentationFault, Shm!shmVars
<1>2. ASSUME NEW c \in Clients, Shm(Servers, TRUE)!ClientStep(c)
      PROVE  Shm(Servers, TRUE)!AttachShm(c, TRUE) \/ UNCHANGED <<v4, v6>>
  <2>1. CASE Shm(Servers, TRUE)!StartClient(c)
    BY <2>1 DEF Shm!StartClient
  <2>2. CASE ~Shm(Servers, TRUE)!StartClient(c)
    BY <1>2, <2>2
    DEF Shm!ClientStep, Shm!Zero, Shm!OpenForWrite, Shm!OpenForWriteFails, Shm!Store,
        Shm!Tell, Shm!Exit, Shm!SegmentationFault, Shm!Killed, Shm!shmVars
  <2> QED BY <2>1, <2>2
<1>3. ASSUME NEW s \in Servers, Shm(Servers, TRUE)!Killed(s)
      PROVE  UNCHANGED <<v4, v6>>
  BY <1>3 DEF Shm!Killed, Shm!shmVars
<1> QED BY <1>1, <1>2, <1>3 DEF Shm!Next

LEMMA SegmentInit == Shm(Servers, TRUE)!Init => SegmentInv
<1> SUFFICES ASSUME Shm(Servers, TRUE)!Init PROVE SegmentInv
  OBVIOUS
<1>1. ShmInv(Servers)
  BY LessonsAssumption, ShmInit
<1>2. MappedByMaker
  BY DEF Shm!Init, MappedByMaker
<1> QED BY <1>1, <1>2 DEF SegmentInv

LEMMA SegmentNext ==
    SegmentInv /\ [Shm(Servers, TRUE)!Next]_(Shm(Servers, TRUE)!vars) => SegmentInv'
<1> SUFFICES ASSUME SegmentInv, [Shm(Servers, TRUE)!Next]_(Shm(Servers, TRUE)!vars)
             PROVE  SegmentInv'
  OBVIOUS
<1>1. ShmInv(Servers)'
  BY LessonsAssumption, ShmNext DEF SegmentInv
<1>2. ASSUME NEW p \in Servers \cup Clients, Shm(Servers, TRUE)!AttachShm(p, TRUE)
      PROVE  MappedByMaker'
  BY <1>2 DEF Shm!AttachShm, Shm!ShmGet, SegmentInv, MappedByMaker
<1>3. CASE UNCHANGED <<v4, v6>>
  BY <1>1, <1>3 DEF SegmentInv, MappedByMaker
<1>4. CASE Shm(Servers, TRUE)!Next
  BY <1>1, <1>2, <1>3, <1>4, SegmentSteps DEF SegmentInv
<1>5. CASE UNCHANGED Shm(Servers, TRUE)!vars
  BY <1>3, <1>5 DEF Shm!vars
<1> QED BY <1>4, <1>5

LEMMA SegmentSafe ==
    SegmentInv => Shm(Servers, TRUE)!NeverShared /\ Shm(Servers, TRUE)!ToldLettersThere
<1>1. ASSUME ShmInv(Servers) PROVE Shm(Servers, TRUE)!ToldLettersThere
  BY <1>1, LessonsAssumption, ShmSafe
<1> QED BY <1>1 DEF SegmentInv, MappedByMaker, Shm!NeverShared

\* As committed, the segment is never in use by two processes, at the same time or
\* one after the other (Shm.hpp:99 and 110).
THEOREM SegmentNeverShared == Shm(Servers, TRUE)!Spec => []Shm(Servers, TRUE)!NeverShared
  BY SegmentInit, SegmentNext, SegmentSafe, PTL DEF Shm!Spec

\* Where the clients do not ask for the segment exclusively, servers find the letters
\* they are told of, unless another client has cleared the memory since
\* (4.shm/client.cc:16-21, 4.shm/server.cc:16-17).
THEOREM LettersFound ==
    ASSUME NEW servers, Shm(servers, FALSE)!ShmAssumption
    PROVE  Shm(servers, FALSE)!Spec => []Shm(servers, FALSE)!ToldLettersThere
<1>1. Shm(servers, FALSE)!Init => ShmInv(servers)
  BY ShmInit
<1>2. ShmInv(servers) /\ [Shm(servers, FALSE)!Next]_(Shm(servers, FALSE)!vars)
        => ShmInv(servers)'
  BY ShmNext
<1>3. ShmInv(servers) => Shm(servers, FALSE)!ToldLettersThere
  BY ShmSafe
<1> QED BY <1>1, <1>2, <1>3, PTL DEF Shm!Spec

-----------------------------------------------------------------------------
(* The servers and clients of 3.fifo                                       *)

FifoPlaces == {"off", "created", "opening", "open", "leaving", "closing", "done", "killed"}

FifoTypeOK ==
    /\ pc \in [Servers \cup Clients -> FifoPlaces]
    /\ v2 \in Seq(Seq(Messages))
    /\ v1 \in 0..Len(v2)
    /\ v3 \in [Servers \cup Clients -> 0..Len(v2)]
    /\ v4 \in [Clients -> Nat]
    /\ v5 \in [Servers -> Seq(Messages)]
    /\ \A s \in Servers : pc[s] = "opening" => v3[s] # 0

NoneKilled == \A s \in Servers : pc[s] # "killed"

\* Somebody wants a fifo to be read, or will: its messages, or those to come, are of
\* clients that were not late.
Needed(f) ==
    \/ \E m \in Contents(v2[f]) : m[1] \notin v6
    \/ \E c \in Clients : c \notin v6 /\ v3[c] = f /\ pc[c] = "open"
Served(f) == \E s \in Servers : v3[s] = f /\ pc[s] \in {"opening", "open"}
Attended == NoneKilled => \A f \in 1..Len(v2) : Needed(f) => Served(f)

\* A message of such a client has been read or waits in a fifo.
Kept ==
    NoneKilled =>
        \A c \in Clients : c \notin v6 => \A k \in 1..v4[c] :
            \/ \E s \in Servers : <<c, k>> \in Contents(v5[s])
            \/ \E f \in 1..Len(v2) : <<c, k>> \in Contents(v2[f])

FifoInv == FifoTypeOK /\ Attended /\ Kept /\ FifoL!StrandedOnlyByAnother

LEMMA FifoNames ==
    /\ Servers \cap Clients = {} /\ Capacity \in Nat
    /\ FifoL!Processes = Servers \cup Clients /\ FifoL!NoFifo = 0
  BY LessonsAssumption
  DEF FifoL!FifoAssumption, FifoL!NamedPipeAssumption, FifoL!Processes, FifoL!NoFifo

LEMMA FifoInit == FifoL!Init => FifoInv
<1> SUFFICES ASSUME FifoL!Init PROVE FifoInv
  OBVIOUS
<1>1. /\ pc = [p \in Servers \cup Clients |-> "off"]
      /\ v1 = 0 /\ v2 = <<>> /\ v3 = [p \in Servers \cup Clients |-> 0]
      /\ v4 = [c \in Clients |-> 0] /\ v5 = [s \in Servers |-> <<>>]
  BY FifoNames DEF FifoL!Init, FifoL!PipeInit
<1>2. v2 \in Seq(Seq(Messages)) /\ Len(v2) = 0 /\ <<>> \in Seq(Messages)
  BY <1>1, EmptySeq
<1>3. FifoTypeOK
  BY <1>1, <1>2 DEF FifoTypeOK, FifoPlaces
<1>4. Attended /\ Kept
  BY <1>1, <1>2 DEF Attended, Kept
<1>5. FifoL!StrandedOnlyByAnother
  BY <1>1 DEF FifoL!StrandedOnlyByAnother
<1> QED BY <1>3, <1>4, <1>5 DEF FifoInv

\* One process moves.
LEMMA FifoMoved ==
    ASSUME FifoTypeOK, NEW p \in Servers \cup Clients, NEW place \in FifoPlaces,
           FifoL!Goto(p, place)
    PROVE  /\ pc' \in [Servers \cup Clients -> FifoPlaces] /\ pc'[p] = place
           /\ \A q \in Servers \cup Clients : q # p => pc'[q] = pc[q]
  BY DEF FifoTypeOK, FifoL!Goto

\* What there is to keep is kept where messages stay in their fifo or are heard.
LEMMA KeptOn ==
    ASSUME FifoInv, NoneKilled' => NoneKilled, v4' = v4, v6 \subseteq v6',
           \A s \in Servers : Contents(v5[s]) \subseteq Contents(v5'[s]),
           \A f \in 1..Len(v2) : \A m \in Contents(v2[f]) :
               \/ m[1] \in v6
               \/ f \in 1..Len(v2') /\ m \in Contents(v2'[f])
               \/ \E s \in Servers : m \in Contents(v5'[s])
    PROVE  Kept'
<1> SUFFICES ASSUME NoneKilled, NEW c \in Clients, c \notin v6, NEW k \in 1..v4[c]
             PROVE  \/ \E s \in Servers : <<c, k>> \in Contents(v5'[s])
                    \/ \E f \in 1..Len(v2') : <<c, k>> \in Contents(v2'[f])
  BY DEF Kept
<1>1. PICK m \in Messages : m = <<c, k>> /\ m[1] = c
  <2>1. v4[c] \in Nat /\ k \in Nat
    BY DEF FifoInv, FifoTypeOK
  <2>2. <<c, k>> \in Messages /\ <<c, k>>[1] = c
    BY <2>1 DEF Messages
  <2> QED BY <2>2
<1>2. \/ \E s \in Servers : m \in Contents(v5[s])
      \/ \E f \in 1..Len(v2) : m \in Contents(v2[f])
  BY <1>1 DEF FifoInv, Kept
<1>3. \/ \E s \in Servers : m \in Contents(v5'[s])
      \/ \E f \in 1..Len(v2') : m \in Contents(v2'[f])
  BY <1>1, <1>2
<1> QED BY <1>1, <1>3

\* A fifo is served on unless the one that serves it turns away.
LEMMA AttendedOn ==
    ASSUME FifoInv, NoneKilled' => NoneKilled,
           \A f \in 1..Len(v2') : Needed(f)' => f \in 1..Len(v2) /\ Needed(f),
           \A s \in Servers : pc[s] \in {"opening", "open"} =>
               \/ pc'[s] \in {"opening", "open"} /\ v3'[s] = v3[s]
               \/ \A f \in 1..Len(v2') : v3[s] = f => ~Needed(f)'
    PROVE  Attended'
  BY DEF FifoInv, Attended, Served

LEMMA FifoStartServer ==
    ASSUME FifoInv, NEW s \in Servers, FifoL!StartServer(s) PROVE FifoInv'
<1>1. /\ FifoL!Goto(s, "created") /\ pc[s] = "off" /\ UNCHANGED <<v3, v4, v5, v6>>
      /\ \/ v1 = 0 /\ v2' = Append(v2, <<>>) /\ v1' = Len(v2')
         \/ UNCHANGED <<v1, v2>>
  BY FifoNames DEF FifoL!StartServer, FifoL!CreateNamedPipe, FifoL!history
<1>2. v2 \in Seq(Seq(Messages)) /\ Len(v2) \in Nat
  BY DEF FifoInv, FifoTypeOK
<1>3. /\ v2' \in Seq(Seq(Messages)) /\ v1' \in 0..Len(v2') /\ Len(v2') >= Len(v2)
      /\ Len(v2') \in Nat
      /\ \A f \in 1..Len(v2) : f \in 1..Len(v2') /\ v2'[f] = v2[f]
      /\ \A f \in 1..Len(v2') : f \notin 1..Len(v2) => f > Len(v2) /\ v2'[f] = <<>>
  <2>1. CASE UNCHANGED <<v1, v2>>
    BY <1>2, <2>1 DEF FifoInv, FifoTypeOK
  <2>2. CASE v2' = Append(v2, <<>>) /\ v1' = Len(v2')
    BY <1>2, <2>2, NewFifo
  <2> QED BY <1>1, <2>1, <2>2
<1>4. /\ pc' \in [Servers \cup Clients -> FifoPlaces] /\ pc'[s] = "created"
      /\ \A q \in Servers \cup Clients : q # s => pc'[q] = pc[q]
  BY <1>1, FifoMoved DEF FifoInv, FifoPlaces
<1>5. FifoTypeOK'
  <2>1. v3' \in [Servers \cup Clients -> 0..Len(v2')]
    BY <1>1, <1>2, <1>3 DEF FifoInv, FifoTypeOK
  <2> QED BY <1>1, <1>3, <1>4, <2>1 DEF FifoInv, FifoTypeOK
<1>6. NoneKilled' => NoneKilled
  BY <1>1, <1>4 DEF NoneKilled
<1>7. \A c \in Clients : pc'[c] = pc[c] /\ v3[c] \in 0..Len(v2)
  BY <1>4, FifoNames DEF FifoInv, FifoTypeOK
<1>8. \A f \in 1..Len(v2') : Needed(f)' => f \in 1..Len(v2) /\ Needed(f)
  <2> SUFFICES ASSUME NEW f \in 1..Len(v2'), Needed(f)'
               PROVE  f \in 1..Len(v2) /\ Needed(f)
    OBVIOUS
  <2>1. \/ \E m \in Contents(v2'[f]) : m[1] \notin v6
        \/ \E c \in Clients : c \notin v6 /\ v3[c] = f /\ pc[c] = "open"
    BY <1>1, <1>7 DEF Needed
  <2>2. f \in 1..Len(v2)
    <3>1. f \notin 1..Len(v2) => f > Len(v2) /\ Contents(v2'[f]) = {}
      BY <1>3, ContentsEmpty
    <3> QED BY <1>2, <1>7, <2>1, <3>1
  <2> QED BY <1>3, <2>1, <2>2 DEF Needed
<1>9. Attended'
  BY <1>1, <1>4, <1>6, <1>8, AttendedOn
<1>10. Kept'
  BY <1>1, <1>3, <1>6, KeptOn
<1>11. FifoL!StrandedOnlyByAnother'
  BY <1>1, <1>4 DEF FifoInv, FifoTypeOK, FifoL!StrandedOnlyByAnother
<1> QED BY <1>5, <1>9, <1>10, <1>11 DEF FifoInv

\* A server that has not opened the fifo yet, or has turned away, moves on.
LEMMA FifoAside ==
    ASSUME FifoInv, NEW p \in Servers \cup Clients, NEW place \in FifoPlaces \ {"opening", "open"},
           FifoL!Goto(p, place), pc[p] \notin {"opening", "open", "killed"},
           UNCHANGED <<v2, v3, v4, v5, v6>>, v1' = v1 \/ (p \in Servers /\ place = "closing" /\ v1' = 0)
    PROVE  FifoTypeOK' /\ Attended' /\ Kept'
<1>1. /\ pc' \in [Servers \cup Clients -> FifoPlaces] /\ pc'[p] = place
      /\ \A q \in Servers \cup Clients : q # p => pc'[q] = pc[q]
  BY FifoMoved DEF FifoInv
<1>2. FifoTypeOK'
  BY <1>1 DEF FifoInv, FifoTypeOK
<1>3. NoneKilled' => NoneKilled
  BY <1>1 DEF NoneKilled
<1>4. \A f \in 1..Len(v2) : Needed(f)' => Needed(f)
  BY <1>1 DEF Needed
<1>5. Attended'
  BY <1>1, <1>3, <1>4, AttendedOn
<1>6. Kept'
  BY <1>3, KeptOn
<1> QED BY <1>2, <1>5, <1>6

LEMMA FifoLeave ==
    ASSUME FifoInv, NEW s \in Servers,
           FifoL!OpenForReadFails(s) \/ FifoL!Unlink(s)
    PROVE  FifoInv'
<1>1. /\ UNCHANGED <<v2, v3, v4, v5, v6>>
      /\ \/ pc[s] = "created" /\ FifoL!Goto(s, "leaving") /\ v1' = v1
         \/ pc[s] = "leaving" /\ FifoL!Goto(s, "closing") /\ v1' = 0
  BY FifoNames DEF FifoL!OpenForReadFails, FifoL!Unlink, FifoL!RemoveName, FifoL!history
<1>2. FifoTypeOK' /\ Attended' /\ Kept'
  BY <1>1, FifoAside DEF FifoPlaces
<1>3. PICK place \in {"leaving", "closing"} : FifoL!Goto(s, place) /\ (v1' = v1 \/ place = "closing")
  BY <1>1
<1>4. pc'[s] = place /\ \A q \in Servers \cup Clients : q # s => pc'[q] = pc[q]
  BY <1>3, FifoMoved DEF FifoInv, FifoPlaces
<1>5. FifoL!StrandedOnlyByAnother'
  <2> SUFFICES ASSUME NEW u \in Servers, pc'[u] = "opening", v3[u] # v1'
               PROVE  \E other \in Servers \ {u} : pc'[other] \in {"closing", "done"}
    BY <1>1 DEF FifoL!StrandedOnlyByAnother
  <2>1. u # s /\ pc[u] = "opening"
    BY <1>4
  <2>2. CASE place = "closing"
    BY <1>4, <2>1, <2>2
  <2>3. CASE v1' = v1
    <3>1. PICK other \in Servers \ {u} : pc[other] \in {"closing", "done"}
      BY <2>1, <2>3 DEF FifoInv, FifoL!StrandedOnlyByAnother
    <3>2. other # s
      BY <1>1, <3>1
    <3> QED BY <1>4, <3>1, <3>2
  <2> QED BY <1>3, <2>2, <2>3
<1> QED BY <1>2, <1>5 DEF FifoInv

\* A name is found or not; a process may be killed or go on: whatever moves another
\* process than a server that leaves keeps that server's trace.
LEMMA StrandedOn ==
    ASSUME FifoInv, v1' = v1,
           \A s \in Servers : pc'[s] = "opening" => (pc[s] = "opening" /\ v3'[s] = v3[s]) \/ v3'[s] = v1,
           \A s \in Servers : pc[s] \in {"closing", "done"} => pc'[s] \in {"closing", "done"}
    PROVE  FifoL!StrandedOnlyByAnother'
  BY DEF FifoInv, FifoL!StrandedOnlyByAnother

\* Opening: a client is late exactly if all servers of its fifo have turned away.
LEMMA FifoOpen ==
    ASSUME FifoInv, NEW p \in Servers \cup Clients, FifoL!OpenNamedPipe(p),
           pc[p] \in {"off", "created"}, UNCHANGED <<v4, v5>>
    PROVE  /\ FifoTypeOK' /\ FifoL!StrandedOnlyByAnother' /\ (NoneKilled' => NoneKilled)
           /\ UNCHANGED <<v1, v2>> /\ v1 # 0
           /\ v3'[p] = v1 /\ \A q \in Servers \cup Clients : q # p => v3'[q] = v3[q]
           /\ pc'[p] = IF FifoL!Partners(p, v1) = {} THEN "opening" ELSE "open"
           /\ \A q \in Servers \cup Clients : q # p =>
                pc'[q] = IF q \in FifoL!Partners(p, v1) /\ pc[q] = "opening" THEN "open" ELSE pc[q]
<1>1. /\ v1 # 0 /\ UNCHANGED <<v1, v2>> /\ v3' = [v3 EXCEPT ![p] = v1]
      /\ pc' = [q \in Servers \cup Clients |->
                  CASE q = p -> IF FifoL!Partners(p, v1) = {} THEN "opening" ELSE "open"
                    [] q \in FifoL!Partners(p, v1) /\ pc[q] = "opening" -> "open"
                    [] OTHER -> pc[q]]
  BY FifoNames DEF FifoL!OpenNamedPipe
<1>2. v3'[p] = v1 /\ \A q \in Servers \cup Clients : q # p => v3'[q] = v3[q]
  BY <1>1 DEF FifoInv, FifoTypeOK
<1>3. /\ pc'[p] = IF FifoL!Partners(p, v1) = {} THEN "opening" ELSE "open"
      /\ \A q \in Servers \cup Clients : q # p =>
           pc'[q] = IF q \in FifoL!Partners(p, v1) /\ pc[q] = "opening" THEN "open" ELSE pc[q]
  BY <1>1
<1>4. pc' \in [Servers \cup Clients -> FifoPlaces]
  BY <1>1, <1>3 DEF FifoInv, FifoTypeOK, FifoPlaces
<1>5. v3' \in [Servers \cup Clients -> 0..Len(v2)]
  BY <1>1 DEF FifoInv, FifoTypeOK
<1>6. \A s \in Servers : pc'[s] = "opening" => (pc[s] = "opening" /\ v3'[s] = v3[s]) \/ v3'[s] = v1
  BY <1>2, <1>3
<1>7. FifoTypeOK'
  BY <1>1, <1>4, <1>5, <1>6 DEF FifoInv, FifoTypeOK
<1>8. \A s \in Servers : pc[s] \in {"closing", "done"} => pc'[s] \in {"closing", "done"}
  BY <1>3
<1>9. FifoL!StrandedOnlyByAnother'
  BY <1>1, <1>6, <1>8, StrandedOn
<1>10. NoneKilled' => NoneKilled
  BY <1>3 DEF NoneKilled
<1> QED BY <1>1, <1>2, <1>3, <1>7, <1>9, <1>10

LEMMA FifoOpenForRead ==
    ASSUME FifoInv, NEW s \in Servers, FifoL!OpenForRead(s) PROVE FifoInv'
<1>1. FifoL!OpenNamedPipe(s) /\ pc[s] = "created" /\ UNCHANGED <<v4, v5, v6>>
  BY DEF FifoL!OpenForRead, FifoL!history
<1>2. /\ FifoTypeOK' /\ FifoL!StrandedOnlyByAnother' /\ (NoneKilled' => NoneKilled)
      /\ UNCHANGED <<v1, v2>> /\ v1 # 0
      /\ v3'[s] = v1 /\ \A q \in Servers \cup Clients : q # s => v3'[q] = v3[q]
      /\ pc'[s] \in {"opening", "open"}
      /\ \A q \in Servers \cup Clients : q # s =>
           pc'[q] = IF q \in FifoL!Partners(s, v1) /\ pc[q] = "opening" THEN "open" ELSE pc[q]
  BY <1>1, FifoOpen
<1>3. \A q \in FifoL!Partners(s, v1) : q \in Clients /\ v3[q] = v1
  BY DEF FifoL!Partners, FifoL!Writers
<1>4. Attended'
  <2> SUFFICES ASSUME NoneKilled, NEW f \in 1..Len(v2), Needed(f)' PROVE Served(f)'
    BY <1>2 DEF Attended
  <2>1. CASE f = v1
    BY <1>2, <2>1 DEF Served
  <2>2. CASE f # v1
    <3>1. Needed(f)
      BY <1>1, <1>2, <1>3, <2>2, FifoNames DEF Needed
    <3>2. PICK u \in Servers : v3[u] = f /\ pc[u] \in {"opening", "open"}
      BY <3>1 DEF FifoInv, Attended, Served
    <3>3. u # s
      BY <1>1, <3>2
    <3> QED BY <1>2, <3>2, <3>3 DEF Served
  <2> QED BY <2>1, <2>2
<1>5. Kept'
  BY <1>1, <1>2, KeptOn
<1> QED BY <1>2, <1>4, <1>5 DEF FifoInv

LEMMA FifoOpenForWrite ==
    ASSUME FifoInv, NEW c \in Clients, FifoL!OpenForWrite(c) PROVE FifoInv'
<1>1. /\ FifoL!OpenNamedPipe(c) /\ pc[c] = "off" /\ UNCHANGED <<v4, v5>>
      /\ v6' = IF FifoL!Readers(v1) # {} /\ \A s \in FifoL!Readers(v1) : pc[s] \notin {"opening", "open"}
                 THEN v6 \cup {c} ELSE v6
  BY DEF FifoL!OpenForWrite
<1>2. /\ FifoTypeOK' /\ FifoL!StrandedOnlyByAnother' /\ (NoneKilled' => NoneKilled)
      /\ UNCHANGED <<v1, v2>> /\ v1 # 0
      /\ v3'[c] = v1 /\ \A q \in Servers \cup Clients : q # c => v3'[q] = v3[q]
      /\ pc'[c] = IF FifoL!Partners(c, v1) = {} THEN "opening" ELSE "open"
      /\ \A q \in Servers \cup Clients : q # c =>
           pc'[q] = IF q \in FifoL!Partners(c, v1) /\ pc[q] = "opening" THEN "open" ELSE pc[q]
  BY <1>1, FifoOpen
<1>3. FifoL!Partners(c, v1) = {s \in Servers : v3[s] = v1} /\ FifoL!Readers(v1) = {s \in Servers : v3[s] = v1}
  BY FifoNames DEF FifoL!Partners, FifoL!Readers
<1>4. /\ \A s \in Servers : s # c
      /\ \A d \in Clients : d # c => pc'[d] = pc[d] /\ v3'[d] = v3[d]
      /\ \A s \in Servers : v3'[s] = v3[s] /\ (pc[s] \in {"opening", "open"} => pc'[s] \in {"opening", "open"})
  BY <1>2, <1>3, FifoNames
<1>5. Attended'
  <2> SUFFICES ASSUME NoneKilled, NEW f \in 1..Len(v2), Needed(f)' PROVE Served(f)
    BY <1>2, <1>4 DEF Attended, Served
  <2>1. CASE Needed(f)
    BY <2>1 DEF FifoInv, Attended
  <2>2. CASE c \notin v6' /\ f = v1 /\ pc'[c] = "open"
    BY <1>1, <1>2, <1>3, <2>2 DEF Served
  <2>3. Needed(f) \/ (c \notin v6' /\ f = v1 /\ pc'[c] = "open")
    BY <1>1, <1>2, <1>4 DEF Needed
  <2> QED BY <2>1, <2>2, <2>3
<1>6. v6 \subseteq v6'
  BY <1>1
<1>7. Kept'
  BY <1>1, <1>2, <1>6, KeptOn
<1> QED BY <1>2, <1>5, <1>7 DEF FifoInv

LEMMA FifoOpenForWriteFails ==
    ASSUME FifoInv, NEW c \in Clients, FifoL!OpenForWriteFails(c) PROVE FifoInv'
<1>1. FifoL!Goto(c, "done") /\ pc[c] = "off" /\ UNCHANGED <<v1, v2, v3, v4, v5, v6>>
  BY DEF FifoL!OpenForWriteFails, FifoL!history
<1>2. FifoTypeOK' /\ Attended' /\ Kept'
  BY <1>1, FifoAside DEF FifoPlaces
<1>3. \A s \in Servers : pc'[s] = pc[s]
  BY <1>1, FifoMoved, FifoNames DEF FifoInv, FifoPlaces
<1>4. FifoL!StrandedOnlyByAnother'
  BY <1>1, <1>3, StrandedOn
<1> QED BY <1>2, <1>4 DEF FifoInv

LEMMA FifoHear ==
    ASSUME FifoInv, NEW s \in Servers, FifoL!Hear(s) PROVE FifoInv'
<1>1. /\ pc[s] = "open" /\ UNCHANGED <<pc, v1, v3, v4, v6>>
      /\ \E n \in 1..Capacity : n \in 1..Len(v2[v3[s]]) /\ v3[s] # 0
           /\ v2' = [v2 EXCEPT ![v3[s]] = SubSeq(v2[v3[s]], n + 1, Len(v2[v3[s]]))]
           /\ v5' = [v5 EXCEPT ![s] = v5[s] \o SubSeq(v2[v3[s]], 1, n)]
  BY FifoNames DEF FifoL!Hear, FifoL!ReadNamedPipe
<1>2. PICK n : /\ n \in 1..Len(v2[v3[s]]) /\ v3[s] # 0
               /\ v2' = [v2 EXCEPT ![v3[s]] = SubSeq(v2[v3[s]], n + 1, Len(v2[v3[s]]))]
               /\ v5' = [v5 EXCEPT ![s] = v5[s] \o SubSeq(v2[v3[s]], 1, n)]
  BY <1>1
<1>3. v2 \in Seq(Seq(Messages)) /\ v3[s] \in 1..Len(v2) /\ v5[s] \in Seq(Messages)
  BY <1>2 DEF FifoInv, FifoTypeOK
<1>4. PICK f \in 1..Len(v2) : f = v3[s]
  BY <1>3
<1>5. v2[f] \in Seq(Messages)
  BY <1>3, ElementOfSeq
<1>6. PICK read \in Seq(Messages), rest \in Seq(Messages) :
         /\ read = SubSeq(v2[f], 1, n) /\ rest = SubSeq(v2[f], n + 1, Len(v2[f]))
         /\ Contents(v2[f]) = Contents(read) \cup Contents(rest)
  <2>1. n \in 1..Len(v2[f])
    BY <1>2, <1>4
  <2>2. /\ SubSeq(v2[f], 1, n) \in Seq(Messages) /\ SubSeq(v2[f], n + 1, Len(v2[f])) \in Seq(Messages)
        /\ Contents(v2[f]) =
             Contents(SubSeq(v2[f], 1, n)) \cup Contents(SubSeq(v2[f], n + 1, Len(v2[f])))
    BY <1>5, <2>1, ContentsCut
  <2> QED BY <2>2
<1>7. v2' = [v2 EXCEPT ![f] = rest] /\ v5' = [v5 EXCEPT ![s] = v5[s] \o read]
  BY <1>2, <1>4, <1>6
<1>8. /\ v2' \in Seq(Seq(Messages)) /\ Len(v2') = Len(v2) /\ v2'[f] = rest
      /\ \A g \in 1..Len(v2) : g # f => v2'[g] = v2[g]
  BY <1>3, <1>7, OneFifo
<1>9. v5[s] \o read \in Seq(Messages) /\ Contents(v5[s] \o read) = Contents(v5[s]) \cup Contents(read)
  BY <1>3, ContentsConcat
<1>10. /\ v5' \in [Servers -> Seq(Messages)] /\ v5'[s] = v5[s] \o read
       /\ \A u \in Servers : u # s => v5'[u] = v5[u]
  BY <1>7, <1>9 DEF FifoInv, FifoTypeOK
<1>11. FifoTypeOK'
  BY <1>1, <1>8, <1>10 DEF FifoInv, FifoTypeOK
<1>12. NoneKilled' => NoneKilled
  BY <1>1 DEF NoneKilled
<1>13. \A g \in 1..Len(v2') : Needed(g)' => g \in 1..Len(v2) /\ Needed(g)
  <2>1. \A g \in 1..Len(v2) : Contents(v2'[g]) \subseteq Contents(v2[g])
    BY <1>6, <1>8
  <2> QED BY <1>1, <1>8, <2>1 DEF Needed
<1>14. Attended'
  BY <1>1, <1>12, <1>13, AttendedOn
<1>15. \A u \in Servers : Contents(v5[u]) \subseteq Contents(v5'[u])
  BY <1>9, <1>10
<1>16. \A g \in 1..Len(v2) : \A m \in Contents(v2[g]) :
          (g \in 1..Len(v2') /\ m \in Contents(v2'[g])) \/ \E u \in Servers : m \in Contents(v5'[u])
  <2> SUFFICES ASSUME NEW g \in 1..Len(v2), NEW m \in Contents(v2[g])
               PROVE  m \in Contents(v2'[g]) \/ m \in Contents(v5'[s])
    BY <1>8
  <2>1. CASE g = f
    BY <1>6, <1>8, <1>9, <1>10, <2>1
  <2>2. CASE g # f
    BY <1>8, <2>2
  <2> QED BY <2>1, <2>2
<1>17. Kept'
  BY <1>1, <1>12, <1>15, <1>16, KeptOn
<1>18. FifoL!StrandedOnlyByAnother'
  BY <1>1, StrandedOn
<1> QED BY <1>11, <1>14, <1>17, <1>18 DEF FifoInv

\* A server that reads the end of file leaves nothing in the fifo and nobody at it.
LEMMA FifoHearEnd ==
    ASSUME FifoInv, NEW s \in Servers, FifoL!HearEnd(s) PROVE FifoInv'
<1>1. /\ pc[s] = "open" /\ FifoL!Goto(s, "leaving") /\ UNCHANGED <<v1, v2, v3, v4, v5, v6>>
      /\ v3[s] # 0 => v2[v3[s]] = <<>> /\ \A c \in Clients : v3[c] # v3[s]
  BY FifoNames DEF FifoL!HearEnd, FifoL!ReadEndOfFile, FifoL!Writers, FifoL!history
<1>2. /\ pc' \in [Servers \cup Clients -> FifoPlaces] /\ pc'[s] = "leaving"
      /\ \A q \in Servers \cup Clients : q # s => pc'[q] = pc[q]
  BY <1>1, FifoMoved DEF FifoInv, FifoPlaces
<1>3. FifoTypeOK'
  BY <1>1, <1>2 DEF FifoInv, FifoTypeOK
<1>4. NoneKilled' => NoneKilled
  BY <1>1, <1>2 DEF NoneKilled
<1>5. \A f \in 1..Len(v2') : Needed(f)' => f \in 1..Len(v2) /\ Needed(f)
  BY <1>1, <1>2, FifoNames DEF Needed
<1>6. \A f \in 1..Len(v2') : v3[s] = f => ~Needed(f)'
  BY <1>1, ContentsEmpty DEF Needed
<1>7. Attended'
  BY <1>1, <1>2, <1>4, <1>5, <1>6, AttendedOn
<1>8. Kept'
  BY <1>1, <1>4, KeptOn
<1>9. FifoL!StrandedOnlyByAnother'
  BY <1>1, <1>2, StrandedOn
<1> QED BY <1>3, <1>7, <1>8, <1>9 DEF FifoInv

\* The last one to close a fifo throws away what is in it: nothing that is needed,
\* as nobody serves it any more, unless a server is killed.
LEMMA FifoClose ==
    ASSUME FifoInv, NEW p \in Servers \cup Clients, NEW place \in {"done", "killed"},
           FifoL!Goto(p, place), FifoL!Close(p), UNCHANGED <<v1, v4, v5, v6>>,
           \/ p \in Servers /\ pc[p] = "closing" /\ place = "done"
           \/ pc[p] \in {"created", "opening", "open"} /\ place = "killed"
    PROVE  FifoInv'
<1>1. /\ v3' = [v3 EXCEPT ![p] = 0]
      /\ \/ v2' = v2
         \/ /\ v3[p] # 0 /\ v2' = [v2 EXCEPT ![v3[p]] = <<>>]
            /\ \A q \in Servers \cup Clients : v3[q] = v3[p] => q = p
  BY FifoNames DEF FifoL!Close, FifoL!Readers, FifoL!Writers
<1>2. /\ pc' \in [Servers \cup Clients -> FifoPlaces] /\ pc'[p] = place
      /\ \A q \in Servers \cup Clients : q # p => pc'[q] = pc[q]
  BY FifoMoved DEF FifoInv, FifoPlaces
<1>3. v2 \in Seq(Seq(Messages)) /\ v3[p] \in 0..Len(v2) /\ Len(v2) \in Nat
  BY DEF FifoInv, FifoTypeOK
<1>4. /\ v2' \in Seq(Seq(Messages)) /\ Len(v2') = Len(v2)
      /\ \A f \in 1..Len(v2) : \/ v2'[f] = v2[f]
                               \/ /\ v2'[f] = <<>> /\ f = v3[p]
                                  /\ \A q \in Servers \cup Clients : v3[q] = v3[p] => q = p
  <2>1. CASE v2' = v2
    BY <1>3, <2>1
  <2>2. CASE /\ v3[p] # 0 /\ v2' = [v2 EXCEPT ![v3[p]] = <<>>]
             /\ \A q \in Servers \cup Clients : v3[q] = v3[p] => q = p
    <3>1. v3[p] \in 1..Len(v2) /\ <<>> \in Seq(Messages)
      BY <1>3, <2>2, EmptySeq
    <3> QED BY <1>3, <2>2, <3>1, OneFifo
  <2> QED BY <1>1, <2>1, <2>2
<1>5. v3' \in [Servers \cup Clients -> 0..Len(v2)] /\ v3'[p] = 0
      /\ \A q \in Servers \cup Clients : q # p => v3'[q] = v3[q]
  BY <1>1, <1>3 DEF FifoInv, FifoTypeOK
<1>6. FifoTypeOK'
  BY <1>2, <1>4, <1>5 DEF FifoInv, FifoTypeOK
<1>7. FifoL!StrandedOnlyByAnother'
  BY <1>2, <1>5, StrandedOn
<1>8. CASE p \in Servers /\ place = "killed"
  BY <1>2, <1>6, <1>7, <1>8 DEF FifoInv, Attended, Kept, NoneKilled
<1>9. CASE p \in Clients \/ pc[p] = "closing"
  <2>1. NoneKilled' => NoneKilled
    BY <1>2, <1>9, FifoNames DEF NoneKilled
  <2>2. \A f \in 1..Len(v2) : Contents(v2'[f]) \subseteq Contents(v2[f])
    BY <1>4, ContentsEmpty
  <2>3. \A f \in 1..Len(v2') : Needed(f)' => f \in 1..Len(v2) /\ Needed(f)
    <3>1. \A c \in Clients : pc'[c] = "open" => c # p /\ pc[c] = "open" /\ v3'[c] = v3[c]
      BY <1>2, <1>5
    <3> QED BY <1>4, <2>2, <3>1 DEF Needed
  <2>4. \A s \in Servers : pc[s] \in {"opening", "open"} => s # p
    BY <1>9, FifoNames
  <2>5. Attended'
    BY <1>2, <1>5, <2>1, <2>3, <2>4, AttendedOn
  <2>6. NoneKilled => \A f \in 1..Len(v2) : \A m \in Contents(v2[f]) :
                         m[1] \in v6 \/ (f \in 1..Len(v2') /\ m \in Contents(v2'[f]))
    <3> SUFFICES ASSUME NoneKilled, NEW f \in 1..Len(v2), NEW m \in Contents(v2[f]),
                        m[1] \notin v6
                 PROVE  v2'[f] = v2[f]
      BY <1>4
    <3>1. PICK s \in Servers : v3[s] = f /\ pc[s] \in {"opening", "open"}
      BY DEF FifoInv, Attended, Needed, Served
    <3> QED BY <1>4, <2>4, <3>1
  <2>7. Kept'
    <3>1. CASE NoneKilled
      BY <2>1, <2>6, <3>1, KeptOn
    <3>2. CASE ~NoneKilled
      BY <2>1, <3>2 DEF Kept
    <3> QED BY <3>1, <3>2
  <2> QED BY <1>6, <1>7, <2>5, <2>7 DEF FifoInv
<1> QED BY <1>8, <1>9

LEMMA FifoQuit ==
    ASSUME FifoInv, NEW s \in Servers, FifoL!Quit(s) PROVE FifoInv'
  BY FifoClose DEF FifoL!Quit, FifoL!history

LEMMA FifoKilled ==
    ASSUME FifoInv, NEW p \in Servers \cup Clients, FifoL!Killed(p) PROVE FifoInv'
  BY FifoClose DEF FifoL!Killed, FifoL!history

LEMMA FifoSay ==
    ASSUME FifoInv, NEW c \in Clients, FifoL!Say(c) PROVE FifoInv'
<1>1. /\ pc[c] = "open" /\ UNCHANGED <<pc, v1, v3, v5, v6>> /\ v3[c] # 0
      /\ v2' = [v2 EXCEPT ![v3[c]] = Append(v2[v3[c]], <<c, v4[c] + 1>>)]
      /\ v4' = [v4 EXCEPT ![c] = v4[c] + 1]
  BY FifoNames DEF FifoL!Say, FifoL!WriteNamedPipe
<1>2. v2 \in Seq(Seq(Messages)) /\ v3[c] \in 1..Len(v2) /\ v4[c] \in Nat
  BY <1>1 DEF FifoInv, FifoTypeOK
<1>3. PICK f \in 1..Len(v2) : f = v3[c]
  BY <1>2
<1>4. PICK new \in Messages : new = <<c, v4[c] + 1>> /\ new[1] = c
  <2>1. <<c, v4[c] + 1>> \in Messages /\ <<c, v4[c] + 1>>[1] = c
    BY <1>2 DEF Messages
  <2> QED BY <2>1
<1>5. v2[f] \in Seq(Messages)
  BY <1>2, ElementOfSeq
<1>6. PICK more \in Seq(Messages) :
         more = Append(v2[f], new) /\ Contents(more) = Contents(v2[f]) \cup {new}
  BY <1>5, ContentsAppend
<1>7. /\ v2' \in Seq(Seq(Messages)) /\ Len(v2') = Len(v2) /\ v2'[f] = more
      /\ \A g \in 1..Len(v2) : g # f => v2'[g] = v2[g]
  BY <1>1, <1>2, <1>3, <1>4, <1>6, OneFifo
<1>8. /\ v4' \in [Clients -> Nat] /\ v4'[c] = v4[c] + 1
      /\ \A d \in Clients : d # c => v4'[d] = v4[d]
  BY <1>1, <1>2 DEF FifoInv, FifoTypeOK
<1>9. FifoTypeOK'
  BY <1>1, <1>7, <1>8 DEF FifoInv, FifoTypeOK
<1>10. NoneKilled' <=> NoneKilled
  BY <1>1 DEF NoneKilled
<1>11. \A g \in 1..Len(v2') : Needed(g)' => g \in 1..Len(v2) /\ Needed(g)
  <2> SUFFICES ASSUME NEW g \in 1..Len(v2), Needed(g)' PROVE Needed(g)
    BY <1>7
  <2>1. CASE \E d \in Clients : d \notin v6 /\ v3[d] = g /\ pc[d] = "open"
    BY <2>1 DEF Needed
  <2>2. CASE \E m \in Contents(v2'[g]) : m[1] \notin v6
    <3>1. PICK m \in Contents(v2'[g]) : m[1] \notin v6
      BY <2>2
    <3>2. CASE m \in Contents(v2[g])
      BY <3>1, <3>2 DEF Needed
    <3>3. CASE g = f /\ m = new
      BY <1>1, <1>3, <1>4, <3>1, <3>3 DEF Needed
    <3>4. g # f => v2'[g] = v2[g]
      BY <1>7
    <3> QED BY <1>6, <1>7, <3>1, <3>2, <3>3, <3>4
  <2> QED BY <1>1, <2>1, <2>2 DEF Needed
<1>12. Attended'
  BY <1>1, <1>10, <1>11, AttendedOn
<1>13. Kept'
  <2> SUFFICES ASSUME NoneKilled, NEW d \in Clients, d \notin v6, NEW k \in 1..v4'[d]
               PROVE  \/ \E s \in Servers : <<d, k>> \in Contents(v5[s])
                      \/ \E g \in 1..Len(v2') : <<d, k>> \in Contents(v2'[g])
    BY <1>1, <1>10 DEF Kept
  <2>1. CASE d = c /\ k = v4[c] + 1
    <3>1. <<d, k>> = new
      BY <1>4, <2>1
    <3> QED BY <1>6, <1>7, <3>1
  <2>2. CASE k \in 1..v4[d]
    <3>1. \/ \E s \in Servers : <<d, k>> \in Contents(v5[s])
          \/ \E g \in 1..Len(v2) : <<d, k>> \in Contents(v2[g])
      BY <2>2 DEF FifoInv, Kept
    <3>2. \A g \in 1..Len(v2) : Contents(v2[g]) \subseteq Contents(v2'[g])
      BY <1>6, <1>7
    <3> QED BY <1>7, <3>1, <3>2
  <2>3. k \in 1..v4[d] \/ (d = c /\ k = v4[c] + 1)
    BY <1>2, <1>8
  <2> QED BY <2>1, <2>2, <2>3
<1>14. FifoL!StrandedOnlyByAnother'
  BY <1>1, StrandedOn
<1> QED BY <1>9, <1>12, <1>13, <1>14 DEF FifoInv

LEMMA FifoNext == FifoInv /\ [FifoL!Next]_(FifoL!vars) => FifoInv'
<1> SUFFICES ASSUME FifoInv, [FifoL!Next]_(FifoL!vars) PROVE FifoInv'
  OBVIOUS
<1>1. CASE UNCHANGED FifoL!vars
  <2>1. UNCHANGED <<pc, v1, v2, v3, v4, v5, v6>>
    BY <1>1 DEF FifoL!vars, FifoL!pipeVars
  <2>2. FifoTypeOK'
    BY <2>1 DEF FifoInv, FifoTypeOK
  <2>3. Attended'
    BY <2>1 DEF FifoInv, Attended, NoneKilled, Needed, Served
  <2>4. Kept'
    BY <2>1 DEF FifoInv, Kept, NoneKilled
  <2>5. FifoL!StrandedOnlyByAnother'
    BY <2>1, StrandedOn
  <2> QED BY <2>2, <2>3, <2>4, <2>5 DEF FifoInv
<1>2. ASSUME NEW s \in Servers, FifoL!ServerStep(s) PROVE FifoInv'
  BY <1>2, FifoStartServer, FifoOpenForRead, FifoLeave, FifoHear, FifoHearEnd, FifoQuit
  DEF FifoL!ServerStep
<1>3. ASSUME NEW c \in Clients, FifoL!ClientStep(c) PROVE FifoInv'
  BY <1>3, FifoOpenForWrite, FifoOpenForWriteFails, FifoSay DEF FifoL!ClientStep
<1>4. ASSUME NEW p \in Servers \cup Clients, FifoL!Killed(p) PROVE FifoInv'
  BY <1>4, FifoKilled
<1> QED BY <1>1, <1>2, <1>3, <1>4, FifoNames DEF FifoL!Next

LEMMA FifoSafe == FifoInv => FifoL!LostOnlyLate /\ FifoL!StrandedOnlyByAnother
<1> SUFFICES ASSUME FifoInv, NoneKilled, NEW c \in Clients, c \notin v6, NEW k \in 1..v4[c]
             PROVE  FifoL!Heard(<<c, k>>) \/ FifoL!InFifo(<<c, k>>)
  BY DEF FifoInv, NoneKilled, FifoL!LostOnlyLate
<1>1. \/ \E s \in Servers : <<c, k>> \in Contents(v5[s])
      \/ \E f \in 1..Len(v2) : <<c, k>> \in Contents(v2[f])
  BY DEF FifoInv, Kept
<1>2. CASE \E s \in Servers : <<c, k>> \in Contents(v5[s])
  <2>1. PICK s \in Servers : <<c, k>> \in Contents(v5[s])
    BY <1>2
  <2>2. v5[s] \in Seq(Messages)
    BY DEF FifoInv, FifoTypeOK
  <2>3. DOMAIN v5[s] = 1..Len(v5[s])
    BY <2>2
  <2> QED BY <2>1, <2>3 DEF FifoL!Heard, Contents
<1>3. CASE \E f \in 1..Len(v2) : <<c, k>> \in Contents(v2[f])
  <2>1. PICK f \in 1..Len(v2) : <<c, k>> \in Contents(v2[f])
    BY <1>3
  <2>2. v2 \in Seq(Seq(Messages))
    BY DEF FifoInv, FifoTypeOK
  <2>3. v2[f] \in Seq(Messages)
    BY <2>2, ElementOfSeq
  <2>4. DOMAIN v2 = 1..Len(v2) /\ DOMAIN v2[f] = 1..Len(v2[f])
    BY <2>2, <2>3
  <2> QED BY <2>1, <2>4 DEF FifoL!InFifo, Contents
<1> QED BY <1>1, <1>2, <1>3

-----------------------------------------------------------------------------
(* All programs that pass messages on                                      *)

MessagesInv ==
    /\ lesson = "fifo" => FifoInv
    /\ lesson = "pipe" => PipeInv
    /\ lesson = "segment" => SegmentInv
    /\ lesson = "shared" => ShmInv(OneServer)
    /\ lesson = "chat" => ChatInv
    /\ lesson = "polling" => Polling!AllEchoed

LEMMA MessagesInit == Init => MessagesInv
<1>1. Shm(OneServer, FALSE)!Init => ShmInv(OneServer)
  BY LessonsAssumption, ShmInit
<1> QED
  BY <1>1, FifoInit, PipeInit, SegmentInit, ChatInit, PollingInit DEF Init, MessagesInv

LEMMA MessagesNext == MessagesInv /\ [Next]_vars => MessagesInv'
<1> SUFFICES ASSUME MessagesInv, [Next]_vars PROVE MessagesInv'
  OBVIOUS
<1>1. lesson' = lesson
  BY DEF Next, vars
<1>2. ASSUME lesson = "fifo" PROVE FifoInv'
  <2>1. [FifoL!Next]_(FifoL!vars)
    BY <1>2 DEF Next, vars, FifoL!vars, FifoL!pipeVars
  <2> QED BY <1>2, <2>1, FifoNext DEF MessagesInv
<1>3. ASSUME lesson = "pipe" PROVE PipeInv'
  <2>1. [PipeL!Next]_(PipeL!vars)
    BY <1>3 DEF Next, vars, PipeL!vars
  <2> QED BY <1>3, <2>1, PipeNext DEF MessagesInv
<1>4. ASSUME lesson = "segment" PROVE SegmentInv'
  <2>1. [Shm(Servers, TRUE)!Next]_(Shm(Servers, TRUE)!vars)
    BY <1>4 DEF Next, vars, Shm!vars, Shm!pipeVars
  <2> QED BY <1>4, <2>1, SegmentNext DEF MessagesInv
<1>5. ASSUME lesson = "shared" PROVE ShmInv(OneServer)'
  <2>1. [Shm(OneServer, FALSE)!Next]_(Shm(OneServer, FALSE)!vars)
    BY <1>5 DEF Next, vars, Shm!vars, Shm!pipeVars
  <2>2. ShmInv(OneServer) /\ [Shm(OneServer, FALSE)!Next]_(Shm(OneServer, FALSE)!vars)
          => ShmInv(OneServer)'
    BY LessonsAssumption, ShmNext
  <2> QED BY <1>5, <2>1, <2>2 DEF MessagesInv
<1>6. ASSUME lesson = "chat" PROVE ChatInv'
  <2>1. [Chat!Next]_(Chat!vars)
    BY <1>6 DEF Next, vars, Chat!vars
  <2> QED BY <1>6, <2>1, ChatNext DEF MessagesInv
<1>7. ASSUME lesson = "polling" PROVE Polling!AllEchoed'
  <2>1. [Polling!Next]_(Polling!vars)
    BY <1>7 DEF Next, vars, Polling!vars
  <2> QED BY <1>7, <2>1, PollingNext DEF MessagesInv
<1> QED BY <1>1, <1>2, <1>3, <1>4, <1>5, <1>6, <1>7 DEF MessagesInv

\* However many servers, clients and messages there are: a fifo loses a message only
\* to a killed server or for a late client, the end of a pipe is never read before its
\* writer has gone, no two processes of 4.shm use the same memory, the socket of the
\* chat client outlives its threads, and what a polling program reads is echoed
\* (3.fifo/server.cc:16-25, testpipe.cc:69-81, Shm.hpp:99, UdpClientMain.cc:80-86,
\* TestNonBlock/Main.cc:25-57).
THEOREM MessagesAlwaysKept == FairSpec => []MessagesKept
<1>1. Shm(OneServer, FALSE)!ShmAssumption
  BY LessonsAssumption
<1>2. MessagesInv => MessagesKept
  BY <1>1, FifoSafe, PipeSafe, SegmentSafe, ShmSafe, ChatSafe DEF MessagesInv, MessagesKept
<1> QED BY <1>2, MessagesInit, MessagesNext, PTL DEF FairSpec

-----------------------------------------------------------------------------
(* The signals of 6.zc and the daemon of ProtectProcess                    *)

SignalsInv ==
    /\ v5 \in Int
    /\ pc \in {"catch", "ignore", "reset", "block", "loop"}
    /\ pc # "loop" => v5 > 0
    /\ pc = "ignore" => v1 = "handler"
    /\ pc = "reset" => v1 = "ignore"
    /\ SignalsL!NotInterrupted

LEMMA SignalsInit == SignalsL!Init => SignalsInv
  BY LessonsAssumption
  DEF SignalsInv, SignalsL!Init, SignalsL!NotInterrupted, SignalsL!SignalsAssumption

LEMMA SignalsNext == SignalsInv /\ [SignalsL!Next]_(SignalsL!vars) => SignalsInv'
<1> SUFFICES ASSUME SignalsInv, [SignalsL!Next]_(SignalsL!vars) PROVE SignalsInv'
  OBVIOUS
<1> USE DEF SignalsInv, SignalsL!NotInterrupted
<1>1. CASE UNCHANGED SignalsL!vars
  BY <1>1 DEF SignalsL!vars
<1>2. CASE SignalsL!SetActions
  BY <1>2 DEF SignalsL!SetActions, SignalsL!Signal
<1>3. CASE SignalsL!Block
  BY <1>3 DEF SignalsL!Block
<1>4. CASE SignalsL!Round
  BY <1>4 DEF SignalsL!Round
<1>5. CASE SignalsL!Deliver
  <2>1. v6 /\ ~v2 /\ UNCHANGED <<pc, v1, v2, v3, v5>> /\ v6' = (v1 # "default")
    BY <1>5 DEF SignalsL!Deliver, SignalsL!Deliverable
  <2>2. pc = "loop" => ~(v5 > 0)
    BY <2>1
  <2>3. ~v6' => pc \notin {"ignore", "reset"}
    BY <2>1
  <2>4. ~v6' => pc \in {"catch", "block"} \/ v5 <= 0
    BY <2>2, <2>3
  <2> QED BY <2>1, <2>2, <2>4
<1>6. CASE SignalsL!Interrupt
  BY <1>6 DEF SignalsL!Interrupt
<1> QED BY <1>1, <1>2, <1>3, <1>4, <1>5, <1>6 DEF SignalsL!Next, SignalsL!Step

DaemonFds == [0..2 -> {"terminal", "closed", "null"}]

DaemonTypeOK ==
    /\ pc \in {"signals", "fork", "setsid", "chdir", "close", "open", "dup", "ready", "killed"}
    /\ v1 \in [ischdir : BOOLEAN, isclose : BOOLEAN, leader : BOOLEAN,
               fds : [0..2 -> {"terminal", "closed"}], forked : BOOLEAN]
    /\ v6 \in DaemonFds
    /\ v7 \in -1..3

\* How far away from the terminal it is.
DaemonSession ==
    /\ pc \notin {"signals", "killed"} => "SIGPIPE" \in v2
    /\ pc \in {"signals", "fork"} => v3 = v1.leader
    /\ pc = "setsid" => ~v3 \/ (v1.leader /\ ~v1.forked)
    /\ pc \in {"chdir", "close", "open", "dup", "ready"} =>
         v4 = "own" \/ (v1.leader /\ ~v1.forked)

\* What the standard descriptors refer to.
DaemonDescriptors ==
    /\ pc \in {"signals", "fork", "setsid", "chdir", "close", "open"} => v6 = v1.fds /\ v7 = -1
    /\ pc = "close" => v1.isclose
    /\ pc \in {"open", "dup"} => ~v1.isclose
    /\ pc = "dup" =>
         \/ v6 = v1.fds /\ v7 = -1
         \/ /\ v7 \in 0..2 => v1.fds[v7] = "closed"
            /\ \A k \in 0..2 : v6[k] = IF k = v7 THEN "null" ELSE v1.fds[k]

DaemonInv == DaemonTypeOK /\ DaemonSession /\ DaemonDescriptors /\ DaemonL!Detached

LEMMA LowestFree ==
    ASSUME NEW fds \in DaemonFds,
           NEW n, n = DaemonL!Min({k \in 0..2 : fds[k] = "closed"} \cup {3})
    PROVE  n \in 0..3 /\ (n \in 0..2 => fds[n] = "closed")
<1> DEFINE free == {k \in 0..2 : fds[k] = "closed"} \cup {3}
<1>1. \E k \in free : \A m \in free : k <= m
  <2>1. CASE 0 \in free
    BY <2>1
  <2>2. CASE 0 \notin free /\ 1 \in free
    BY <2>2
  <2>3. CASE 0 \notin free /\ 1 \notin free /\ 2 \in free
    BY <2>3
  <2>4. CASE 0 \notin free /\ 1 \notin free /\ 2 \notin free
    BY <2>4
  <2> QED BY <2>1, <2>2, <2>3, <2>4
<1>2. n \in free
  BY <1>1 DEF DaemonL!Min
<1> QED BY <1>2

LEMMA DaemonInit == DaemonL!Init => DaemonInv
<1> SUFFICES ASSUME DaemonL!Init PROVE DaemonInv
  OBVIOUS
<1>1. /\ pc = "signals" /\ v3 \in BOOLEAN /\ v6 \in [0..2 -> {"terminal", "closed"}]
      /\ v1 \in [ischdir : BOOLEAN, isclose : BOOLEAN, leader : {v3}, fds : {v6}, forked : {TRUE}]
      /\ v7 = -1
  BY DEF DaemonL!Init, DaemonL!Standard, DaemonL!Unopened
<1>2. DaemonTypeOK
  <2>1. v1 \in [ischdir : BOOLEAN, isclose : BOOLEAN, leader : BOOLEAN,
                fds : [0..2 -> {"terminal", "closed"}], forked : BOOLEAN]
    BY <1>1
  <2>2. v6 \in DaemonFds
    BY <1>1 DEF DaemonFds
  <2> QED BY <1>1, <2>1, <2>2 DEF DaemonTypeOK
<1>3. DaemonSession
  BY <1>1 DEF DaemonSession
<1>4. DaemonDescriptors
  BY <1>1 DEF DaemonDescriptors
<1>5. DaemonL!Detached
  BY <1>1 DEF DaemonL!Detached
<1> QED BY <1>2, <1>3, <1>4, <1>5 DEF DaemonInv

LEMMA DaemonNext == DaemonInv /\ [DaemonL!Next]_(DaemonL!vars) => DaemonInv'
<1> SUFFICES ASSUME DaemonInv, [DaemonL!Next]_(DaemonL!vars) PROVE DaemonInv'
  OBVIOUS
<1>1. CASE UNCHANGED DaemonL!vars
  BY <1>1
  DEF DaemonL!vars, DaemonInv, DaemonTypeOK, DaemonSession, DaemonDescriptors, DaemonL!Detached,
      DaemonL!Standard, DaemonL!Unopened
<1>2. CASE DaemonL!IgnoreSignals
  BY <1>2
  DEF DaemonL!IgnoreSignals, DaemonInv, DaemonTypeOK, DaemonSession, DaemonDescriptors,
      DaemonL!Detached
<1>3. CASE DaemonL!Fork
  <2>1. /\ v1' \in [ischdir : BOOLEAN, isclose : BOOLEAN, leader : BOOLEAN,
                    fds : [0..2 -> {"terminal", "closed"}], forked : BOOLEAN]
        /\ v1'.leader = v1.leader /\ v1'.isclose = v1.isclose /\ v1'.fds = v1.fds
        /\ ~v3' \/ (v1'.leader /\ ~v1'.forked) \/ (~v1'.leader /\ v3' = FALSE)
    BY <1>3 DEF DaemonL!Fork, DaemonInv, DaemonTypeOK, DaemonSession
  <2> QED BY <1>3, <2>1
    DEF DaemonL!Fork, DaemonInv, DaemonTypeOK, DaemonSession, DaemonDescriptors, DaemonL!Detached
<1>4. CASE DaemonL!SetSid
  BY <1>4
  DEF DaemonL!SetSid, DaemonInv, DaemonTypeOK, DaemonSession, DaemonDescriptors, DaemonL!Detached
<1>5. CASE DaemonL!ChangeDirectory
  BY <1>5
  DEF DaemonL!ChangeDirectory, DaemonInv, DaemonTypeOK, DaemonSession, DaemonDescriptors,
      DaemonL!Detached
<1>6. CASE DaemonL!CloseAll
  BY <1>6
  DEF DaemonL!CloseAll, DaemonInv, DaemonTypeOK, DaemonFds, DaemonSession, DaemonDescriptors,
      DaemonL!Detached, DaemonL!Standard
<1>7. CASE DaemonL!OpenNull
  <2>1. /\ pc = "open" /\ pc' = "dup" /\ UNCHANGED <<v1, v2, v3, v4, v5>>
        /\ \/ /\ v7' = DaemonL!Min({k \in 0..2 : v6[k] = "closed"} \cup {3})
              /\ v6' = [k \in 0..2 |-> IF k = v7' THEN "null" ELSE v6[k]]
           \/ UNCHANGED <<v6, v7>>
    BY <1>7 DEF DaemonL!OpenNull, DaemonL!Standard
  <2>2. CASE UNCHANGED <<v6, v7>>
    BY <2>1, <2>2
    DEF DaemonInv, DaemonTypeOK, DaemonSession, DaemonDescriptors, DaemonL!Detached
  <2>3. CASE /\ v7' = DaemonL!Min({k \in 0..2 : v6[k] = "closed"} \cup {3})
             /\ v6' = [k \in 0..2 |-> IF k = v7' THEN "null" ELSE v6[k]]
    <3>1. v6 = v1.fds /\ v6 \in DaemonFds
      BY <2>1 DEF DaemonInv, DaemonTypeOK, DaemonDescriptors
    <3>2. v7' \in 0..3 /\ (v7' \in 0..2 => v1.fds[v7'] = "closed")
      BY <2>3, <3>1, LowestFree
    <3>3. \A k \in 0..2 : v6'[k] = IF k = v7' THEN "null" ELSE v1.fds[k]
      BY <2>3, <3>1
    <3>4. v6' \in DaemonFds
      BY <2>3, <3>1 DEF DaemonFds
    <3> QED BY <2>1, <3>2, <3>3, <3>4
      DEF DaemonInv, DaemonTypeOK, DaemonSession, DaemonDescriptors, DaemonL!Detached
  <2> QED BY <2>1, <2>2, <2>3
<1>8. CASE DaemonL!Duplicate
  <2>1. /\ pc = "dup" /\ pc' = "ready" /\ UNCHANGED <<v1, v2, v3, v4, v5, v7>>
        /\ v6' = IF v7 > 0 THEN [k \in 0..2 |-> IF k = v7 THEN "closed" ELSE "null"] ELSE v6
    BY <1>8 DEF DaemonL!Duplicate, DaemonL!Standard
  <2>2. v6' \in DaemonFds
    BY <2>1 DEF DaemonInv, DaemonTypeOK, DaemonFds
  <2>3. \A k \in 0..2 :
           /\ v6'[k] = "terminal" => v1.fds[k] = "terminal" /\ v7 \in {-1, 0}
           /\ v6'[k] = "closed" => v1.fds[k] = "closed" /\ v7 \in {-1, 0, k}
    <3>1. CASE v7 > 0
      BY <2>1, <3>1 DEF DaemonInv, DaemonTypeOK, DaemonDescriptors
    <3>2. CASE ~(v7 > 0)
      BY <2>1, <3>2 DEF DaemonInv, DaemonTypeOK, DaemonDescriptors
    <3> QED BY <3>1, <3>2
  <2> QED BY <2>1, <2>2, <2>3
    DEF DaemonInv, DaemonTypeOK, DaemonSession, DaemonDescriptors, DaemonL!Detached,
        DaemonL!Standard, DaemonL!Unopened
<1>9. CASE DaemonL!Hangup
  BY <1>9
  DEF DaemonL!Hangup, DaemonInv, DaemonTypeOK, DaemonSession, DaemonDescriptors, DaemonL!Detached
<1> QED BY <1>1, <1>2, <1>3, <1>4, <1>5, <1>6, <1>7, <1>8, <1>9 DEF DaemonL!Next, DaemonL!Step

ReachInv ==
    /\ lesson = "signals" => SignalsInv
    /\ lesson = "daemon" => DaemonInv

\* Whatever the moment a SIGINT or the end of the terminal comes: a signal that is
\* blocked does not end the program before its last round, and a daemon has its own
\* session and descriptors, except as said there (testcore.cc:37-62, Daemon.hpp:12-43).
THEOREM AlwaysOutOfReach == FairSpec => []OutOfReach
<1>1. Init => ReachInv
  BY SignalsInit, DaemonInit DEF Init, ReachInv
<1>2. ReachInv /\ [Next]_vars => ReachInv'
  <2> SUFFICES ASSUME ReachInv, [Next]_vars PROVE ReachInv'
    OBVIOUS
  <2>1. lesson' = lesson
    BY DEF Next, vars
  <2>2. ASSUME lesson = "signals" PROVE SignalsInv'
    <3>1. [SignalsL!Next]_(SignalsL!vars)
      BY <2>2 DEF Next, vars, SignalsL!vars
    <3> QED BY <2>2, <3>1, SignalsNext DEF ReachInv
  <2>3. ASSUME lesson = "daemon" PROVE DaemonInv'
    <3>1. [DaemonL!Next]_(DaemonL!vars)
      BY <2>3 DEF Next, vars, DaemonL!vars
    <3> QED BY <2>3, <3>1, DaemonNext DEF ReachInv
  <2> QED BY <2>1, <2>2, <2>3 DEF ReachInv
<1>3. ReachInv => OutOfReach
  BY DEF ReachInv, SignalsInv, DaemonInv, OutOfReach
<1> QED BY <1>1, <1>2, <1>3, PTL DEF FairSpec

-----------------------------------------------------------------------------
(* The log                                                                 *)

LogPlaces == {"idle", "minute", "second", "readminute", "readsecond", "flush"}
Sinks == {"screen", "file"}
TimesOfDay == [minute : Nat, second : Nat]
Entries == [thread : Clients, number : Nat, time : TimesOfDay]

LogTypeOK ==
    /\ pc \in [Clients -> LogPlaces]
    /\ v1 \in Sinks
    /\ v2 \in Nat
    /\ v3 \in TimesOfDay
    /\ v4 \in [Clients -> Nat]
    /\ v5 \in [Clients -> Entries]
    /\ \A t \in Clients : v5[t].thread = t /\ (pc[t] # "idle" => v5[t].number > 0)
    /\ v6 \in [Sinks -> Seq(Entries)]
    /\ v7 \in [unopened : SUBSET (Clients \X Nat), disturbed : SUBSET Clients]

\* The n-th call of a thread is over; its entry is in some place.
Returned(t, n) == n \in 1..v5[t].number /\ (n < v5[t].number \/ pc[t] = "idle")
At(t, n, k, q) == v6[k][q].thread = t /\ v6[k][q].number = n
Placed(t, n) == \E k \in Sinks : \E q \in 1..Len(v6[k]) : At(t, n, k, q)

\* Exactly the entries of calls that are over are in a place, or are known to be in
\* none, and each in one place only.
EachInItsPlace ==
    /\ \A t \in Clients : \A n \in Nat :
         /\ Placed(t, n) => Returned(t, n) /\ <<t, n>> \notin v7.unopened
         /\ <<t, n>> \in v7.unopened => Returned(t, n)
         /\ Returned(t, n) => Placed(t, n) \/ <<t, n>> \in v7.unopened
    /\ \A t \in Clients : \A n \in Nat : \A j, k \in Sinks :
         \A p \in 1..Len(v6[j]), q \in 1..Len(v6[k]) :
            At(t, n, j, p) /\ At(t, n, k, q) => j = k /\ p = q

\* In a sink the numbers of a thread go up.
Ascending ==
    \A k \in Sinks : \A p, q \in 1..Len(v6[k]) :
        p < q /\ v6[k][p].thread = v6[k][q].thread => v6[k][p].number < v6[k][q].number

\* One thread at a time is inside localtime, and what a thread has read of the record
\* is its own time as long as no other has been there since.
OneConverts == \A t, u \in Clients : pc[t] = "second" /\ pc[u] = "second" => t = u
OwnFields ==
    \A t \in Clients :
        /\ pc[t] = "second" => v3.minute = v4[t]
        /\ t \notin v7.disturbed =>
             /\ pc[t] = "readminute" => v3.minute = v4[t] /\ v3.second = v4[t]
             /\ pc[t] = "readsecond" => v5[t].time.minute = v4[t] /\ v3.second = v4[t]
             /\ pc[t] = "flush" => v5[t].time.minute = v4[t] /\ v5[t].time.second = v4[t]

LogInv == LogTypeOK /\ EachInItsPlace /\ Ascending /\ OneConverts /\ OwnFields

LEMMA LogInit == LogL!Init => LogInv
<1> SUFFICES ASSUME LogL!Init PROVE LogInv
  OBVIOUS
<1>1. /\ pc = [t \in Clients |-> "idle"]
      /\ v1 = "screen" /\ v2 = 0 /\ v3 = [minute |-> 0, second |-> 0]
      /\ v4 = [t \in Clients |-> 0]
      /\ v5 = [t \in Clients |-> [thread |-> t, number |-> 0,
                                  time |-> [minute |-> 0, second |-> 0]]]
      /\ v6 = [k \in Sinks |-> <<>>]
      /\ v7 = [unopened |-> {}, disturbed |-> {}]
  BY DEF LogL!Init, LogL!Fields, LogL!Types, Sinks
<1>2. <<>> \in Seq(Entries) /\ Len(<<>>) = 0
  BY EmptySeq
<1>3. \A k \in Sinks : v6[k] = <<>>
  BY <1>1
<1>4. \A t \in Clients : [thread |-> t, number |-> 0, time |-> [minute |-> 0, second |-> 0]] \in Entries
  BY DEF Entries, TimesOfDay
<1>5. LogTypeOK
  <2>1. v5 \in [Clients -> Entries]
    BY <1>1, <1>4
  <2>2. \A t \in Clients : pc[t] = "idle" /\ v5[t].thread = t
    BY <1>1
  <2> QED BY <1>1, <1>2, <2>1, <2>2 DEF LogTypeOK, LogPlaces, Sinks, TimesOfDay
<1>6. EachInItsPlace
  <2>1. \A t \in Clients : \A n \in Nat : ~Placed(t, n) /\ ~Returned(t, n)
    BY <1>1, <1>2, <1>3 DEF Placed, Returned
  <2> QED BY <1>1, <1>2, <1>3, <2>1 DEF EachInItsPlace
<1>7. Ascending
  BY <1>2, <1>3 DEF Ascending
<1>8. OneConverts /\ OwnFields
  BY <1>1 DEF OneConverts, OwnFields
<1> QED BY <1>5, <1>6, <1>7, <1>8 DEF LogInv

\* Nothing is written and no call ends.
LEMMA LogQuiet ==
    ASSUME LogInv, v6' = v6, v7'.unopened = v7.unopened,
           \A t \in Clients : \A n \in Nat : Returned(t, n)' <=> Returned(t, n)
    PROVE  EachInItsPlace' /\ Ascending'
<1>1. \A t \in Clients : \A n \in Nat : Placed(t, n)' <=> Placed(t, n)
  BY DEF Placed, At
<1>2. EachInItsPlace'
  BY <1>1 DEF LogInv, EachInItsPlace, At
<1>3. Ascending'
  BY DEF LogInv, Ascending
<1> QED BY <1>2, <1>3

LEMMA LogMoved ==
    ASSUME LogTypeOK, NEW t \in Clients, NEW from \in LogPlaces, NEW to \in LogPlaces,
           LogL!Goto(t, from, to)
    PROVE  /\ pc[t] = from /\ pc' \in [Clients -> LogPlaces] /\ pc'[t] = to
           /\ \A u \in Clients : u # t => pc'[u] = pc[u]
  BY DEF LogTypeOK, LogL!Goto

\* A thread goes on inside its call.
LEMMA LogInside ==
    ASSUME LogInv, NEW t \in Clients, NEW from \in LogPlaces \ {"idle"},
           NEW to \in LogPlaces \ {"idle"}, LogL!Goto(t, from, to), v6' = v6,
           v7'.unopened = v7.unopened,
           \A u \in Clients : v5'[u].number = v5[u].number
    PROVE  EachInItsPlace' /\ Ascending'
<1>1. \A u \in Clients : pc'[u] = "idle" <=> pc[u] = "idle"
  BY LogMoved DEF LogInv
<1>2. \A u \in Clients : \A n \in Nat : Returned(u, n)' <=> Returned(u, n)
  BY <1>1 DEF Returned
<1> QED BY <1>2, LogQuiet

LEMMA LogMessageStep ==
    ASSUME LogInv, NEW t \in Clients, LogL!LogMessage(t) PROVE LogInv'
<1>1. /\ LogL!Goto(t, "idle", "minute")
      /\ v2' \in {v2, v2 + 1}
      /\ v4' = [v4 EXCEPT ![t] = v2']
      /\ v5' = [v5 EXCEPT ![t].number = v5[t].number + 1]
      /\ v7' = [v7 EXCEPT !.disturbed = v7.disturbed \ {t}]
      /\ UNCHANGED <<v1, v3, v6>>
  BY DEF LogL!LogMessage
<1>2. /\ pc[t] = "idle" /\ pc' \in [Clients -> LogPlaces] /\ pc'[t] = "minute"
      /\ \A u \in Clients : u # t => pc'[u] = pc[u]
  BY <1>1, LogMoved DEF LogInv, LogPlaces
<1>3. /\ v5' \in [Clients -> Entries] /\ v5'[t].number = v5[t].number + 1
      /\ v5'[t].thread = v5[t].thread /\ v5[t].number \in Nat
      /\ \A u \in Clients : u # t => v5'[u] = v5[u]
  <2>1. v5 \in [Clients -> Entries] /\ v5[t] \in Entries
    BY DEF LogInv, LogTypeOK
  <2>2. PICK e \in Entries : e = [v5[t] EXCEPT !.number = v5[t].number + 1]
    <3>1. [v5[t] EXCEPT !.number = v5[t].number + 1] \in Entries
      BY <2>1 DEF Entries
    <3> QED BY <3>1
  <2>3. e.number = v5[t].number + 1 /\ e.thread = v5[t].thread /\ v5[t].number \in Nat
    BY <2>1, <2>2 DEF Entries
  <2>4. v5' = [v5 EXCEPT ![t] = e]
    BY <1>1, <2>2
  <2>5. v5'[t] = e /\ v5' \in [Clients -> Entries] /\ \A u \in Clients : u # t => v5'[u] = v5[u]
    BY <2>1, <2>4
  <2> QED BY <2>3, <2>5
<1>4. v2' \in Nat /\ v4' \in [Clients -> Nat] /\ \A u \in Clients : u # t => v4'[u] = v4[u]
  BY <1>1 DEF LogInv, LogTypeOK
<1>5. /\ v7' \in [unopened : SUBSET (Clients \X Nat), disturbed : SUBSET Clients]
      /\ v7'.unopened = v7.unopened /\ \A u \in Clients : u # t /\ u \notin v7'.disturbed => u \notin v7.disturbed
  BY <1>1 DEF LogInv, LogTypeOK
<1>6. LogTypeOK'
  <2>1. \A u \in Clients : v5'[u].thread = u /\ (pc'[u] # "idle" => v5'[u].number > 0)
    <3>1. v5[t].thread = t /\ v5[t].number + 1 > 0
      BY <1>3 DEF LogInv, LogTypeOK
    <3>2. \A u \in Clients : v5[u].thread = u /\ (pc[u] # "idle" => v5[u].number > 0)
      BY DEF LogInv, LogTypeOK
    <3> QED BY <1>2, <1>3, <3>1, <3>2
  <2> QED BY <1>1, <1>2, <1>3, <1>4, <1>5, <2>1 DEF LogInv, LogTypeOK
<1>7. \A u \in Clients : \A n \in Nat : Returned(u, n)' <=> Returned(u, n)
  BY <1>2, <1>3 DEF Returned
<1>8. EachInItsPlace' /\ Ascending'
  BY <1>1, <1>5, <1>7, LogQuiet
<1>9. OneConverts'
  BY <1>2 DEF LogInv, OneConverts
<1>10. OwnFields'
  BY <1>1, <1>2, <1>3, <1>4, <1>5 DEF LogInv, OwnFields
<1> QED BY <1>6, <1>8, <1>9, <1>10 DEF LogInv

\* localtime: both steps disturb those that are reading.
LEMMA LogConvert ==
    ASSUME LogInv, NEW t \in Clients, LogL!ConvertMinute(t) \/ LogL!ConvertSecond(t)
    PROVE  LogInv'
<1>1. PICK from, to \in {"minute", "second", "readminute"} :
         /\ LogL!Goto(t, from, to)
         /\ v7' = [v7 EXCEPT !.disturbed = v7.disturbed \cup (LogL!Reading \ {t})]
         /\ UNCHANGED <<v1, v2, v4, v5, v6>>
         /\ \/ /\ from = "minute" /\ to = "second"
               /\ \A u \in Clients : pc[u] # "second"
               /\ v3' = [v3 EXCEPT !.minute = v4[t]]
            \/ /\ from = "second" /\ to = "readminute"
               /\ v3' = [v3 EXCEPT !.second = v4[t]]
  BY DEF LogL!ConvertMinute, LogL!ConvertSecond, LogL!Fields
<1>2. /\ pc[t] = from /\ pc' \in [Clients -> LogPlaces] /\ pc'[t] = to
      /\ \A u \in Clients : u # t => pc'[u] = pc[u]
  BY <1>1, LogMoved DEF LogInv, LogPlaces
<1>3. /\ v7' \in [unopened : SUBSET (Clients \X Nat), disturbed : SUBSET Clients]
      /\ v7'.unopened = v7.unopened
      /\ v7'.disturbed = v7.disturbed \cup (LogL!Reading \ {t})
  BY <1>1 DEF LogInv, LogTypeOK, LogL!Reading
<1>4. /\ v3' \in TimesOfDay
      /\ to = "second" => v3'.minute = v4[t]
      /\ to = "readminute" => v3'.minute = v3.minute /\ v3'.second = v4[t]
  BY <1>1 DEF LogInv, LogTypeOK, TimesOfDay
<1>5. LogTypeOK'
  BY <1>1, <1>2, <1>3, <1>4 DEF LogInv, LogTypeOK
<1>6. EachInItsPlace' /\ Ascending'
  BY <1>1, <1>3, LogInside DEF LogPlaces
<1>7. OneConverts'
  BY <1>1, <1>2 DEF LogInv, OneConverts
<1>8. OwnFields'
  <2> SUFFICES ASSUME NEW u \in Clients
               PROVE  /\ pc'[u] = "second" => v3'.minute = v4[u]
                      /\ u \notin v7'.disturbed =>
                           /\ pc'[u] = "readminute" => v3'.minute = v4[u] /\ v3'.second = v4[u]
                           /\ pc'[u] = "readsecond" => v5[u].time.minute = v4[u] /\ v3'.second = v4[u]
                           /\ pc'[u] = "flush" => v5[u].time.minute = v4[u] /\ v5[u].time.second = v4[u]
    BY <1>1 DEF OwnFields
  <2>1. CASE u = t
    BY <1>1, <1>2, <1>4, <2>1 DEF LogInv, OwnFields
  <2>2. CASE u # t
    <3>1. pc'[u] = pc[u] /\ pc[u] # "second"
      BY <1>1, <1>2, <2>2 DEF LogInv, OneConverts
    <3>2. u \notin v7'.disturbed => u \notin v7.disturbed /\ pc[u] \notin {"readminute", "readsecond"}
      BY <1>3, <2>2 DEF LogL!Reading
    <3> QED BY <3>1, <3>2 DEF LogInv, OwnFields
  <2> QED BY <2>1, <2>2
<1> QED BY <1>5, <1>6, <1>7, <1>8 DEF LogInv

\* The time goes into the entry, field by field.
LEMMA LogRead ==
    ASSUME LogInv, NEW t \in Clients, LogL!ReadMinute(t) \/ LogL!ReadSecond(t)
    PROVE  LogInv'
<1>1. PICK from, to \in {"readminute", "readsecond", "flush"} :
         /\ LogL!Goto(t, from, to)
         /\ UNCHANGED <<v1, v2, v3, v4, v6, v7>>
         /\ \/ /\ from = "readminute" /\ to = "readsecond"
               /\ v5' = [v5 EXCEPT ![t].time.minute = v3.minute]
            \/ /\ from = "readsecond" /\ to = "flush"
               /\ v5' = [v5 EXCEPT ![t].time.second = v3.second]
  BY DEF LogL!ReadMinute, LogL!ReadSecond
<1>2. /\ pc[t] = from /\ pc' \in [Clients -> LogPlaces] /\ pc'[t] = to
      /\ \A u \in Clients : u # t => pc'[u] = pc[u]
  BY <1>1, LogMoved DEF LogInv, LogPlaces
<1>3. /\ v3.minute \in Nat /\ v3.second \in Nat /\ v5[t] \in Entries /\ v5[t].time \in TimesOfDay
  BY DEF LogInv, LogTypeOK, TimesOfDay, Entries
<1>4. /\ v5' \in [Clients -> Entries]
      /\ \A u \in Clients : v5'[u].number = v5[u].number /\ v5'[u].thread = v5[u].thread
      /\ \A u \in Clients : u # t => v5'[u] = v5[u]
      /\ to = "readsecond" => v5'[t].time.minute = v3.minute
      /\ to = "flush" => v5'[t].time.minute = v5[t].time.minute /\ v5'[t].time.second = v3.second
  <2>1. CASE to = "readsecond" /\ v5' = [v5 EXCEPT ![t].time.minute = v3.minute]
    BY <1>3, <2>1 DEF LogInv, LogTypeOK, TimesOfDay, Entries
  <2>2. CASE to = "flush" /\ v5' = [v5 EXCEPT ![t].time.second = v3.second]
    BY <1>3, <2>2 DEF LogInv, LogTypeOK, TimesOfDay, Entries
  <2> QED BY <1>1, <2>1, <2>2
<1>5. LogTypeOK'
  BY <1>1, <1>2, <1>4 DEF LogInv, LogTypeOK
<1>6. EachInItsPlace' /\ Ascending'
  BY <1>1, <1>4, LogInside DEF LogPlaces
<1>7. OneConverts'
  BY <1>1, <1>2 DEF LogInv, OneConverts
<1>8. OwnFields'
  BY <1>1, <1>2, <1>4 DEF LogInv, OwnFields
<1> QED BY <1>5, <1>6, <1>7, <1>8 DEF LogInv

\* The entry of a call goes into one sink, behind all others, and the call is over.
LEMMA LogWritten ==
    ASSUME LogInv, NEW t \in Clients, NEW sink \in Sinks, LogL!Goto(t, "flush", "idle"),
           v6' = [v6 EXCEPT ![sink] = Append(v6[sink], v5[t])],
           UNCHANGED <<v1, v2, v3, v4, v5, v7>>
    PROVE  v6' \in [Sinks -> Seq(Entries)] /\ EachInItsPlace' /\ Ascending'
<1>1. /\ pc[t] = "flush" /\ pc'[t] = "idle"
      /\ \A u \in Clients : u # t => pc'[u] = pc[u]
  BY LogMoved DEF LogInv, LogPlaces
<1>2. PICK number \in Nat : number = v5[t].number /\ number > 0
  BY <1>1 DEF LogInv, LogTypeOK, Entries
<1>3. v5[t] \in Entries /\ v5[t].thread = t
  BY DEF LogInv, LogTypeOK
<1>4. v6[sink] \in Seq(Entries) /\ Len(v6[sink]) \in Nat
  BY DEF LogInv, LogTypeOK
<1>5. /\ v6'[sink] \in Seq(Entries) /\ Len(v6'[sink]) = Len(v6[sink]) + 1
      /\ v6'[sink][Len(v6[sink]) + 1] = v5[t]
      /\ \A q \in 1..Len(v6[sink]) : v6'[sink][q] = v6[sink][q]
      /\ \A k \in Sinks : k # sink => v6'[k] = v6[k]
  <2>1. v6'[sink] = Append(v6[sink], v5[t]) /\ \A k \in Sinks : k # sink => v6'[k] = v6[k]
    BY DEF LogInv, LogTypeOK
  <2> QED BY <1>3, <1>4, <2>1, AppendProperties
<1>6. v6' \in [Sinks -> Seq(Entries)]
  BY <1>5 DEF LogInv, LogTypeOK
<1> DEFINE New(k, q) == k = sink /\ q = Len(v6[sink]) + 1
<1>7. \A k \in Sinks : \A q \in 1..Len(v6'[k]) :
        \/ q \in 1..Len(v6[k]) /\ v6'[k][q] = v6[k][q] /\ ~New(k, q)
        \/ New(k, q) /\ v6'[k][q] = v5[t]
  BY <1>4, <1>5
<1>8. \A k \in Sinks : \A q \in 1..Len(v6[k]) : q \in 1..Len(v6'[k]) /\ v6'[k][q] = v6[k][q]
  BY <1>4, <1>5
<1>9. Len(v6[sink]) + 1 \in 1..Len(v6'[sink])
  BY <1>4, <1>5
<1>10. \A u \in Clients : \A n \in Nat :
         Returned(u, n)' <=> Returned(u, n) \/ (u = t /\ n = number)
  BY <1>1, <1>2 DEF Returned
<1>11. ~Returned(t, number)
  BY <1>1, <1>2 DEF Returned
<1>12. \A u \in Clients : \A n \in Nat : Placed(u, n)' <=> Placed(u, n) \/ (u = t /\ n = number)
  <2> SUFFICES ASSUME NEW u \in Clients, NEW n \in Nat
               PROVE  Placed(u, n)' <=> Placed(u, n) \/ (u = t /\ n = number)
    OBVIOUS
  <2>1. Placed(u, n)' => Placed(u, n) \/ (u = t /\ n = number)
    BY <1>2, <1>3, <1>7 DEF Placed, At
  <2>2. Placed(u, n) => Placed(u, n)'
    BY <1>8 DEF Placed, At
  <2>3. u = t /\ n = number => Placed(u, n)'
    BY <1>2, <1>3, <1>5, <1>9 DEF Placed, At
  <2> QED BY <2>1, <2>2, <2>3
<1>13. \A u \in Clients : \A n \in Nat : \A j, k \in Sinks :
         \A p \in 1..Len(v6'[j]), q \in 1..Len(v6'[k]) :
            At(u, n, j, p)' /\ At(u, n, k, q)' => j = k /\ p = q
  <2> SUFFICES ASSUME NEW u \in Clients, NEW n \in Nat, NEW j \in Sinks, NEW k \in Sinks,
                      NEW p \in 1..Len(v6'[j]), NEW q \in 1..Len(v6'[k]),
                      At(u, n, j, p)', At(u, n, k, q)'
               PROVE  j = k /\ p = q
    OBVIOUS
  <2>1. \A i \in Sinks : \A r \in 1..Len(v6'[i]) : At(u, n, i, r)' =>
           \/ r \in 1..Len(v6[i]) /\ At(u, n, i, r) /\ Placed(u, n)
           \/ New(i, r) /\ u = t /\ n = number
    BY <1>2, <1>3, <1>7 DEF At, Placed
  <2>2. ~Placed(t, number)
    BY <1>11 DEF LogInv, EachInItsPlace
  <2>3. CASE u = t /\ n = number
    <3>1. New(j, p) /\ New(k, q)
      BY <2>1, <2>2, <2>3
    <3> QED BY <3>1
  <2>4. CASE ~(u = t /\ n = number)
    <3>1. p \in 1..Len(v6[j]) /\ q \in 1..Len(v6[k]) /\ At(u, n, j, p) /\ At(u, n, k, q)
      BY <2>1, <2>4
    <3> QED BY <3>1 DEF LogInv, EachInItsPlace
  <2> QED BY <2>3, <2>4
<1>14. \A u \in Clients : \A n \in Nat :
         /\ Placed(u, n)' => Returned(u, n)' /\ <<u, n>> \notin v7'.unopened
         /\ <<u, n>> \in v7'.unopened => Returned(u, n)'
         /\ Returned(u, n)' => Placed(u, n)' \/ <<u, n>> \in v7'.unopened
  <2>1. <<t, number>> \notin v7.unopened
    BY <1>11 DEF LogInv, EachInItsPlace
  <2> QED BY <1>10, <1>12, <2>1 DEF LogInv, EachInItsPlace
<1>15. EachInItsPlace'
  BY <1>13, <1>14 DEF EachInItsPlace
<1>16. Ascending'
  <2> SUFFICES ASSUME NEW k \in Sinks, NEW p \in 1..Len(v6'[k]), NEW q \in 1..Len(v6'[k]),
                      p < q, v6'[k][p].thread = v6'[k][q].thread
               PROVE  v6'[k][p].number < v6'[k][q].number
    BY DEF Ascending
  <2>1. p \in 1..Len(v6[k]) /\ v6'[k][p] = v6[k][p]
    <3>1. ~New(k, p)
      BY <1>4, <1>5
    <3> QED BY <1>7, <3>1
  <2>2. CASE q \in 1..Len(v6[k]) /\ v6'[k][q] = v6[k][q]
    BY <2>1, <2>2 DEF LogInv, Ascending
  <2>3. CASE v6'[k][q] = v5[t]
    <3>1. v6[k][p] \in Entries
      BY <2>1, ElementOfSeq DEF LogInv, LogTypeOK
    <3>2. PICK n \in Nat : n = v6[k][p].number
      BY <3>1 DEF Entries
    <3>3. At(t, n, k, p)
      BY <1>3, <2>1, <2>3, <3>2 DEF At
    <3>4. Returned(t, n)
      BY <2>1, <3>3 DEF LogInv, EachInItsPlace, Placed
    <3> QED BY <1>1, <1>2, <2>1, <2>3, <3>2, <3>4 DEF Returned
  <2> QED BY <1>7, <2>2, <2>3
<1> QED BY <1>6, <1>15, <1>16

\* The file cannot be opened: the entry is in no place, and the call is over.
LEMMA LogUnopened ==
    ASSUME LogInv, NEW t \in Clients, LogL!Goto(t, "flush", "idle"), UNCHANGED <<v5, v6>>,
           v7' = [v7 EXCEPT !.unopened = v7.unopened \cup {<<v5[t].thread, v5[t].number>>}]
    PROVE  /\ v7' \in [unopened : SUBSET (Clients \X Nat), disturbed : SUBSET Clients]
           /\ v7'.disturbed = v7.disturbed
           /\ EachInItsPlace' /\ Ascending'
<1>1. /\ pc[t] = "flush" /\ pc'[t] = "idle"
      /\ \A u \in Clients : u # t => pc'[u] = pc[u]
  BY LogMoved DEF LogInv, LogPlaces
<1>2. PICK number \in Nat : number = v5[t].number /\ number > 0
  BY <1>1 DEF LogInv, LogTypeOK, Entries
<1>3. v5[t].thread = t
  BY DEF LogInv, LogTypeOK
<1>4. /\ v7' \in [unopened : SUBSET (Clients \X Nat), disturbed : SUBSET Clients]
      /\ v7'.disturbed = v7.disturbed /\ v7'.unopened = v7.unopened \cup {<<t, number>>}
  <2>1. <<v5[t].thread, v5[t].number>> = <<t, number>> /\ <<t, number>> \in Clients \X Nat
    BY <1>2, <1>3
  <2>2. v7' = [v7 EXCEPT !.unopened = v7.unopened \cup {<<t, number>>}]
    BY <2>1
  <2>3. v7 \in [unopened : SUBSET (Clients \X Nat), disturbed : SUBSET Clients]
    BY DEF LogInv, LogTypeOK
  <2> QED BY <2>1, <2>2, <2>3
<1>5. \A u \in Clients : \A n \in Nat :
         Returned(u, n)' <=> Returned(u, n) \/ (u = t /\ n = number)
  BY <1>1, <1>2 DEF Returned
<1>6. ~Returned(t, number)
  BY <1>1, <1>2 DEF Returned
<1>7. \A u \in Clients : \A n \in Nat : Placed(u, n)' <=> Placed(u, n)
  BY DEF Placed, At
<1>8. \A u \in Clients : \A n \in Nat :
         <<u, n>> \in v7'.unopened <=> <<u, n>> \in v7.unopened \/ (u = t /\ n = number)
  BY <1>4
<1>9. \A u \in Clients : \A n \in Nat :
         /\ Placed(u, n)' => Returned(u, n)' /\ <<u, n>> \notin v7'.unopened
         /\ <<u, n>> \in v7'.unopened => Returned(u, n)'
         /\ Returned(u, n)' => Placed(u, n)' \/ <<u, n>> \in v7'.unopened
  <2> SUFFICES ASSUME NEW u \in Clients, NEW n \in Nat
               PROVE  /\ Placed(u, n)' => Returned(u, n)' /\ <<u, n>> \notin v7'.unopened
                      /\ <<u, n>> \in v7'.unopened => Returned(u, n)'
                      /\ Returned(u, n)' => Placed(u, n)' \/ <<u, n>> \in v7'.unopened
    OBVIOUS
  <2>1. /\ Placed(u, n) => Returned(u, n) /\ <<u, n>> \notin v7.unopened
        /\ <<u, n>> \in v7.unopened => Returned(u, n)
        /\ Returned(u, n) => Placed(u, n) \/ <<u, n>> \in v7.unopened
    BY DEF LogInv, EachInItsPlace
  <2>2. /\ Returned(u, n)' <=> Returned(u, n) \/ (u = t /\ n = number)
        /\ Placed(u, n)' <=> Placed(u, n)
        /\ <<u, n>> \in v7'.unopened <=> <<u, n>> \in v7.unopened \/ (u = t /\ n = number)
    BY <1>5, <1>7, <1>8
  <2> QED BY <1>6, <2>1, <2>2
<1>10. EachInItsPlace'
  BY <1>9 DEF LogInv, EachInItsPlace, At
<1>11. Ascending'
  BY DEF LogInv, Ascending
<1> QED BY <1>4, <1>10, <1>11

LEMMA LogFlush ==
    ASSUME LogInv, NEW t \in Clients, LogL!FlushLog(t) PROVE LogInv'
<1>1. /\ LogL!Goto(t, "flush", "idle") /\ UNCHANGED <<v1, v2, v3, v4, v5>>
      /\ \/ /\ UNCHANGED v7
            /\ \E sink \in Sinks : v6' = [v6 EXCEPT ![sink] = Append(v6[sink], v5[t])]
         \/ /\ UNCHANGED v6
            /\ v7' = [v7 EXCEPT !.unopened = v7.unopened \cup {<<v5[t].thread, v5[t].number>>}]
  BY DEF LogL!FlushLog, LogL!FlushLogToScreen, LogL!FlushLogToFile, LogL!Id, Sinks
<1>2. /\ pc' \in [Clients -> LogPlaces] /\ pc'[t] = "idle"
      /\ \A u \in Clients : u # t => pc'[u] = pc[u]
  BY <1>1, LogMoved DEF LogInv, LogPlaces
<1>3. /\ EachInItsPlace' /\ Ascending' /\ v6' \in [Sinks -> Seq(Entries)]
      /\ v7' \in [unopened : SUBSET (Clients \X Nat), disturbed : SUBSET Clients]
      /\ v7'.disturbed = v7.disturbed
  <2>1. CASE UNCHANGED v7 /\ \E sink \in Sinks : v6' = [v6 EXCEPT ![sink] = Append(v6[sink], v5[t])]
    <3>1. PICK sink \in Sinks : v6' = [v6 EXCEPT ![sink] = Append(v6[sink], v5[t])]
      BY <2>1
    <3>2. v6' \in [Sinks -> Seq(Entries)] /\ EachInItsPlace' /\ Ascending'
      BY <1>1, <2>1, <3>1, LogWritten
    <3> QED BY <2>1, <3>2 DEF LogInv, LogTypeOK
  <2>2. CASE /\ UNCHANGED v6
             /\ v7' = [v7 EXCEPT !.unopened = v7.unopened \cup {<<v5[t].thread, v5[t].number>>}]
    <3>1. /\ v7' \in [unopened : SUBSET (Clients \X Nat), disturbed : SUBSET Clients]
          /\ v7'.disturbed = v7.disturbed /\ EachInItsPlace' /\ Ascending'
      BY <1>1, <2>2, LogUnopened
    <3> QED BY <2>2, <3>1 DEF LogInv, LogTypeOK
  <2> QED BY <1>1, <2>1, <2>2
<1>4. LogTypeOK'
  BY <1>1, <1>2, <1>3 DEF LogInv, LogTypeOK
<1>5. OneConverts'
  BY <1>2 DEF LogInv, OneConverts
<1>6. OwnFields'
  BY <1>1, <1>2, <1>3 DEF LogInv, OwnFields
<1> QED BY <1>3, <1>4, <1>5, <1>6 DEF LogInv

LEMMA LogNext == LogInv /\ [LogL!Next]_(LogL!vars) => LogInv'
<1> SUFFICES ASSUME LogInv, [LogL!Next]_(LogL!vars) PROVE LogInv'
  OBVIOUS
<1>1. CASE LogL!Enable \/ UNCHANGED LogL!vars
  <2>1. v1' \in Sinks /\ UNCHANGED <<pc, v2, v3, v4, v5, v6, v7>>
    BY <1>1 DEF LogL!Enable, LogL!Types, LogL!vars, Sinks, LogInv, LogTypeOK
  <2>2. LogTypeOK'
    BY <2>1 DEF LogInv, LogTypeOK
  <2>3. \A u \in Clients : \A n \in Nat : Returned(u, n)' <=> Returned(u, n)
    BY <2>1 DEF Returned
  <2>4. EachInItsPlace' /\ Ascending'
    BY <2>1, <2>3, LogQuiet
  <2>5. OneConverts' /\ OwnFields'
    BY <2>1 DEF LogInv, OneConverts, OwnFields
  <2> QED BY <2>2, <2>4, <2>5 DEF LogInv
<1>2. ASSUME NEW t \in Clients, LogL!ThreadStep(t) PROVE LogInv'
  BY <1>2, LogMessageStep, LogConvert, LogRead, LogFlush DEF LogL!ThreadStep
<1> QED BY <1>1, <1>2 DEF LogL!Next

LEMMA LogSafe == LogInv => LogL!NothingMissing /\ LogL!InOrder /\ LogL!OwnTime
<1> SUFFICES ASSUME LogInv PROVE LogL!NothingMissing /\ LogL!InOrder /\ LogL!OwnTime
  OBVIOUS
<1>1. \A k \in Sinks : DOMAIN v6[k] = 1..Len(v6[k])
  BY DEF LogInv, LogTypeOK
<1>2. ASSUME NEW t \in Clients, NEW n \in 1..v5[t].number
      PROVE  /\ n \in Nat
             /\ \A x, y \in LogL!Places(t, n) : x = y
             /\ LogL!Places(t, n) = {} <=> ~Placed(t, n)
  <2>1. v5[t].number \in Nat /\ n \in Nat
    BY DEF LogInv, LogTypeOK, Entries
  <2>2. LogL!Places(t, n) =
          UNION {{<<k, p>> : p \in {q \in 1..Len(v6[k]) : At(t, n, k, q)}} : k \in Sinks}
    BY <1>1 DEF LogL!Places, LogL!Id, LogL!Types, Sinks, At
  <2>3. \A x \in LogL!Places(t, n) :
           \E k \in Sinks : \E q \in 1..Len(v6[k]) : At(t, n, k, q) /\ x = <<k, q>>
    BY <2>2
  <2>4. \A k \in Sinks : \A q \in 1..Len(v6[k]) : At(t, n, k, q) => <<k, q>> \in LogL!Places(t, n)
    BY <2>2
  <2>5. \A x, y \in LogL!Places(t, n) : x = y
    BY <2>1, <2>3 DEF LogInv, EachInItsPlace
  <2>6. LogL!Places(t, n) = {} <=> ~Placed(t, n)
    BY <2>3, <2>4 DEF Placed
  <2> QED BY <2>1, <2>5, <2>6
<1>3. LogL!NothingMissing
  <2> SUFFICES ASSUME NEW t \in Clients, NEW n \in 1..v5[t].number
               PROVE  /\ \A x, y \in LogL!Places(t, n) : x = y
                      /\ n < v5[t].number \/ pc[t] = "idle" =>
                           (LogL!Places(t, n) = {}) = (<<t, n>> \in v7.unopened)
    BY DEF LogL!NothingMissing
  <2>1. n < v5[t].number \/ pc[t] = "idle" =>
          (LogL!Places(t, n) = {} <=> <<t, n>> \in v7.unopened)
    BY <1>2 DEF LogInv, EachInItsPlace, Returned
  <2> QED BY <1>2, <2>1
<1>4. LogL!InOrder
  BY <1>1 DEF LogInv, Ascending, LogL!InOrder, LogL!Types, Sinks
<1>5. LogL!OwnTime
  <2> SUFFICES ASSUME NEW t \in Clients, pc[t] = "flush", t \notin v7.disturbed
               PROVE  v5[t].time = [minute |-> v4[t], second |-> v4[t]]
    BY DEF LogL!OwnTime, LogL!Fields
  <2>1. v5[t].time.minute = v4[t] /\ v5[t].time.second = v4[t]
    BY DEF LogInv, OwnFields
  <2>2. v5[t].time \in TimesOfDay
    BY DEF LogInv, LogTypeOK, Entries
  <2> QED BY <2>1, <2>2 DEF TimesOfDay
<1> QED BY <1>3, <1>4, <1>5

\* However many threads log whatever, and wherever to: no entry is lost, doubled or
\* out of order, and one with another time than its own has been disturbed
\* (Log.hpp:46-55, 97-127).
THEOREM EntriesAlwaysKept == FairSpec => []EntriesKept
<1> DEFINE Inv == lesson = "log" => LogInv
<1>1. Init => Inv
  BY LogInit DEF Init
<1>2. Inv /\ [Next]_vars => Inv'
  <2> SUFFICES ASSUME Inv, [Next]_vars, lesson = "log", lesson' = "log" PROVE LogInv'
    BY DEF Next, vars
  <2>1. [LogL!Next]_(LogL!vars)
    BY DEF Next, vars, LogL!vars
  <2> QED BY <2>1, LogNext
<1>3. Inv => EntriesKept
  BY LogSafe DEF EntriesKept
<1> QED BY <1>1, <1>2, <1>3, PTL DEF FairSpec

-----------------------------------------------------------------------------
(* The servers over UDP and their client                                   *)

Says == Words \cup {""}
Values == UNION {{f[n][2] : n \in DOMAIN f} : f \in Files}
Texts == Says \cup Values \cup {"None"}
Services == {"echo", "dict"}
Bodies == {<<w>> : w \in Says} \cup (Services \X Texts)
Datagrams ==
    [kind : {"request", "answer"}, client : Clients, line : Nat, body : Bodies, copy : Nat]

UdpTypeOK ==
    /\ pc \in [Clients \cup {Server} -> {"start", "load", "loop", "enter", "wait", "exit"}]
    /\ v1 \in SUBSET Datagrams
    /\ v2 \in Services
    /\ v3 \in [lines : Files \cup {<<>>}, read : Nat]
    /\ v5 \in [Clients -> Seq(Says)]
    /\ v6 \in [Clients -> Seq(Datagrams)]
    /\ v7 \in Nat

\* The dictionary holds what the lines read so far say, the first of them for each word.
Said(w, n) == Udp!Valid(v3.lines[n]) /\ v3.lines[n][1] = w
Loaded ==
    /\ pc[Server] = "loop" => v3.read = Len(v3.lines)
    /\ v3.read <= Len(v3.lines)
    /\ \A w : w \in DOMAIN v4 <=> \E n \in 1..v3.read : Said(w, n)
    /\ \A w : w \in DOMAIN v4 =>
         \E n \in 1..v3.read : /\ Said(w, n) /\ v4[w] = v3.lines[n][2]
                               /\ \A m \in 1..v3.read : Said(w, m) => n <= m

\* A datagram is about a line its client has sent: asks what it says or answers right.
About(d) ==
    /\ d.line \in 1..Len(v5[d.client])
    /\ d.kind = "request" => d.body = <<v5[d.client][d.line]>>
    /\ d.kind = "answer" => Udp!RightReply(v5[d.client][d.line], d.body)
Truthful ==
    /\ \A d \in v1 : About(d)
    /\ \A c \in Clients : \A n \in 1..Len(v6[c]) :
         About(v6[c][n]) /\ v6[c][n].kind = "answer" /\ v6[c][n].client = c

\* A client has shown an answer for each line but the one it waits for.
Pace ==
    \A c \in Clients :
        /\ Len(v6[c]) <= Len(v5[c])
        /\ pc[c] \in {"start", "enter"} => Len(v6[c]) = Len(v5[c])
        /\ pc[c] = "wait" => Len(v6[c]) = Len(v5[c]) - 1
        /\ \A n \in 1..Len(v6[c]) :
             v6[c][n].line <= n /\ (v7 = 0 => v6[c][n].line = n)

\* Without a duplicate, one datagram at most is about a client, and about its last line.
OneUnderWay ==
    v7 = 0 =>
        /\ \A d \in v1 : d.line = Len(v5[d.client]) /\ pc[d.client] \in {"wait", "exit"}
        /\ \A d, e \in v1 : d.client = e.client => d = e

UdpInv == UdpTypeOK /\ Loaded /\ Truthful /\ Pace /\ OneUnderWay

LEMMA UdpNames ==
    /\ Server \notin Clients /\ "" \notin Words
    /\ \A f \in Files \cup {<<>>} : Len(f) \in Nat /\ DOMAIN f = 1..Len(f)
<1>1. \A f \in Files : f \in Seq({f[n] : n \in DOMAIN f})
  BY LessonsAssumption DEF Udp!UdpAssumption
<1>2. \A f \in Files : Len(f) \in Nat /\ DOMAIN f = 1..Len(f)
  BY <1>1
<1>3. Len(<<>>) = 0 /\ DOMAIN <<>> = 1..Len(<<>>)
  OBVIOUS
<1> QED BY <1>2, <1>3, LessonsAssumption DEF Udp!UdpAssumption, Udp!Empty

LEMMA UdpBodies ==
    /\ \A w \in Says : w \in Texts /\ <<w>> \in Bodies
    /\ "None" \in Texts /\ "echo" \in Services /\ "dict" \in Services
    /\ \A f \in Files : \A m \in DOMAIN f : f[m][2] \in Texts
    /\ \A s \in Services, t \in Texts : <<s, t>> \in Bodies
<1>1. \A w \in Says : w \in Texts /\ <<w>> \in Bodies
  BY DEF Texts, Bodies
<1>2. "None" \in Texts
  BY DEF Texts
<1>3. "echo" \in Services /\ "dict" \in Services
  BY DEF Services
<1>4. \A f \in Files : \A m \in DOMAIN f : f[m][2] \in Values
  BY DEF Values
<1>5. \A s \in Services, t \in Texts : <<s, t>> \in Bodies
  BY DEF Bodies
<1> QED BY <1>1, <1>2, <1>3, <1>4, <1>5 DEF Texts

LEMMA UdpSequences ==
    ASSUME UdpTypeOK, NEW c \in Clients
    PROVE  /\ v5[c] \in Seq(Says) /\ v6[c] \in Seq(Datagrams)
           /\ Len(v5[c]) \in Nat /\ Len(v6[c]) \in Nat
           /\ DOMAIN v6[c] = 1..Len(v6[c])
<1>1. v5[c] \in Seq(Says)
  BY DEF UdpTypeOK
<1>2. v6[c] \in Seq(Datagrams)
  BY DEF UdpTypeOK
<1>3. Len(v5[c]) \in Nat
  BY <1>1
<1>4. Len(v6[c]) \in Nat /\ DOMAIN v6[c] = 1..Len(v6[c])
  BY <1>2
<1> QED BY <1>1, <1>2, <1>3, <1>4

LEMMA UdpInit == Udp!Init => UdpInv
<1> SUFFICES ASSUME Udp!Init PROVE UdpInv
  OBVIOUS
<1>1. /\ pc = [p \in Clients \cup {Server} |-> "start"]
      /\ v1 = {} /\ v4 = <<>> /\ v7 = 0
      /\ v5 = [c \in Clients |-> <<>>] /\ v6 = [c \in Clients |-> <<>>]
      /\ v2 \in Services /\ v3 \in [lines : Files \cup {<<>>}, read : {0}]
  BY DEF Udp!Init, Services
<1>2. Len(<<>>) = 0 /\ <<>> \in Seq(Says) /\ <<>> \in Seq(Datagrams)
  BY EmptySeq
<1>3. UdpTypeOK
  BY <1>1, <1>2 DEF UdpTypeOK
<1>4. Loaded
  <2>1. DOMAIN v4 = {} /\ v3.read = 0 /\ v3.lines \in Files \cup {<<>>} /\ pc[Server] = "start"
    BY <1>1
  <2>2. Len(v3.lines) \in Nat
    BY <2>1, UdpNames
  <2> QED BY <2>1, <2>2 DEF Loaded
<1>5. Truthful /\ Pace /\ OneUnderWay
  BY <1>1, <1>2 DEF Truthful, Pace, OneUnderWay
<1> QED BY <1>3, <1>4, <1>5 DEF UdpInv

LEMMA UdpMoved ==
    ASSUME UdpTypeOK, NEW p \in Clients \cup {Server},
           NEW place \in {"start", "load", "loop", "enter", "wait", "exit"}, Udp!Goto(p, place)
    PROVE  /\ pc' \in [Clients \cup {Server} -> {"start", "load", "loop", "enter", "wait", "exit"}]
           /\ pc'[p] = place /\ \A q \in Clients \cup {Server} : q # p => pc'[q] = pc[q]
  BY DEF UdpTypeOK, Udp!Goto

\* What is right stays right, as long as the file and the lines sent stay.
LEMMA AboutOn ==
    ASSUME UdpTypeOK, v2' = v2, v3'.lines = v3.lines,
           \A c \in Clients : \A n \in 1..Len(v5[c]) : n \in 1..Len(v5'[c]) /\ v5'[c][n] = v5[c][n],
           NEW d \in Datagrams, About(d)
    PROVE  About(d)'
<1>1. PICK w : w = v5[d.client][d.line]
  OBVIOUS
<1>2. d.client \in Clients /\ d.line \in 1..Len(v5[d.client])
  BY DEF Datagrams, About
<1>3. v5'[d.client][d.line] = w /\ d.line \in 1..Len(v5'[d.client])
  BY <1>1, <1>2
<1>4. Udp!RightReply(w, d.body)' <=> Udp!RightReply(w, d.body)
  BY DEF Udp!RightReply, Udp!Translations
<1>5. d.kind = "answer" => Udp!RightReply(w, d.body)
  BY <1>1 DEF About
<1>6. d.kind = "answer" => Udp!RightReply(w, d.body)'
  BY <1>4, <1>5
<1> QED BY <1>1, <1>3, <1>6 DEF About

\* A step that leaves the lines, the answers and the datagrams alone.
LEMMA UdpQuiet ==
    ASSUME UdpInv, UNCHANGED <<v1, v2, v5, v6, v7>>, v3'.lines = v3.lines,
           \A c \in Clients : \/ pc'[c] = pc[c]
                              \/ pc[c] = "start" /\ pc'[c] \in {"enter", "exit"}
                              \/ pc[c] \in {"enter", "wait"} /\ pc'[c] = "exit"
    PROVE  Truthful' /\ Pace' /\ OneUnderWay'
<1>1. Truthful'
  <2>1. UdpTypeOK /\ Truthful
    BY DEF UdpInv
  <2>2. \A d \in Datagrams : About(d) => About(d)'
    BY <2>1, AboutOn
  <2>3. \A d \in v1 : d \in Datagrams
    BY <2>1 DEF UdpTypeOK
  <2>4. \A c \in Clients : \A n \in 1..Len(v6[c]) : v6[c][n] \in Datagrams
    BY <2>1, ElementOfSeq DEF UdpTypeOK
  <2>5. \A d \in v1' : About(d)'
    BY <2>1, <2>2, <2>3 DEF Truthful
  <2>6. \A c \in Clients : \A n \in 1..Len(v6[c]) :
           \E d \in Datagrams : d = v6[c][n] /\ About(d)' /\ d.kind = "answer" /\ d.client = c
    BY <2>1, <2>2, <2>4 DEF Truthful
  <2>7. \A c \in Clients : \A n \in 1..Len(v6'[c]) :
           About(v6[c][n])' /\ v6'[c][n].kind = "answer" /\ v6'[c][n].client = c
    BY <2>6 DEF About
  <2> QED BY <2>5, <2>7 DEF Truthful
<1>2. Pace'
  BY DEF UdpInv, Pace
<1>3. OneUnderWay'
  BY DEF UdpInv, UdpTypeOK, Datagrams, OneUnderWay
<1> QED BY <1>1, <1>2, <1>3

LEMMA LoadedOn ==
    ASSUME UdpInv, UNCHANGED <<v3, v4>>,
           pc'[Server] = "loop" => pc[Server] = "loop" \/ v3.read = Len(v3.lines)
    PROVE  Loaded'
<1>1. \A w, n : Said(w, n)' <=> Said(w, n)
  BY DEF Said, Udp!Valid
<1>2. \A w : w \in DOMAIN v4 <=> \E n \in 1..v3.read : Said(w, n)
  BY DEF UdpInv, Loaded
<1>3. \A w : w \in DOMAIN v4 =>
         \E n \in 1..v3.read : /\ Said(w, n) /\ v4[w] = v3.lines[n][2]
                               /\ \A m \in 1..v3.read : Said(w, m) => n <= m
  BY DEF UdpInv, Loaded
<1>4. v3.read <= Len(v3.lines) /\ (pc'[Server] = "loop" => v3.read = Len(v3.lines))
  BY DEF UdpInv, Loaded
<1> QED BY <1>1, <1>2, <1>3, <1>4 DEF Loaded

LEMMA UdpOpenDict ==
    ASSUME UdpInv, Udp!OpenDict PROVE UdpInv'
<1>1. PICK place \in {"load", "exit"} : Udp!Goto(Server, place)
  BY DEF Udp!OpenDict
<1>2. UNCHANGED <<v1, v2, v3, v4, v5, v6, v7>>
  BY DEF Udp!OpenDict
<1>3. /\ pc' \in [Clients \cup {Server} -> {"start", "load", "loop", "enter", "wait", "exit"}]
      /\ pc'[Server] = place /\ \A c \in Clients : pc'[c] = pc[c]
  BY <1>1, UdpMoved, UdpNames DEF UdpInv
<1>4. UdpTypeOK'
  BY <1>2, <1>3 DEF UdpInv, UdpTypeOK
<1>5. Loaded'
  BY <1>2, <1>3, LoadedOn
<1>6. Truthful' /\ Pace' /\ OneUnderWay'
  BY <1>2, <1>3, UdpQuiet
<1> QED BY <1>4, <1>5, <1>6 DEF UdpInv

LEMMA UdpInitServer ==
    ASSUME UdpInv, Udp!InitServer PROVE UdpInv'
<1>1. PICK place \in {"loop", "exit"} : Udp!Goto(Server, place)
  BY DEF Udp!InitServer
<1>2. v3.read = Len(v3.lines) /\ UNCHANGED <<v1, v2, v3, v4, v5, v6, v7>>
  BY DEF Udp!InitServer
<1>3. /\ pc' \in [Clients \cup {Server} -> {"start", "load", "loop", "enter", "wait", "exit"}]
      /\ pc'[Server] = place /\ \A c \in Clients : pc'[c] = pc[c]
  BY <1>1, UdpMoved, UdpNames DEF UdpInv
<1>4. UdpTypeOK'
  BY <1>2, <1>3 DEF UdpInv, UdpTypeOK
<1>5. Loaded'
  BY <1>2, <1>3, LoadedOn
<1>6. Truthful' /\ Pace' /\ OneUnderWay'
  BY <1>2, <1>3, UdpQuiet
<1> QED BY <1>4, <1>5, <1>6 DEF UdpInv

\* One more line: the dictionary changes only by a word that no line has said before.
LEMMA UdpLoadDict ==
    ASSUME UdpInv, Udp!LoadDict PROVE UdpInv'
<1>1. /\ pc[Server] = "load" /\ v3.read < Len(v3.lines)
      /\ v3' = [v3 EXCEPT !.read = v3.read + 1]
      /\ v4' = Udp!Insert(v4, v3.lines[v3'.read])
      /\ UNCHANGED <<pc, v1, v2, v5, v6, v7>>
  BY DEF Udp!LoadDict
<1>2. v3 \in [lines : Files \cup {<<>>}, read : Nat]
  BY DEF UdpInv, UdpTypeOK
<1>3. PICK next, line :
         next \in Nat /\ next = v3.read + 1 /\ line = v3.lines[next] /\ v3.read \in Nat
  BY <1>2
<1>4. /\ v3' \in [lines : Files \cup {<<>>}, read : Nat]
      /\ v3'.lines = v3.lines /\ v3'.read = next
  BY <1>1, <1>2, <1>3
<1>5. Len(v3.lines) \in Nat
  BY <1>2, UdpNames
<1>6. UdpTypeOK'
  BY <1>1, <1>4 DEF UdpInv, UdpTypeOK
<1>7. \A w, n : Said(w, n)' <=> Said(w, n)
  BY <1>4 DEF Said, Udp!Valid
<1>8. \A n : n \in 1..next <=> n \in 1..v3.read \/ n = next
  BY <1>3
<1>9. v4' = Udp!Insert(v4, line)
  BY <1>1, <1>3, <1>4
<1>10. /\ \A w : w \in DOMAIN v4 <=> \E n \in 1..v3.read : Said(w, n)
       /\ \A w : w \in DOMAIN v4 =>
            \E n \in 1..v3.read : /\ Said(w, n) /\ v4[w] = v3.lines[n][2]
                                  /\ \A m \in 1..v3.read : Said(w, m) => n <= m
  BY DEF UdpInv, Loaded
<1> DEFINE Known(w) == \E n \in 1..next : Said(w, n)
           First(w, value) ==
             \E n \in 1..next : /\ Said(w, n) /\ value = v3.lines[n][2]
                                /\ \A m \in 1..next : Said(w, m) => n <= m
<1>11. \A w : w \in DOMAIN v4 => First(w, v4[w])
  <2> SUFFICES ASSUME NEW w, w \in DOMAIN v4 PROVE First(w, v4[w])
    OBVIOUS
  <2>1. PICK n \in 1..v3.read : /\ Said(w, n) /\ v4[w] = v3.lines[n][2]
                                /\ \A m \in 1..v3.read : Said(w, m) => n <= m
    BY <1>10
  <2>2. n \in 1..next /\ n <= next
    BY <1>3
  <2>3. \A m \in 1..next : Said(w, m) => n <= m
    BY <1>8, <2>1, <2>2
  <2> QED BY <2>1, <2>2, <2>3
<1>12. CASE Udp!Valid(line) /\ line[1] \notin DOMAIN v4
  <2>1. v4' = [w \in DOMAIN v4 \cup {line[1]} |-> IF w = line[1] THEN line[2] ELSE v4[w]]
    BY <1>9, <1>12 DEF Udp!Insert
  <2>2. \A w : Said(w, next) <=> w = line[1]
    BY <1>3, <1>12 DEF Said
  <2>3. \A w : w \in DOMAIN v4' <=> Known(w)
    BY <1>8, <1>10, <2>1, <2>2
  <2>4. \A m \in 1..v3.read : ~Said(line[1], m)
    BY <1>10, <1>12
  <2>5. First(line[1], line[2])
    <3>1. next \in 1..next /\ Said(line[1], next) /\ line[2] = v3.lines[next][2]
      BY <1>3, <2>2
    <3>2. \A m \in 1..next : Said(line[1], m) => next <= m
      BY <1>8, <2>4
    <3> QED BY <3>1, <3>2
  <2>6. \A w : w \in DOMAIN v4' => First(w, v4'[w])
    BY <1>11, <1>12, <2>1, <2>5
  <2> QED BY <1>1, <1>3, <1>4, <1>5, <1>6, <1>7, <2>3, <2>6, UdpQuiet DEF UdpInv, Loaded
<1>13. CASE ~(Udp!Valid(line) /\ line[1] \notin DOMAIN v4)
  <2>1. v4' = v4
    BY <1>9, <1>13 DEF Udp!Insert
  <2>2. \A w : Said(w, next) => w \in DOMAIN v4
    BY <1>3, <1>13 DEF Said
  <2>3. \A w : w \in DOMAIN v4' <=> Known(w)
    BY <1>8, <1>10, <2>1, <2>2
  <2>4. \A w : w \in DOMAIN v4' => First(w, v4'[w])
    BY <1>11, <2>1
  <2> QED BY <1>1, <1>3, <1>4, <1>5, <1>6, <1>7, <2>3, <2>4, UdpQuiet DEF UdpInv, Loaded
<1> QED BY <1>12, <1>13

\* What the server answers is right.
LEMMA UdpReply ==
    ASSUME UdpInv, pc[Server] = "loop", NEW w \in Says
    PROVE  Udp!RightReply(w, Udp!Reply(<<w>>)) /\ Udp!Reply(<<w>>) \in Bodies
<1>1. v3 \in [lines : Files \cup {<<>>}, read : Nat] /\ v2 \in Services
  BY DEF UdpInv, UdpTypeOK
<1>2. DOMAIN v3.lines = 1..v3.read
  BY <1>1, UdpNames DEF UdpInv, Loaded
<1>3. \A n : n \in Udp!Translations(w) <=> n \in 1..v3.read /\ Said(w, n)
  BY <1>2 DEF Udp!Translations, Said
<1>4. CASE v2 = "echo"
  <2>1. Udp!Reply(<<w>>) = <<"echo", w>>
    BY <1>4 DEF Udp!Reply
  <2>2. <<"echo", w>> \in Bodies
    BY UdpBodies
  <2>3. Udp!RightReply(w, <<"echo", w>>)
    BY <1>4 DEF Udp!RightReply
  <2> QED BY <2>1, <2>2, <2>3
<1>5. CASE v2 = "dict"
  <2>1. v2 # "echo"
    BY <1>5
  <2>2. Udp!Reply(<<w>>) = <<"dict", IF w \in DOMAIN v4 THEN v4[w] ELSE "None">>
    BY <1>5, <2>1 DEF Udp!Reply, Udp!Translate
  <2>3. CASE w \in DOMAIN v4
    <3>1. PICK n \in 1..v3.read : /\ Said(w, n) /\ v4[w] = v3.lines[n][2]
                                  /\ \A m \in 1..v3.read : Said(w, m) => n <= m
      BY <2>3 DEF UdpInv, Loaded
    <3>2. n \in DOMAIN v3.lines
      BY <1>2
    <3>3. v3.lines \in Files
      <4>1. DOMAIN <<>> = {}
        OBVIOUS
      <4> QED BY <1>1, <3>2, <4>1
    <3>4. PICK value \in Texts : value = v3.lines[n][2]
      BY <3>2, <3>3, UdpBodies
    <3>5. n \in Udp!Translations(w) /\ \A m \in Udp!Translations(w) : n <= m
      BY <1>3, <3>1
    <3>6. Udp!Reply(<<w>>) = <<"dict", value>>
      BY <2>2, <2>3, <3>1, <3>4
    <3>7. Udp!RightReply(w, <<"dict", value>>)
      BY <1>5, <3>4, <3>5 DEF Udp!RightReply
    <3> QED BY <3>6, <3>7, UdpBodies
  <2>4. CASE w \notin DOMAIN v4
    <3>1. Udp!Translations(w) = {}
      BY <1>3, <2>4 DEF UdpInv, Loaded
    <3>2. Udp!Reply(<<w>>) = <<"dict", "None">>
      BY <2>2, <2>4
    <3>3. Udp!RightReply(w, <<"dict", "None">>)
      BY <1>5, <3>1 DEF Udp!RightReply
    <3> QED BY <3>2, <3>3, UdpBodies
  <2> QED BY <2>3, <2>4
<1> QED BY <1>1, <1>4, <1>5 DEF Services

\* All that is to be shown where datagrams come and go and the file stays.
LEMMA UdpTruthful ==
    ASSUME UdpInv, UNCHANGED <<v2, v3>>,
           \A c \in Clients : \A n \in 1..Len(v5[c]) : n \in 1..Len(v5'[c]) /\ v5'[c][n] = v5[c][n],
           \A d \in v1' : d \in v1 \/ About(d)',
           \A c \in Clients : \A n \in 1..Len(v6'[c]) :
               (n \in 1..Len(v6[c]) /\ v6'[c][n] = v6[c][n])
                   \/ (v6'[c][n] \in v1 /\ v6'[c][n].kind = "answer" /\ v6'[c][n].client = c)
    PROVE  Truthful'
<1>1. UdpTypeOK /\ Truthful
  BY DEF UdpInv
<1>2. \A d \in Datagrams : About(d) => About(d)'
  BY <1>1, AboutOn
<1>3. \A d \in v1 : d \in Datagrams /\ About(d)'
  BY <1>1, <1>2 DEF UdpTypeOK, Truthful
<1>4. \A c \in Clients : \A n \in 1..Len(v6[c]) : v6[c][n] \in Datagrams
  BY <1>1, ElementOfSeq DEF UdpTypeOK
<1>5. \A c \in Clients : \A n \in 1..Len(v6'[c]) :
         \E d \in Datagrams : d = v6'[c][n] /\ About(d)' /\ d.kind = "answer" /\ d.client = c
  <2> SUFFICES ASSUME NEW c \in Clients, NEW n \in 1..Len(v6'[c])
               PROVE  \E d \in Datagrams :
                        d = v6'[c][n] /\ About(d)' /\ d.kind = "answer" /\ d.client = c
    OBVIOUS
  <2>1. CASE n \in 1..Len(v6[c]) /\ v6'[c][n] = v6[c][n]
    BY <1>1, <1>2, <1>4, <2>1 DEF Truthful
  <2>2. CASE v6'[c][n] \in v1 /\ v6'[c][n].kind = "answer" /\ v6'[c][n].client = c
    BY <1>3, <2>2
  <2> QED BY <2>1, <2>2
<1>6. \A c \in Clients : \A n \in 1..Len(v6'[c]) :
         About(v6[c][n])' /\ v6'[c][n].kind = "answer" /\ v6'[c][n].client = c
  BY <1>5 DEF About
<1> QED BY <1>3, <1>6 DEF Truthful

LEMMA UdpServe ==
    ASSUME UdpInv, NEW d \in v1, d.kind = "request", Udp!Serve(d) PROVE UdpInv'
<1>1. /\ pc[Server] = "loop" /\ UNCHANGED <<pc, v2, v3, v4, v5, v6, v7>>
      /\ v1' = (v1 \ {d}) \cup
               IF d.body[1] = "" THEN {} ELSE {[d EXCEPT !.kind = "answer", !.body = Udp!Reply(d.body)]}
  BY DEF Udp!Serve, Udp!Empty
<1>2. d \in Datagrams /\ About(d) /\ v1 \in SUBSET Datagrams
  BY DEF UdpInv, UdpTypeOK, Truthful
<1>3. PICK w \in Says : w = v5[d.client][d.line] /\ d.body = <<w>>
  <2>1. v5[d.client] \in Seq(Says)
    BY <1>2 DEF UdpInv, UdpTypeOK, Datagrams
  <2>2. d.line \in 1..Len(v5[d.client])
    BY <1>2 DEF About
  <2>3. v5[d.client][d.line] \in Says
    BY <2>1, <2>2, ElementOfSeq
  <2> QED BY <1>2, <2>3 DEF About
<1>4. PICK e \in Datagrams :
         /\ e = [d EXCEPT !.kind = "answer", !.body = Udp!Reply(<<w>>)]
         /\ e.kind = "answer" /\ e.client = d.client /\ e.line = d.line
         /\ Udp!RightReply(w, e.body)
  <2>1. Udp!RightReply(w, Udp!Reply(<<w>>)) /\ Udp!Reply(<<w>>) \in Bodies
    BY <1>1, UdpReply
  <2>2. [d EXCEPT !.kind = "answer", !.body = Udp!Reply(<<w>>)] \in Datagrams
    BY <1>2, <2>1 DEF Datagrams
  <2>3. /\ [d EXCEPT !.kind = "answer", !.body = Udp!Reply(<<w>>)].kind = "answer"
        /\ [d EXCEPT !.kind = "answer", !.body = Udp!Reply(<<w>>)].client = d.client
        /\ [d EXCEPT !.kind = "answer", !.body = Udp!Reply(<<w>>)].line = d.line
        /\ [d EXCEPT !.kind = "answer", !.body = Udp!Reply(<<w>>)].body = Udp!Reply(<<w>>)
    BY <1>2 DEF Datagrams
  <2> QED BY <2>1, <2>2, <2>3
<1>5. v1' \subseteq (v1 \ {d}) \cup {e}
  BY <1>1, <1>3, <1>4
<1>6. About(e)
  BY <1>2, <1>3, <1>4 DEF About
<1>7. About(e)'
  BY <1>1, <1>6, AboutOn DEF UdpInv
<1>8. UdpTypeOK'
  BY <1>1, <1>2, <1>4, <1>5 DEF UdpInv, UdpTypeOK
<1>9. Loaded'
  BY <1>1, LoadedOn
<1>10. Truthful'
  BY <1>1, <1>5, <1>7, UdpTruthful
<1>11. Pace'
  BY <1>1 DEF UdpInv, Pace
<1>12. OneUnderWay'
  <2> SUFFICES ASSUME v7 = 0 PROVE OneUnderWay'
    BY <1>1 DEF OneUnderWay
  <2>1. \A m \in v1 : m.line = Len(v5[m.client]) /\ pc[m.client] \in {"wait", "exit"}
    BY DEF UdpInv, OneUnderWay
  <2>2. \A m, n \in v1 : m.client = n.client => m = n
    BY DEF UdpInv, OneUnderWay
  <2>3. \A m \in v1' : m = e \/ (m \in v1 /\ m # d)
    BY <1>5
  <2>4. \A m \in v1' : m.line = Len(v5[m.client]) /\ pc[m.client] \in {"wait", "exit"}
    BY <1>4, <2>1, <2>3
  <2>5. ASSUME NEW m \in v1', NEW n \in v1', m.client = n.client PROVE m = n
    <3>1. CASE m = e /\ n = e
      BY <3>1
    <3>2. CASE m = e /\ n \in v1 /\ n # d
      BY <1>4, <2>2, <2>5, <3>2
    <3>3. CASE n = e /\ m \in v1 /\ m # d
      BY <1>4, <2>2, <2>5, <3>3
    <3>4. CASE m \in v1 /\ n \in v1
      BY <2>2, <2>5, <3>4
    <3> QED BY <2>3, <3>1, <3>2, <3>3, <3>4
  <2> QED BY <1>1, <2>4, <2>5 DEF OneUnderWay
<1> QED BY <1>8, <1>9, <1>10, <1>11, <1>12 DEF UdpInv

\* A client that starts, or gives up.
LEMMA UdpAside ==
    ASSUME UdpInv, NEW c \in Clients,
           Udp!OpenSocket(c) \/ Udp!SendFails(c) \/ Udp!ReceiveFails(c)
    PROVE  UdpInv'
<1>1. PICK place \in {"enter", "exit"} :
         /\ Udp!Goto(c, place) /\ UNCHANGED <<v1, v2, v3, v4, v5, v6, v7>>
         /\ pc[c] = "start" \/ (pc[c] \in {"enter", "wait"} /\ place = "exit")
  BY DEF Udp!OpenSocket, Udp!SendFails, Udp!ReceiveFails
<1>2. /\ pc' \in [Clients \cup {Server} -> {"start", "load", "loop", "enter", "wait", "exit"}]
      /\ pc'[c] = place /\ \A q \in Clients \cup {Server} : q # c => pc'[q] = pc[q]
  BY <1>1, UdpMoved DEF UdpInv
<1>3. UdpTypeOK'
  BY <1>1, <1>2 DEF UdpInv, UdpTypeOK
<1>4. Loaded'
  BY <1>1, <1>2, UdpNames, LoadedOn
<1>5. Truthful' /\ Pace' /\ OneUnderWay'
  BY <1>1, <1>2, UdpQuiet
<1> QED BY <1>3, <1>4, <1>5 DEF UdpInv

LEMMA UdpEnter ==
    ASSUME UdpInv, NEW c \in Clients, Udp!Enter(c) PROVE UdpInv'
<1>1. pc[c] = "enter" /\ UNCHANGED <<v2, v3, v4, v6, v7>>
  BY DEF Udp!Enter
<1>2. PICK word \in Says, place \in {"exit", "wait"} :
         /\ v5' = [v5 EXCEPT ![c] = Append(v5[c], word)]
         /\ v1' = v1 \cup {[kind |-> "request", client |-> c, line |-> Len(v5'[c]),
                            body |-> <<word>>, copy |-> 0]}
         /\ Udp!Goto(c, place)
  BY DEF Udp!Enter, Udp!Empty, Says
<1>3. v5[c] \in Seq(Says) /\ Len(v5[c]) \in Nat
  BY UdpSequences DEF UdpInv
<1>4. PICK more \in Seq(Says) :
         /\ more = Append(v5[c], word) /\ Len(more) = Len(v5[c]) + 1 /\ more[Len(more)] = word
         /\ \A n \in 1..Len(v5[c]) : more[n] = v5[c][n]
  <2>1. /\ Append(v5[c], word) \in Seq(Says) /\ Len(Append(v5[c], word)) = Len(v5[c]) + 1
        /\ Append(v5[c], word)[Len(v5[c]) + 1] = word
        /\ \A n \in 1..Len(v5[c]) : Append(v5[c], word)[n] = v5[c][n]
    BY <1>3, AppendProperties
  <2> QED BY <2>1
<1>5. /\ v5' \in [Clients -> Seq(Says)] /\ v5'[c] = more
      /\ \A u \in Clients : u # c => v5'[u] = v5[u]
  BY <1>2, <1>4 DEF UdpInv, UdpTypeOK
<1>6. PICK d \in Datagrams :
         /\ v1' = v1 \cup {d}
         /\ d.kind = "request" /\ d.client = c /\ d.line = Len(more) /\ d.body = <<word>>
  <2>1. v1' = v1 \cup {[kind |-> "request", client |-> c, line |-> Len(more),
                        body |-> <<word>>, copy |-> 0]}
    BY <1>2, <1>5
  <2>2. Len(more) \in Nat /\ <<word>> \in Bodies
    BY <1>3, <1>4, UdpBodies
  <2>3. [kind |-> "request", client |-> c, line |-> Len(more), body |-> <<word>>, copy |-> 0]
           \in Datagrams
    BY <2>2 DEF Datagrams
  <2> QED BY <2>1, <2>3
<1>7. /\ pc' \in [Clients \cup {Server} -> {"start", "load", "loop", "enter", "wait", "exit"}]
      /\ pc'[c] = place /\ \A q \in Clients \cup {Server} : q # c => pc'[q] = pc[q]
  BY <1>2, UdpMoved DEF UdpInv
<1>8. UdpTypeOK'
  BY <1>1, <1>5, <1>6, <1>7 DEF UdpInv, UdpTypeOK
<1>9. Loaded'
  BY <1>1, <1>7, UdpNames, LoadedOn
<1>10. About(d)'
  <2>1. d.line \in 1..Len(v5'[d.client]) /\ d.body = <<v5'[d.client][d.line]>>
    BY <1>3, <1>4, <1>5, <1>6
  <2> QED BY <1>6, <2>1 DEF About
<1>11. Truthful'
  <2>1. \A n \in 1..Len(v5[c]) : n \in 1..Len(more) /\ more[n] = v5[c][n]
    BY <1>3, <1>4
  <2>2. \A u \in Clients : \A n \in 1..Len(v5[u]) : n \in 1..Len(v5'[u]) /\ v5'[u][n] = v5[u][n]
    BY <1>5, <2>1
  <2> QED BY <1>1, <1>6, <1>10, <2>2, UdpTruthful
<1>12. Pace'
  <2> SUFFICES ASSUME NEW u \in Clients
               PROVE  /\ Len(v6[u]) <= Len(v5'[u])
                      /\ pc'[u] \in {"start", "enter"} => Len(v6[u]) = Len(v5'[u])
                      /\ pc'[u] = "wait" => Len(v6[u]) = Len(v5'[u]) - 1
                      /\ \A n \in 1..Len(v6[u]) :
                           v6[u][n].line <= n /\ (v7 = 0 => v6[u][n].line = n)
    BY <1>1 DEF Pace
  <2>1. CASE u = c
    <3>1. Len(v6[c]) = Len(v5[c])
      BY <1>1 DEF UdpInv, Pace
    <3> QED BY <1>2, <1>3, <1>4, <1>5, <1>7, <2>1, <3>1 DEF UdpInv, Pace
  <2>2. CASE u # c
    BY <1>5, <1>7, <2>2 DEF UdpInv, Pace
  <2> QED BY <2>1, <2>2
<1>13. OneUnderWay'
  <2> SUFFICES ASSUME v7 = 0 PROVE OneUnderWay'
    BY <1>1 DEF OneUnderWay
  <2>1. \A e \in v1 : e.client # c /\ e.client \in Clients
    BY <1>1 DEF UdpInv, UdpTypeOK, OneUnderWay, Datagrams
  <2>2. v7 = 0
    BY <1>1
  <2>3. ASSUME NEW e \in v1
        PROVE  e.line = Len(v5'[e.client]) /\ pc'[e.client] \in {"wait", "exit"}
    <3>1. v5'[e.client] = v5[e.client] /\ pc'[e.client] = pc[e.client]
      BY <1>5, <1>7, <2>1
    <3> QED BY <2>2, <3>1 DEF UdpInv, OneUnderWay
  <2>4. d.line = Len(v5'[d.client]) /\ pc'[d.client] \in {"wait", "exit"}
    BY <1>2, <1>5, <1>6, <1>7
  <2>5. \A m, n \in v1 : m.client = n.client => m = n
    BY <2>2 DEF UdpInv, OneUnderWay
  <2>6. \A m, n \in v1' : m.client = n.client => m = n
    BY <1>6, <2>1, <2>5
  <2>7. \A m \in v1' : m.line = Len(v5'[m.client]) /\ pc'[m.client] \in {"wait", "exit"}
    BY <1>6, <2>3, <2>4
  <2> QED BY <2>6, <2>7 DEF OneUnderWay
<1> QED BY <1>8, <1>9, <1>11, <1>12, <1>13 DEF UdpInv

LEMMA UdpShow ==
    ASSUME UdpInv, NEW c \in Clients, Udp!Show(c) PROVE UdpInv'
<1>1. pc[c] = "wait" /\ Udp!Goto(c, "enter") /\ UNCHANGED <<v2, v3, v4, v5, v7>>
  BY DEF Udp!Show
<1>2. PICK d \in v1 : /\ d.kind = "answer" /\ d.client = c /\ v1' = v1 \ {d}
                      /\ v6' = [v6 EXCEPT ![c] = Append(v6[c], d)]
  BY DEF Udp!Show
<1>3. d \in Datagrams /\ About(d) /\ d.line \in 1..Len(v5[c]) /\ v1 \in SUBSET Datagrams
  BY <1>2 DEF UdpInv, UdpTypeOK, Truthful, About
<1>4. v6[c] \in Seq(Datagrams) /\ Len(v6[c]) \in Nat /\ Len(v5[c]) \in Nat
  BY UdpSequences DEF UdpInv
<1>5. PICK more \in Seq(Datagrams) :
         /\ more = Append(v6[c], d) /\ Len(more) = Len(v6[c]) + 1 /\ more[Len(more)] = d
         /\ \A n \in 1..Len(v6[c]) : more[n] = v6[c][n]
  <2>1. /\ Append(v6[c], d) \in Seq(Datagrams) /\ Len(Append(v6[c], d)) = Len(v6[c]) + 1
        /\ Append(v6[c], d)[Len(v6[c]) + 1] = d
        /\ \A n \in 1..Len(v6[c]) : Append(v6[c], d)[n] = v6[c][n]
    BY <1>3, <1>4, AppendProperties
  <2> QED BY <2>1
<1>6. /\ v6' \in [Clients -> Seq(Datagrams)] /\ v6'[c] = more
      /\ \A u \in Clients : u # c => v6'[u] = v6[u]
  BY <1>2, <1>5 DEF UdpInv, UdpTypeOK
<1>7. /\ pc' \in [Clients \cup {Server} -> {"start", "load", "loop", "enter", "wait", "exit"}]
      /\ pc'[c] = "enter" /\ \A q \in Clients \cup {Server} : q # c => pc'[q] = pc[q]
  BY <1>1, UdpMoved DEF UdpInv
<1>8. UdpTypeOK'
  BY <1>1, <1>2, <1>3, <1>6, <1>7 DEF UdpInv, UdpTypeOK
<1>9. Loaded'
  BY <1>1, <1>7, UdpNames, LoadedOn
<1>10. \A n \in 1..Len(more) : n \in 1..Len(v6[c]) \/ n = Len(more)
  BY <1>4, <1>5
<1>11. Truthful'
  <2>1. \A u \in Clients : \A n \in 1..Len(v6'[u]) :
          \/ n \in 1..Len(v6[u]) /\ v6'[u][n] = v6[u][n]
          \/ v6'[u][n] \in v1 /\ v6'[u][n].kind = "answer" /\ v6'[u][n].client = u
    BY <1>2, <1>5, <1>6, <1>10
  <2> QED BY <1>1, <1>2, <2>1, UdpTruthful
<1>12. Len(v6[c]) = Len(v5[c]) - 1 /\ (v7 = 0 => d.line = Len(v5[c]))
  BY <1>1, <1>2 DEF UdpInv, Pace, OneUnderWay
<1>13. Pace'
  <2> SUFFICES ASSUME NEW u \in Clients
               PROVE  /\ Len(v6'[u]) <= Len(v5[u])
                      /\ pc'[u] \in {"start", "enter"} => Len(v6'[u]) = Len(v5[u])
                      /\ pc'[u] = "wait" => Len(v6'[u]) = Len(v5[u]) - 1
                      /\ \A n \in 1..Len(v6'[u]) :
                           v6'[u][n].line <= n /\ (v7 = 0 => v6'[u][n].line = n)
    BY <1>1 DEF Pace
  <2>1. CASE u = c
    <3>1. Len(more) = Len(v5[c]) /\ d.line <= Len(more)
      BY <1>3, <1>4, <1>5, <1>12
    <3>2. \A n \in 1..Len(more) : more[n].line <= n /\ (v7 = 0 => more[n].line = n)
      BY <1>5, <1>10, <1>12, <3>1 DEF UdpInv, Pace
    <3> QED BY <1>4, <1>6, <1>7, <2>1, <3>1, <3>2
  <2>2. CASE u # c
    BY <1>6, <1>7, <2>2 DEF UdpInv, Pace
  <2> QED BY <2>1, <2>2
<1>14. OneUnderWay'
  <2> SUFFICES ASSUME v7 = 0 PROVE OneUnderWay'
    BY <1>1 DEF OneUnderWay
  <2>1. \A e \in v1' : e \in v1 /\ e.client # c /\ e.client \in Clients
    BY <1>2, <1>3 DEF UdpInv, OneUnderWay, Datagrams
  <2> QED BY <1>1, <1>7, <2>1 DEF UdpInv, OneUnderWay
<1> QED BY <1>8, <1>9, <1>11, <1>13, <1>14 DEF UdpInv

\* The network loses or doubles a datagram.
LEMMA UdpNetwork ==
    ASSUME UdpInv, NEW d \in v1, Udp!Lose(d) \/ Udp!Duplicate(d) PROVE UdpInv'
<1>1. UNCHANGED <<pc, v2, v3, v4, v5, v6>>
  BY DEF Udp!Lose, Udp!Duplicate
<1>2. v7 \in Nat /\ v1 \in SUBSET Datagrams /\ d \in Datagrams /\ About(d)
  BY DEF UdpInv, UdpTypeOK, Truthful
<1>3. PICK e \in Datagrams :
         /\ e.line = d.line /\ e.client = d.client /\ e.kind = d.kind /\ e.body = d.body
         /\ v1' \subseteq v1 \cup {e}
         /\ (v7' = v7 /\ v1' \subseteq v1) \/ v7' = v7 + 1
  <2>1. CASE Udp!Lose(d)
    BY <1>2, <2>1 DEF Udp!Lose
  <2>2. CASE Udp!Duplicate(d)
    <3>1. v7' = v7 + 1 /\ v1' = v1 \cup {[d EXCEPT !.copy = v7 + 1]}
      BY <2>2 DEF Udp!Duplicate
    <3>2. [d EXCEPT !.copy = v7 + 1] \in Datagrams
      BY <1>2 DEF Datagrams
    <3> QED BY <1>2, <3>1, <3>2 DEF Datagrams
  <2> QED BY <2>1, <2>2
<1>4. UdpTypeOK'
  BY <1>1, <1>2, <1>3 DEF UdpInv, UdpTypeOK
<1>5. Loaded'
  BY <1>1, LoadedOn
<1>6. About(e)
  BY <1>2, <1>3 DEF About
<1>7. About(e)'
  BY <1>1, <1>6, AboutOn DEF UdpInv
<1>8. Truthful'
  BY <1>1, <1>3, <1>7, UdpTruthful
<1>9. Pace'
  BY <1>1, <1>2, <1>3 DEF UdpInv, Pace
<1>10. OneUnderWay'
  BY <1>1, <1>2, <1>3 DEF UdpInv, OneUnderWay
<1> QED BY <1>4, <1>5, <1>8, <1>9, <1>10 DEF UdpInv

LEMMA UdpNext == UdpInv /\ [Udp!Next]_(Udp!vars) => UdpInv'
<1> SUFFICES ASSUME UdpInv, [Udp!Next]_(Udp!vars) PROVE UdpInv'
  OBVIOUS
<1>1. CASE UNCHANGED Udp!vars
  <2>1. UNCHANGED <<pc, v1, v2, v3, v4, v5, v6, v7>>
    BY <1>1 DEF Udp!vars
  <2>2. UdpTypeOK'
    BY <2>1 DEF UdpInv, UdpTypeOK
  <2>3. Loaded'
    BY <2>1, LoadedOn
  <2> QED BY <2>1, <2>2, <2>3, UdpQuiet DEF UdpInv
<1>2. CASE Udp!ServerStep
  BY <1>2, UdpOpenDict, UdpLoadDict, UdpInitServer, UdpServe DEF Udp!ServerStep, Udp!Requests
<1>3. ASSUME NEW c \in Clients, Udp!ClientStep(c) \/ Udp!ReceiveFails(c) PROVE UdpInv'
  BY <1>3, UdpAside, UdpEnter, UdpShow DEF Udp!ClientStep
<1>4. ASSUME NEW d \in v1, Udp!Lose(d) \/ Udp!Duplicate(d) PROVE UdpInv'
  BY <1>4, UdpNetwork
<1> QED BY <1>1, <1>2, <1>3, <1>4 DEF Udp!Next

LEMMA UdpSafe == UdpInv => Udp!AnswersInStep
<1> SUFFICES ASSUME UdpInv, NEW c \in Clients, NEW n \in DOMAIN v6[c]
             PROVE  /\ v6[c][n].line <= n
                    /\ v7 = 0 => v6[c][n].line = n
                    /\ Udp!RightReply(v5[c][v6[c][n].line], v6[c][n].body)
  BY DEF Udp!AnswersInStep
<1>1. DOMAIN v6[c] = 1..Len(v6[c])
  BY UdpSequences DEF UdpInv
<1> QED BY <1>1 DEF UdpInv, Pace, Truthful, About

\* However many clients, lines and losses there are: an answer is right for the line it
\* answers, and that is an earlier line only after the network has duplicated a
\* datagram (UdpClientMain.cc:41-73, UdpServer.hpp:76-96, Dict.hpp:18-61).
THEOREM AnswersAlwaysInStep == FairSpec => []AnswersInStep
<1> DEFINE Inv == lesson = "udp" => UdpInv
<1>1. Init => Inv
  BY UdpInit DEF Init
<1>2. Inv /\ [Next]_vars => Inv'
  <2> SUFFICES ASSUME Inv, [Next]_vars, lesson = "udp", lesson' = "udp" PROVE UdpInv'
    BY DEF Next, vars
  <2>1. [Udp!Next]_(Udp!vars)
    BY DEF Next, vars, Udp!vars
  <2> QED BY <2>1, UdpNext
<1>3. Inv => AnswersInStep
  BY UdpSafe DEF AnswersInStep
<1> QED BY <1>1, <1>2, <1>3, PTL DEF FairSpec
=============================================================================
