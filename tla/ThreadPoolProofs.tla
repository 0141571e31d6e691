-------------------------- MODULE ThreadPoolProofs --------------------------
(***************************************************************************)
(* Proofs about ThreadPool, for any number of callers, workers and tasks.  *)
(* The invariants of the module are not inductive by themselves: who owns  *)
(* which mutex, what a thread carries and what cannot have happened before *)
(* the pool exists are added to them in Inductive.                         *)
(***************************************************************************)
EXTENDS ThreadPool, FiniteSetTheorems, SequenceTheorems, TLAPS

\* Exactly the thread inside a critical section owns its mutex.
Owners ==
    /\ \A w \in Workers : wpc[w] = "check" <=> mutex = w
    /\ \A c \in Callers : cpc[c] \in {"equeue", "stop"} <=> mutex = c
    /\ \A c \in Callers :
          cpc[c] \in {"recheck", "new", "run", "start", "sigunlock"} <=> sigMutex = c

\* A worker holds a task exactly while it runs one, a caller exactly between
\* Submit and the end of Equeue.
Cargo ==
    /\ \A w \in Workers : wpc[w] = "run" <=> held[w] # NoTask
    /\ \A c \in Callers : cpc[c] \notin {"idle", "stoplock", "stop"} => arg[c] # NoTask

\* Before the pool is published no worker exists, nothing is queued and nobody is
\* past the second test of GetInstance.
Unbuilt ==
    /\ ~tp => /\ queue = <<>>
              /\ \A w \in Workers : wpc[w] = "unborn"
              /\ \A c \in Callers :
                    cpc[c] \in {"idle", "check", "siglock", "recheck", "new"}
    /\ tp => \A c \in Callers : cpc[c] # "new"

\* A worker that has not been started is unborn.
Unstarted == \A w \in unstarted : wpc[w] = "unborn"

Inductive ==
    /\ TypeOK /\ Owners /\ Cargo /\ Unbuilt /\ Unstarted
    /\ SingleInstance /\ SleepCountExact /\ NoLostWakeup /\ FifoHandOff

-----------------------------------------------------------------------------
(* Sets of workers, and how one step of one worker changes them.             *)

\* There are finitely many workers at any set of places.
LEMMA WorkersAtFinite ==
    ASSUME NEW pcs
    PROVE  IsFiniteSet(WorkersAt(pcs)) /\ Cardinality(WorkersAt(pcs)) \in Nat
<1>1. WorkersAt(pcs) \in SUBSET Workers
  BY DEF WorkersAt
<1>2. IsFiniteSet(WorkersAt(pcs))
  BY <1>1, FS_Subset, PoolAssumption
<1>3. QED
  BY <1>2, FS_CardinalityType

\* A worker that moves into, out of or outside a set of places adds one to it, takes
\* one from it or leaves it as it is.
LEMMA WorkerMoves ==
    ASSUME wpc \in [Workers -> WorkerPcs], NEW w \in Workers,
           NEW to \in WorkerPcs, wpc' = [wpc EXCEPT ![w] = to], NEW pcs
    PROVE  /\ wpc[w] \notin pcs /\ to \in pcs =>
                  Cardinality(WorkersAt(pcs)') = Cardinality(WorkersAt(pcs)) + 1
           /\ wpc[w] \in pcs /\ to \notin pcs =>
                  Cardinality(WorkersAt(pcs)') = Cardinality(WorkersAt(pcs)) - 1
           /\ (wpc[w] \in pcs <=> to \in pcs) => WorkersAt(pcs)' = WorkersAt(pcs)
<1>1. CASE wpc[w] \notin pcs /\ to \in pcs
  <2>1. WorkersAt(pcs)' = WorkersAt(pcs) \cup {w} /\ w \notin WorkersAt(pcs)
    BY <1>1 DEF WorkersAt
  <2>2. QED
    BY <1>1, <2>1, FS_AddElement, WorkersAtFinite
<1>2. CASE wpc[w] \in pcs /\ to \notin pcs
  <2>1. WorkersAt(pcs)' = WorkersAt(pcs) \ {w} /\ w \in WorkersAt(pcs)
    BY <1>2 DEF WorkersAt
  <2>2. QED
    BY <1>2, <2>1, FS_RemoveElement, WorkersAtFinite
<1>3. CASE wpc[w] \in pcs <=> to \in pcs
  BY <1>3 DEF WorkersAt
<1>4. QED
  BY <1>1, <1>2, <1>3

\* A worker that sleeps is counted.
LEMMA SleeperCounted ==
    ASSUME SleepCountExact, NEW w \in Workers, wpc[w] \in {"wait", "relock"}
    PROVE  sleepNum \in Nat /\ sleepNum > 0
<1>1. w \in Sleeping
  BY DEF Sleeping, WorkersAt
<1>2. IsFiniteSet(Sleeping) /\ Cardinality(Sleeping) \in Nat
  BY WorkersAtFinite DEF Sleeping
<1>3. Cardinality(Sleeping) # 0
  BY <1>1, <1>2, FS_EmptySet
<1>4. QED
  BY <1>2, <1>3 DEF SleepCountExact

-----------------------------------------------------------------------------
(* One lemma per part of the invariant.                                      *)

Control == TypeOK /\ Owners /\ Cargo /\ Unbuilt /\ Unstarted /\ SingleInstance

\* Every step keeps the types, the owners of the mutexes, what the threads carry and
\* the number of pools.
LEMMA ControlStep ==
    ASSUME Inductive, Next
    PROVE  Control'
<1> USE PoolAssumption DEF Inductive, CallerPcs, WorkerPcs, CallerAt, WorkerAt
<1> USE DEF Control, TypeOK, Owners, Cargo, Unbuilt, Unstarted, SingleInstance,
            poolVars, workerVars, callerVars, flowVars
<1>1. ASSUME NEW c \in Callers, NEW t \in Tasks, Submit(c, t)
      PROVE  Control'
  <2>1. TypeOK'
    BY <1>1 DEF Submit
  <2>2. Owners' /\ Cargo'
    BY <1>1 DEF Submit
  <2>3. Unbuilt' /\ Unstarted' /\ SingleInstance'
    BY <1>1 DEF Submit
  <2> HIDE DEF TypeOK, Owners, Cargo, Unbuilt, Unstarted, SingleInstance
  <2>4. QED
    BY <2>1, <2>2, <2>3
<1>2. ASSUME NEW c \in Callers, CallStop(c)
      PROVE  Control'
  <2>1. TypeOK'
    BY <1>2 DEF CallStop
  <2>2. Owners' /\ Cargo'
    BY <1>2 DEF CallStop
  <2>3. Unbuilt' /\ Unstarted' /\ SingleInstance'
    BY <1>2 DEF CallStop
  <2> HIDE DEF TypeOK, Owners, Cargo, Unbuilt, Unstarted, SingleInstance
  <2>4. QED
    BY <2>1, <2>2, <2>3
<1>3. ASSUME NEW c \in Callers, CheckInstance(c)
      PROVE  Control'
  <2>1. TypeOK'
    BY <1>3 DEF CheckInstance
  <2>2. Owners' /\ Cargo'
    <3>1. Owners'
      BY <1>3 DEF CheckInstance
    <3>2. Cargo'
      BY <1>3 DEF CheckInstance
    <3> HIDE DEF Owners, Cargo
    <3>3. QED
      BY <3>1, <3>2
  <2>3. Unbuilt' /\ Unstarted' /\ SingleInstance'
    BY <1>3 DEF CheckInstance
  <2> HIDE DEF TypeOK, Owners, Cargo, Unbuilt, Unstarted, SingleInstance
  <2>4. QED
    BY <2>1, <2>2, <2>3
<1>4. ASSUME NEW c \in Callers, LockSig(c)
      PROVE  Control'
  <2>1. TypeOK'
    BY <1>4 DEF LockSig
  <2>2. Owners' /\ Cargo'
    BY <1>4 DEF LockSig
  <2>3. Unbuilt' /\ Unstarted' /\ SingleInstance'
    BY <1>4 DEF LockSig
  <2> HIDE DEF TypeOK, Owners, Cargo, Unbuilt, Unstarted, SingleInstance
  <2>4. QED
    BY <2>1, <2>2, <2>3
<1>5. ASSUME NEW c \in Callers, RecheckInstance(c)
      PROVE  Control'
  <2>1. TypeOK'
    BY <1>5 DEF RecheckInstance
  <2>2. Owners' /\ Cargo'
    <3>1. Owners'
      <4>1. PICK next \in {"sigunlock", "new"} : cpc' = [cpc EXCEPT ![c] = next]
        BY <1>5 DEF RecheckInstance
      <4>2. cpc[c] = "recheck" /\ UNCHANGED <<wpc, mutex, sigMutex>>
        BY <1>5 DEF RecheckInstance
      <4> HIDE DEF Cargo, Unbuilt, Unstarted, SingleInstance
      <4>3. QED
        BY <4>1, <4>2
    <3>2. Cargo'
      BY <1>5 DEF RecheckInstance
    <3> HIDE DEF Owners, Cargo
    <3>3. QED
      BY <3>1, <3>2
  <2>3. Unbuilt' /\ Unstarted' /\ SingleInstance'
    BY <1>5 DEF RecheckInstance
  <2> HIDE DEF TypeOK, Owners, Cargo, Unbuilt, Unstarted, SingleInstance
  <2>4. QED
    BY <2>1, <2>2, <2>3
<1>6. ASSUME NEW c \in Callers, NewPool(c)
      PROVE  Control'
  <2>1. ~tp /\ builds = 0 /\ sigMutex = c
    BY <1>6 DEF NewPool
  <2>2. \A d \in Callers : d # c => cpc[d] # "new"
    BY <2>1
  <2>3. TypeOK'
    <3>1. queue' \in Seq(Tasks) /\ builds' \in Nat /\ sleepNum' \in Nat
      BY <1>6, EmptySeq DEF NewPool
    <3>2. QED
      BY <1>6, <3>1 DEF NewPool
  <2>4. Owners' /\ Cargo' /\ Unstarted'
    BY <1>6 DEF NewPool
  <2>5. Unbuilt' /\ SingleInstance'
    BY <1>6, <2>1, <2>2 DEF NewPool
  <2> HIDE DEF TypeOK, Owners, Cargo, Unbuilt, Unstarted, SingleInstance
  <2>6. QED
    BY <2>3, <2>4, <2>5
<1>7. ASSUME NEW c \in Callers, SetRunning(c)
      PROVE  Control'
  <2>1. TypeOK'
    BY <1>7 DEF SetRunning
  <2>2. Owners' /\ Cargo'
    BY <1>7 DEF SetRunning
  <2>3. Unbuilt' /\ Unstarted' /\ SingleInstance'
    BY <1>7 DEF SetRunning
  <2> HIDE DEF TypeOK, Owners, Cargo, Unbuilt, Unstarted, SingleInstance
  <2>4. QED
    BY <2>1, <2>2, <2>3
<1>8. ASSUME NEW c \in Callers, StartThread(c)
      PROVE  Control'
  <2>1. tp /\ cpc[c] = "start"
    BY <1>8 DEF StartThread
  <2>2. PICK w \in unstarted : /\ unstarted' = unstarted \ {w}
                               /\ \/ wpc' = [wpc EXCEPT ![w] = "lock"]
                                  \/ wpc' = wpc
    BY <1>8 DEF StartThread
  <2>3. wpc[w] = "unborn" /\ w \in Workers
    BY <2>2
  <2>4. TypeOK'
    BY <1>8, <2>2, <2>3 DEF StartThread
  <2>5. Owners' /\ Cargo'
    BY <1>8, <2>2, <2>3 DEF StartThread
  <2>6. Unbuilt' /\ Unstarted' /\ SingleInstance'
    BY <1>8, <2>1, <2>2, <2>3 DEF StartThread
  <2> HIDE DEF TypeOK, Owners, Cargo, Unbuilt, Unstarted, SingleInstance
  <2>7. QED
    BY <2>4, <2>5, <2>6
<1>9. ASSUME NEW c \in Callers, StartDone(c)
      PROVE  Control'
  <2>1. TypeOK'
    BY <1>9 DEF StartDone
  <2>2. Owners' /\ Cargo'
    BY <1>9 DEF StartDone
  <2>3. Unbuilt' /\ Unstarted' /\ SingleInstance'
    BY <1>9 DEF StartDone
  <2> HIDE DEF TypeOK, Owners, Cargo, Unbuilt, Unstarted, SingleInstance
  <2>4. QED
    BY <2>1, <2>2, <2>3
<1>10. ASSUME NEW c \in Callers, UnlockSig(c)
      PROVE  Control'
  <2>1. TypeOK'
    BY <1>10 DEF UnlockSig
  <2>2. Owners' /\ Cargo'
    BY <1>10 DEF UnlockSig
  <2>3. Unbuilt' /\ Unstarted' /\ SingleInstance'
    BY <1>10 DEF UnlockSig
  <2> HIDE DEF TypeOK, Owners, Cargo, Unbuilt, Unstarted, SingleInstance
  <2>4. QED
    BY <2>1, <2>2, <2>3
<1>11. ASSUME NEW c \in Callers, LockForEqueue(c)
      PROVE  Control'
  <2>1. TypeOK'
    BY <1>11 DEF LockForEqueue
  <2>2. Owners' /\ Cargo'
    BY <1>11 DEF LockForEqueue
  <2>3. Unbuilt' /\ Unstarted' /\ SingleInstance'
    BY <1>11 DEF LockForEqueue
  <2> HIDE DEF TypeOK, Owners, Cargo, Unbuilt, Unstarted, SingleInstance
  <2>4. QED
    BY <2>1, <2>2, <2>3
<1>12. ASSUME NEW c \in Callers, Equeue(c)
      PROVE  Control'
  <2>1. arg[c] \in Tasks /\ tp
    BY <1>12 DEF Equeue, EqueueSignalling
  <2>2. \/ wpc' = wpc
        \/ \E w \in Workers : wpc[w] = "wait" /\ wpc' = [wpc EXCEPT ![w] = "relock"]
    BY <1>12 DEF Equeue, EqueueSignalling, Wakeup, Waiting, WorkersAt
  <2>3. queue' \in Seq(Tasks) /\ accepted' \in Seq(Tasks)
    <3>1. Append(queue, arg[c]) \in Seq(Tasks) /\ Append(accepted, arg[c]) \in Seq(Tasks)
      BY <2>1
    <3>2. QED
      BY <1>12, <3>1 DEF Equeue, EqueueSignalling
  <2>4. TypeOK'
    BY <1>12, <2>2, <2>3 DEF Equeue, EqueueSignalling
  <2>5. Owners' /\ Cargo'
    BY <1>12, <2>2 DEF Equeue, EqueueSignalling
  <2>6. Unbuilt' /\ Unstarted' /\ SingleInstance'
    BY <1>12, <2>1, <2>2 DEF Equeue, EqueueSignalling
  <2> HIDE DEF TypeOK, Owners, Cargo, Unbuilt, Unstarted, SingleInstance
  <2>7. QED
    BY <2>4, <2>5, <2>6
<1>13. ASSUME NEW c \in Callers, LockForStop(c)
      PROVE  Control'
  <2>1. TypeOK'
    BY <1>13 DEF LockForStop
  <2>2. Owners' /\ Cargo'
    BY <1>13 DEF LockForStop
  <2>3. Unbuilt' /\ Unstarted' /\ SingleInstance'
    BY <1>13 DEF LockForStop
  <2> HIDE DEF TypeOK, Owners, Cargo, Unbuilt, Unstarted, SingleInstance
  <2>4. QED
    BY <2>1, <2>2, <2>3
<1>14. ASSUME NEW c \in Callers, Stop(c)
      PROVE  Control'
  <2>1. TypeOK'
    BY <1>14 DEF Stop
  <2>2. Owners' /\ Cargo'
    BY <1>14 DEF Stop
  <2>3. Unbuilt' /\ Unstarted' /\ SingleInstance'
    BY <1>14 DEF Stop
  <2> HIDE DEF TypeOK, Owners, Cargo, Unbuilt, Unstarted, SingleInstance
  <2>4. QED
    BY <2>1, <2>2, <2>3
<1>15. ASSUME NEW w \in Workers, LockQueue(w)
      PROVE  Control'
  <2>1. TypeOK'
    BY <1>15 DEF LockQueue
  <2>2. Owners' /\ Cargo'
    BY <1>15 DEF LockQueue
  <2>3. Unbuilt' /\ Unstarted' /\ SingleInstance'
    BY <1>15 DEF LockQueue
  <2> HIDE DEF TypeOK, Owners, Cargo, Unbuilt, Unstarted, SingleInstance
  <2>4. QED
    BY <2>1, <2>2, <2>3
<1>16. ASSUME NEW w \in Workers, Sleep(w)
      PROVE  Control'
  <2>1. TypeOK'
    BY <1>16 DEF Sleep
  <2>2. Owners' /\ Cargo'
    BY <1>16 DEF Sleep
  <2>3. Unbuilt' /\ Unstarted' /\ SingleInstance'
    BY <1>16 DEF Sleep
  <2> HIDE DEF TypeOK, Owners, Cargo, Unbuilt, Unstarted, SingleInstance
  <2>4. QED
    BY <2>1, <2>2, <2>3
<1>17. ASSUME NEW w \in Workers, Relock(w)
      PROVE  Control'
  <2>1. sleepNum > 0
    BY <1>17, SleeperCounted DEF Relock
  <2>2. QED
    BY <1>17, <2>1 DEF Relock
<1>18. ASSUME NEW w \in Workers, Quit(w)
      PROVE  Control'
  <2>1. TypeOK'
    BY <1>18 DEF Quit
  <2>2. Owners' /\ Cargo'
    BY <1>18 DEF Quit
  <2>3. Unbuilt' /\ Unstarted' /\ SingleInstance'
    BY <1>18 DEF Quit
  <2> HIDE DEF TypeOK, Owners, Cargo, Unbuilt, Unstarted, SingleInstance
  <2>4. QED
    BY <2>1, <2>2, <2>3
<1>19. ASSUME NEW w \in Workers, Take(w)
      PROVE  Control'
  <2>1. Head(queue) \in Tasks /\ Tail(queue) \in Seq(Tasks)
    BY <1>19 DEF Take, TakeTask
  <2>2. taken' \in Seq(Tasks)
    BY <1>19, <2>1 DEF Take, TakeTask
  <2>3. QED
    BY <1>19, <2>1, <2>2 DEF Take, TakeTask
<1>20. ASSUME NEW w \in Workers, Run(w)
      PROVE  Control'
  <2>1. TypeOK'
    BY <1>20 DEF Run
  <2>2. Owners' /\ Cargo'
    BY <1>20 DEF Run
  <2>3. Unbuilt' /\ Unstarted' /\ SingleInstance'
    BY <1>20 DEF Run
  <2> HIDE DEF TypeOK, Owners, Cargo, Unbuilt, Unstarted, SingleInstance
  <2>4. QED
    BY <2>1, <2>2, <2>3
<1>21. ASSUME NEW w \in Workers, WakeSpuriously(w)
      PROVE  Control'
  <2>1. TypeOK'
    BY <1>21 DEF WakeSpuriously
  <2>2. Owners' /\ Cargo'
    BY <1>21 DEF WakeSpuriously
  <2>3. Unbuilt' /\ Unstarted' /\ SingleInstance'
    BY <1>21 DEF WakeSpuriously
  <2> HIDE DEF TypeOK, Owners, Cargo, Unbuilt, Unstarted, SingleInstance
  <2>4. QED
    BY <2>1, <2>2, <2>3
<1>22. QED
  BY <1>1, <1>2, <1>3, <1>4, <1>5, <1>6, <1>7, <1>8, <1>9, <1>10, <1>11,
     <1>12, <1>13, <1>14, <1>15, <1>16, <1>17, <1>18, <1>19, <1>20, <1>21
     DEF Next, CallerStep, GetInstance, WorkerStep

\* The steps that move no worker, or only between places outside pthread_cond_wait,
\* keep the number of sleepers.
LEMMA SleepCountStep ==
    ASSUME Inductive, Next
    PROVE  SleepCountExact'
<1> USE PoolAssumption DEF Inductive, TypeOK, Sleeping, CallerAt, WorkerAt, poolVars,
        workerVars, callerVars, flowVars
<1>1. ASSUME UNCHANGED <<wpc, sleepNum>>
      PROVE  SleepCountExact'
  BY <1>1 DEF SleepCountExact, WorkersAt
<1>2. ASSUME NEW c \in Callers, NewPool(c)
      PROVE  SleepCountExact'
  <2>1. ~tp
    BY <1>2 DEF NewPool, Unbuilt
  <2>2. WorkersAt({"wait", "relock"})' = {}
    BY <1>2, <2>1 DEF NewPool, Unbuilt, WorkersAt
  <2>3. QED
    BY <1>2, <2>2, FS_EmptySet DEF NewPool, SleepCountExact
<1>3. ASSUME NEW c \in Callers, StartThread(c)
      PROVE  SleepCountExact'
  <2>1. WorkersAt({"wait", "relock"})' = WorkersAt({"wait", "relock"})
    BY <1>3 DEF StartThread, Unstarted, WorkersAt
  <2>2. QED
    BY <1>3, <2>1 DEF StartThread, SleepCountExact
<1>4. ASSUME NEW c \in Callers, Equeue(c)
      PROVE  SleepCountExact'
  <2>1. WorkersAt({"wait", "relock"})' = WorkersAt({"wait", "relock"})
    BY <1>4 DEF Equeue, EqueueSignalling, Wakeup, Waiting, WorkersAt
  <2>2. QED
    BY <1>4, <2>1 DEF Equeue, EqueueSignalling, SleepCountExact
<1>5. ASSUME NEW c \in Callers, Stop(c)
      PROVE  SleepCountExact'
  <2>1. WorkersAt({"wait", "relock"})' = WorkersAt({"wait", "relock"})
    BY <1>5 DEF Stop, WorkersAt
  <2>2. QED
    BY <1>5, <2>1 DEF Stop, SleepCountExact
<1>6. ASSUME NEW w \in Workers, Sleep(w)
      PROVE  SleepCountExact'
  <2>1. /\ wpc[w] = "check" /\ wpc' = [wpc EXCEPT ![w] = "wait"]
        /\ sleepNum' = sleepNum + 1
    BY <1>6 DEF Sleep
  <2>2. Cardinality(WorkersAt({"wait", "relock"})')
            = Cardinality(WorkersAt({"wait", "relock"})) + 1
    <3>1. /\ wpc[w] \notin {"wait", "relock"} /\ "wait" \in {"wait", "relock"}
          /\ "wait" \in WorkerPcs
      BY <2>1 DEF WorkerPcs
    <3>2. QED
      BY <2>1, <3>1, WorkerMoves
  <2>3. QED
    BY <2>1, <2>2 DEF SleepCountExact
<1>7. ASSUME NEW w \in Workers, Relock(w)
      PROVE  SleepCountExact'
  <2>1. /\ wpc[w] = "relock" /\ wpc' = [wpc EXCEPT ![w] = "check"]
        /\ sleepNum' = sleepNum - 1
    BY <1>7 DEF Relock
  <2>2. Cardinality(WorkersAt({"wait", "relock"})')
            = Cardinality(WorkersAt({"wait", "relock"})) - 1
    <3>1. /\ wpc[w] \in {"wait", "relock"} /\ "check" \notin {"wait", "relock"}
          /\ "check" \in WorkerPcs
      BY <2>1 DEF WorkerPcs
    <3>2. QED
      BY <2>1, <3>1, WorkerMoves
  <2>3. QED
    BY <2>1, <2>2 DEF SleepCountExact
<1>8. ASSUME NEW w \in Workers,
             LockQueue(w) \/ Quit(w) \/ Take(w) \/ Run(w) \/ WakeSpuriously(w)
      PROVE  SleepCountExact'
  <2>1. WorkersAt({"wait", "relock"})' = WorkersAt({"wait", "relock"})
    BY <1>8 DEF LockQueue, Quit, Take, TakeTask, Run, WakeSpuriously, WorkersAt
  <2>2. QED
    BY <1>8, <2>1
       DEF LockQueue, Quit, Take, TakeTask, Run, WakeSpuriously, SleepCountExact
<1>9. ASSUME NEW c \in Callers,
             \/ \E t \in Tasks : Submit(c, t)
             \/ CallStop(c) \/ CheckInstance(c) \/ LockSig(c) \/ RecheckInstance(c)
             \/ SetRunning(c) \/ StartDone(c) \/ UnlockSig(c) \/ LockForEqueue(c)
             \/ LockForStop(c)
      PROVE  SleepCountExact'
  BY <1>1, <1>9 DEF Submit, CallStop, CheckInstance, LockSig, RecheckInstance,
     SetRunning, StartDone, UnlockSig, LockForEqueue, LockForStop
<1>10. QED
  BY <1>2, <1>3, <1>4, <1>5, <1>6, <1>7, <1>8, <1>9
     DEF Next, CallerStep, GetInstance, WorkerStep

\* A worker between two visits of the queue that will come back unsignalled.
AwakePcs == {"lock", "check", "relock", "run"}

\* Only Equeue adds a task, and then it wakes a sleeper if there is one; a worker
\* leaves the set Awake only when the queue is empty.
LEMMA NoLostWakeupStep ==
    ASSUME Inductive, Next
    PROVE  NoLostWakeup'
<1> USE PoolAssumption DEF Inductive, TypeOK, Waiting, Awake, CallerAt, WorkerAt,
        poolVars, workerVars, callerVars, flowVars, WorkerPcs
<1>0. /\ Len(queue) \in Nat /\ sleepNum \in Nat
      /\ Cardinality(WorkersAt(AwakePcs)) \in Nat
  BY WorkersAtFinite
<1>a. /\ AwakePcs \cap {"wait", "unborn"} = {}
      /\ {"lock", "relock"} \subseteq AwakePcs
  BY DEF AwakePcs
<1>1. ASSUME UNCHANGED <<wpc, queue>>
      PROVE  NoLostWakeup'
  BY <1>1 DEF NoLostWakeup, WorkersAt
<1>2. ASSUME NEW c \in Callers, NewPool(c)
      PROVE  NoLostWakeup'
  <2>1. WorkersAt({"wait"})' = {}
    BY <1>2 DEF NewPool, Unbuilt, WorkersAt
  <2>2. QED
    BY <2>1 DEF NoLostWakeup
<1>3. ASSUME NEW c \in Callers, StartThread(c)
      PROVE  NoLostWakeup'
  <2>1. CASE UNCHANGED wpc
    BY <1>1, <1>3, <2>1 DEF StartThread
  <2>2. CASE \E w \in unstarted : wpc' = [wpc EXCEPT ![w] = "lock"]
    <3>1. PICK w \in unstarted : wpc' = [wpc EXCEPT ![w] = "lock"]
      BY <2>2
    <3>2. wpc[w] = "unborn" /\ w \in Workers
      BY DEF Unstarted
    <3>3. Cardinality(WorkersAt(AwakePcs)') = Cardinality(WorkersAt(AwakePcs)) + 1
      <4>1. wpc[w] \notin AwakePcs /\ "lock" \in AwakePcs /\ "lock" \in WorkerPcs
        BY <3>2, <1>a
      <4>2. QED
        BY <3>1, <3>2, <4>1, WorkerMoves
    <3>4. WorkersAt({"wait"})' = WorkersAt({"wait"})
      BY <3>1, <3>2, WorkerMoves
    <3>5. QED
      BY <1>0, <1>3, <3>3, <3>4 DEF StartThread, NoLostWakeup, AwakePcs
  <2>3. QED
    BY <1>3, <2>1, <2>2 DEF StartThread
<1>4. ASSUME NEW c \in Callers, Equeue(c)
      PROVE  NoLostWakeup'
  <2>1. CASE ~isrunning
    BY <1>1, <1>4, <2>1 DEF Equeue, EqueueSignalling
  <2>2. CASE isrunning /\ Waiting = {}
    <3>1. wpc' = wpc
      BY <1>4, <2>2 DEF Equeue, EqueueSignalling, Wakeup
    <3>2. QED
      BY <2>2, <3>1 DEF NoLostWakeup, WorkersAt
  <2>3. CASE isrunning /\ Waiting # {}
    <3>1. PICK s \in Workers : wpc[s] = "wait"
      BY <2>3 DEF WorkersAt
    <3>2. sleepNum > 0
      BY <3>1, SleeperCounted
    <3>3. PICK w \in Workers : wpc[w] = "wait" /\ wpc' = [wpc EXCEPT ![w] = "relock"]
      BY <1>4, <2>3, <3>2 DEF Equeue, EqueueSignalling, Wakeup, WorkersAt
    <3>4. Cardinality(WorkersAt(AwakePcs)') = Cardinality(WorkersAt(AwakePcs)) + 1
      <4>1. wpc[w] \notin AwakePcs /\ "relock" \in AwakePcs /\ "relock" \in WorkerPcs
        BY <3>3, <1>a
      <4>2. QED
        BY <3>3, <4>1, WorkerMoves
    <3>5. Len(queue') = Len(queue) + 1
      <4>1. arg[c] \in Tasks
        BY <1>4 DEF Equeue, EqueueSignalling, Cargo
      <4>2. QED
        BY <1>4, <2>3, <4>1 DEF Equeue, EqueueSignalling
    <3>6. QED
      BY <1>0, <2>3, <3>4, <3>5 DEF NoLostWakeup, AwakePcs
  <2>4. QED
    BY <2>1, <2>2, <2>3
<1>5. ASSUME NEW c \in Callers, Stop(c)
      PROVE  NoLostWakeup'
  BY <1>5 DEF Stop, NoLostWakeup, WorkersAt
<1>6. ASSUME NEW w \in Workers, Sleep(w) \/ Quit(w)
      PROVE  NoLostWakeup'
  <2>1. queue' = <<>>
    BY <1>6 DEF Sleep, Quit
  <2>2. /\ Len(queue') = 0 /\ Cardinality(WorkersAt(AwakePcs)') \in Nat
    <3>1. IsFiniteSet(WorkersAt(AwakePcs)')
      <4>1. WorkersAt(AwakePcs)' \in SUBSET Workers
        BY DEF WorkersAt
      <4>2. QED
        BY <4>1, FS_Subset
    <3>2. QED
      BY <2>1, <3>1, FS_CardinalityType
  <2>3. QED
    BY <2>2 DEF NoLostWakeup, AwakePcs
<1>7. ASSUME NEW w \in Workers, LockQueue(w) \/ Relock(w) \/ Run(w)
      PROVE  NoLostWakeup'
  <2>1. WorkersAt(AwakePcs)' = WorkersAt(AwakePcs)
    BY <1>7 DEF LockQueue, Relock, Run, WorkersAt, AwakePcs
  <2>2. WorkersAt({"wait"})' = WorkersAt({"wait"})
    BY <1>7 DEF LockQueue, Relock, Run, WorkersAt
  <2>3. QED
    BY <1>7, <2>1, <2>2 DEF LockQueue, Relock, Run, NoLostWakeup, AwakePcs
<1>8. ASSUME NEW w \in Workers, Take(w)
      PROVE  NoLostWakeup'
  <2>1. WorkersAt(AwakePcs)' = WorkersAt(AwakePcs)
    BY <1>8 DEF Take, TakeTask, WorkersAt, AwakePcs
  <2>2. WorkersAt({"wait"})' = WorkersAt({"wait"})
    BY <1>8 DEF Take, TakeTask, WorkersAt
  <2>3. Len(queue') = Len(queue) - 1
    <3>1. queue' = Tail(queue) /\ queue # <<>> /\ queue \in Seq(Tasks)
      BY <1>8 DEF Take, TakeTask
    <3>2. QED
      BY <3>1
  <2>4. QED
    BY <1>0, <2>1, <2>2, <2>3 DEF NoLostWakeup, AwakePcs
<1>9. ASSUME NEW w \in Workers, WakeSpuriously(w)
      PROVE  NoLostWakeup'
  <2>1. wpc[w] = "wait" /\ wpc' = [wpc EXCEPT ![w] = "relock"] /\ queue' = queue
    BY <1>9 DEF WakeSpuriously
  <2>2. Cardinality(WorkersAt(AwakePcs)') = Cardinality(WorkersAt(AwakePcs)) + 1
    <3>1. wpc[w] \notin AwakePcs /\ "relock" \in AwakePcs /\ "relock" \in WorkerPcs
      BY <2>1, <1>a DEF WorkerPcs
    <3>2. QED
      BY <2>1, <3>1, WorkerMoves
  <2>3. WorkersAt({"wait"}) # {}
    BY <2>1 DEF WorkersAt
  <2>4. QED
    BY <1>0, <2>1, <2>2, <2>3 DEF NoLostWakeup, AwakePcs
<1>10. ASSUME NEW c \in Callers,
              \/ \E t \in Tasks : Submit(c, t)
              \/ CallStop(c) \/ CheckInstance(c) \/ LockSig(c) \/ RecheckInstance(c)
              \/ SetRunning(c) \/ StartDone(c) \/ UnlockSig(c) \/ LockForEqueue(c)
              \/ LockForStop(c)
       PROVE  NoLostWakeup'
  BY <1>1, <1>10 DEF Submit, CallStop, CheckInstance, LockSig, RecheckInstance,
     SetRunning, StartDone, UnlockSig, LockForEqueue, LockForStop
<1>11. QED
  BY <1>2, <1>3, <1>4, <1>5, <1>6, <1>7, <1>8, <1>9, <1>10
     DEF Next, CallerStep, GetInstance, WorkerStep

\* Take splits the queue into its head and its tail.
LEMMA HeadThenTail ==
    ASSUME NEW S, NEW s \in Seq(S), s # <<>>
    PROVE  s = <<Head(s)>> \o Tail(s)
<1>1. Head(s) \in S /\ Tail(s) \in Seq(S) /\ Len(Tail(s)) = Len(s) - 1
  BY HeadTailProperties
<1>2. Len(s) \in Nat /\ Len(s) > 0
  OBVIOUS
<1>3. SubSeq(s, 1, Len(s)) = <<s[1]>> \o SubSeq(s, 2, Len(s))
  BY <1>2, SubSeqRecursiveFirst
<1>4. QED
  BY <1>2, <1>3, SubSeqFull, TailIsSubSeq

\* The tasks pushed are the tasks popped followed by the tasks in the queue.
LEMMA FifoHandOffStep ==
    ASSUME Inductive, Next
    PROVE  FifoHandOff'
<1> USE DEF Inductive, TypeOK, CallerAt, WorkerAt, poolVars, workerVars, callerVars,
        flowVars
<1>1. ASSUME UNCHANGED <<queue, accepted, taken>>
      PROVE  FifoHandOff'
  BY <1>1 DEF FifoHandOff
<1>2. ASSUME NEW c \in Callers, NewPool(c)
      PROVE  FifoHandOff'
  BY <1>1, <1>2 DEF NewPool, Unbuilt
<1>3. ASSUME NEW c \in Callers, Equeue(c)
      PROVE  FifoHandOff'
  <2>1. CASE ~isrunning
    BY <1>1, <1>3, <2>1 DEF Equeue, EqueueSignalling
  <2>2. CASE isrunning
    <3>1. arg[c] \in Tasks
      BY <1>3 DEF Equeue, EqueueSignalling, Cargo
    <3>2. /\ queue' = queue \o <<arg[c]>> /\ accepted' = accepted \o <<arg[c]>>
          /\ taken' = taken
      <4>1. /\ queue' = Append(queue, arg[c]) /\ accepted' = Append(accepted, arg[c])
            /\ taken' = taken
        BY <1>3, <2>2 DEF Equeue, EqueueSignalling
      <4>2. QED
        BY <3>1, <4>1, AppendIsConcat
    <3>3. (taken \o queue) \o <<arg[c]>> = taken \o (queue \o <<arg[c]>>)
      <4>1. taken \in Seq(Tasks) /\ queue \in Seq(Tasks) /\ <<arg[c]>> \in Seq(Tasks)
        BY <3>1
      <4> HIDE DEF Inductive, TypeOK
      <4>2. QED
        BY <4>1, ConcatAssociative
    <3>4. QED
      BY <3>2, <3>3 DEF FifoHandOff
  <2>3. QED
    BY <2>1, <2>2
<1>4. ASSUME NEW w \in Workers, Take(w)
      PROVE  FifoHandOff'
  <2>1. queue # <<>> /\ Head(queue) \in Tasks /\ Tail(queue) \in Seq(Tasks)
    BY <1>4 DEF Take, TakeTask
  <2>2. /\ queue' = Tail(queue) /\ taken' = taken \o <<Head(queue)>>
        /\ accepted' = accepted
    BY <1>4, <2>1, AppendIsConcat DEF Take, TakeTask
  <2>3. queue = <<Head(queue)>> \o Tail(queue)
    BY <2>1, HeadThenTail
  <2>4. (taken \o <<Head(queue)>>) \o Tail(queue)
            = taken \o (<<Head(queue)>> \o Tail(queue))
    <3>1. /\ taken \in Seq(Tasks) /\ <<Head(queue)>> \in Seq(Tasks)
          /\ Tail(queue) \in Seq(Tasks)
      BY <2>1
    <3>2. QED
      BY ONLY <3>1, ConcatAssociative
  <2>5. QED
    BY <2>2, <2>3, <2>4 DEF FifoHandOff
<1>5. ASSUME NEW c \in Callers,
             \/ \E t \in Tasks : Submit(c, t)
             \/ CallStop(c) \/ CheckInstance(c) \/ LockSig(c) \/ RecheckInstance(c)
             \/ SetRunning(c) \/ StartThread(c) \/ StartDone(c) \/ UnlockSig(c)
             \/ LockForEqueue(c) \/ LockForStop(c) \/ Stop(c)
      PROVE  FifoHandOff'
  BY <1>1, <1>5 DEF Submit, CallStop, CheckInstance, LockSig, RecheckInstance,
     SetRunning, StartThread, StartDone, UnlockSig, LockForEqueue, LockForStop, Stop
<1>6. ASSUME NEW w \in Workers,
             \/ LockQueue(w) \/ Sleep(w) \/ Relock(w) \/ Quit(w) \/ Run(w)
             \/ WakeSpuriously(w)
      PROVE  FifoHandOff'
  BY <1>1, <1>6 DEF LockQueue, Sleep, Relock, Quit, Run, WakeSpuriously
<1>7. QED
  BY <1>2, <1>3, <1>4, <1>5, <1>6 DEF Next, CallerStep, GetInstance, WorkerStep

-----------------------------------------------------------------------------
(* Tasks are executed once: counting who holds a task and who popped it.   *)

Holding(t) == {w \in Workers : held[w] = t}
Pops(t) == {i \in 1..Len(taken) : taken[i] = t}

LEMMA CountsFinite ==
    ASSUME TypeOK, NEW t
    PROVE  IsFiniteSet(Holding(t)) /\ IsFiniteSet(Pops(t))
<1>1. Holding(t) \in SUBSET Workers /\ Pops(t) \in SUBSET (1..Len(taken))
  BY DEF Holding, Pops
<1>2. IsFiniteSet(1..Len(taken))
  <2>1. 1 \in Int /\ Len(taken) \in Int
    BY DEF TypeOK
  <2>2. QED
    BY <2>1, FS_Interval
<1>3. QED
  BY <1>1, <1>2, FS_Subset, PoolAssumption

\* A pop adds a pop and a holder of its task.
LEMMA TakeCounts ==
    ASSUME Inductive, ExactlyOnce, NEW w \in Workers, Take(w)
    PROVE  ExactlyOnce'
<1> DEFINE h == Head(queue)
<1>1. /\ h \in Tasks /\ held[w] = NoTask /\ ran' = ran
      /\ held' = [held EXCEPT ![w] = h]
      /\ taken' = Append(taken, h)
  <2>1. queue # <<>> /\ queue \in Seq(Tasks) /\ wpc[w] = "check"
    BY DEF Take, TakeTask, WorkerAt, Inductive, TypeOK
  <2>2. QED
    BY <2>1, HeadTailProperties DEF Take, TakeTask, Inductive, Cargo, flowVars
<1>2. /\ held \in [Workers -> Tasks \cup {NoTask}] /\ taken \in Seq(Tasks)
      /\ ran \in [Tasks -> Nat]
  BY DEF Inductive, TypeOK
<1> HIDE DEF h
<1>3. SUFFICES ASSUME NEW t \in Tasks
               PROVE  ran'[t] + Cardinality(Holding(t)') = Cardinality(Pops(t)')
  BY DEF ExactlyOnce, Holding, Pops
<1>4. /\ ran[t] + Cardinality(Holding(t)) = Cardinality(Pops(t))
      /\ ran[t] \in Nat
      /\ Cardinality(Holding(t)) \in Nat /\ Cardinality(Pops(t)) \in Nat
  BY <1>2, CountsFinite, FS_CardinalityType DEF ExactlyOnce, Holding, Pops, Inductive
<1>5. CASE t = h
  <2>1. Holding(t)' = Holding(t) \cup {w} /\ w \notin Holding(t)
    BY <1>1, <1>2, <1>5, PoolAssumption DEF Holding
  <2>2. Pops(t)' = Pops(t) \cup {Len(taken) + 1} /\ Len(taken) + 1 \notin Pops(t)
    BY <1>1, <1>2, <1>5 DEF Pops
  <2>3. /\ Cardinality(Holding(t)') = Cardinality(Holding(t)) + 1
        /\ Cardinality(Pops(t)') = Cardinality(Pops(t)) + 1
    BY <2>1, <2>2, CountsFinite, FS_AddElement DEF Inductive
  <2>4. QED
    BY <1>1, <1>4, <2>3
<1>6. CASE t # h
  <2>1. Holding(t)' = Holding(t)
    BY <1>1, <1>2, <1>6, PoolAssumption DEF Holding
  <2>2. Pops(t)' = Pops(t)
    BY <1>1, <1>2, <1>6 DEF Pops
  <2>3. QED
    BY <1>1, <1>4, <2>1, <2>2
<1>7. QED
  BY <1>5, <1>6

\* A run takes the holder of its task away and counts one execution.
LEMMA RunCounts ==
    ASSUME Inductive, ExactlyOnce, NEW w \in Workers, Run(w)
    PROVE  ExactlyOnce'
<1> DEFINE h == held[w]
<1>1. /\ held \in [Workers -> Tasks \cup {NoTask}] /\ taken \in Seq(Tasks)
      /\ ran \in [Tasks -> Nat]
  BY DEF Inductive, TypeOK
<1>2. /\ h \in Tasks /\ taken' = taken
      /\ ran' = [ran EXCEPT ![h] = @ + 1]
      /\ held' = [held EXCEPT ![w] = NoTask]
  BY <1>1 DEF Run, WorkerAt, Inductive, Cargo
<1>3. SUFFICES ASSUME NEW t \in Tasks
               PROVE  ran'[t] + Cardinality(Holding(t)') = Cardinality(Pops(t)')
  BY DEF ExactlyOnce, Holding, Pops
<1>4. /\ ran[t] + Cardinality(Holding(t)) = Cardinality(Pops(t))
      /\ ran[t] \in Nat
      /\ Cardinality(Holding(t)) \in Nat /\ Cardinality(Pops(t)) \in Nat
  BY <1>1, CountsFinite, FS_CardinalityType DEF ExactlyOnce, Holding, Pops, Inductive
<1>5. Pops(t)' = Pops(t)
  BY <1>2 DEF Pops
<1>6. CASE t = h
  <2>1. Holding(t)' = Holding(t) \ {w} /\ w \in Holding(t)
    BY <1>1, <1>2, <1>6, PoolAssumption DEF Holding
  <2>2. Cardinality(Holding(t)') = Cardinality(Holding(t)) - 1
    BY <2>1, CountsFinite, FS_RemoveElement DEF Inductive
  <2>3. ran'[t] = ran[t] + 1
    BY <1>1, <1>2, <1>6
  <2>4. QED
    BY <1>4, <1>5, <2>2, <2>3
<1>7. CASE t # h
  <2>1. Holding(t)' = Holding(t)
    BY <1>1, <1>2, <1>7, PoolAssumption DEF Holding
  <2>2. ran'[t] = ran[t]
    BY <1>1, <1>2, <1>7
  <2>3. QED
    BY <1>4, <1>5, <2>1, <2>2
<1>8. QED
  BY <1>6, <1>7

\* No other step touches what is counted.
LEMMA ExactlyOnceStep ==
    ASSUME Inductive, ExactlyOnce, [Next]_vars
    PROVE  ExactlyOnce'
<1>1. ASSUME UNCHANGED <<held, ran, taken>>
      PROVE  ExactlyOnce'
  BY <1>1 DEF ExactlyOnce
<1> USE DEF poolVars, workerVars, callerVars, flowVars
<1>2. ASSUME NEW c \in Callers,
             CallerStep(c) \/ CallStop(c) \/ \E t \in Tasks : Submit(c, t)
      PROVE  ExactlyOnce'
  BY <1>1, <1>2 DEF CallerStep, GetInstance, Submit, CallStop, CheckInstance, LockSig,
     RecheckInstance, NewPool, SetRunning, StartThread, StartDone, UnlockSig,
     LockForEqueue, LockForStop, Stop, Equeue, EqueueSignalling
<1>3. ASSUME NEW w \in Workers,
             \/ LockQueue(w) \/ Sleep(w) \/ Relock(w) \/ Quit(w) \/ WakeSpuriously(w)
      PROVE  ExactlyOnce'
  BY <1>1, <1>3 DEF LockQueue, Sleep, Relock, Quit, WakeSpuriously
<1>4. CASE UNCHANGED vars
  BY <1>1, <1>4 DEF vars
<1>5. QED
  BY <1>2, <1>3, <1>4, TakeCounts, RunCounts DEF Next, CallerStep, GetInstance, WorkerStep

LEMMA ExactlyOnceInit == Init => ExactlyOnce
<1> SUFFICES ASSUME Init, NEW t \in Tasks
             PROVE  ran[t] + Cardinality(Holding(t)) = Cardinality(Pops(t))
  BY DEF ExactlyOnce, Holding, Pops
<1>1. Holding(t) = {} /\ Pops(t) = {} /\ ran[t] = 0
  BY PoolAssumption DEF Init, Holding, Pops
<1>2. QED
  BY <1>1, FS_EmptySet

-----------------------------------------------------------------------------
\* The program starts in the invariant,
LEMMA InductiveInit == Init => Inductive
<1> SUFFICES ASSUME Init PROVE Inductive
  OBVIOUS
<1> USE PoolAssumption DEF Init
<1>1. Control
  <2>1. <<>> \in Seq(Tasks)
    OBVIOUS
  <2>2. TypeOK
    BY <2>1 DEF TypeOK, WorkerPcs, CallerPcs
  <2>3. Owners /\ Cargo
    BY DEF Owners, Cargo
  <2>4. Unbuilt /\ Unstarted /\ SingleInstance
    BY DEF Unbuilt, Unstarted, SingleInstance
  <2>5. QED
    BY <2>2, <2>3, <2>4 DEF Control
<1>2. Sleeping = {} /\ Waiting = {}
  BY DEF Sleeping, Waiting, WorkersAt
<1>3. SleepCountExact /\ NoLostWakeup
  BY <1>2, FS_EmptySet DEF SleepCountExact, NoLostWakeup
<1>4. FifoHandOff
  <2>1. <<>> \in Seq(Tasks)
    OBVIOUS
  <2>2. QED
    BY <2>1, ConcatEmptySeq DEF FifoHandOff
<1>5. QED
  BY <1>1, <1>3, <1>4 DEF Inductive, Control

\* keeps it,
LEMMA InductiveStep == Inductive /\ [Next]_vars => Inductive'
<1> SUFFICES ASSUME Inductive, [Next]_vars PROVE Inductive'
  OBVIOUS
<1>1. CASE Next
  BY <1>1, ControlStep, SleepCountStep, NoLostWakeupStep, FifoHandOffStep
     DEF Inductive, Control
<1>2. CASE UNCHANGED vars
  BY <1>2 DEF vars, Inductive, TypeOK, Owners, Cargo, Unbuilt, Unstarted,
     SingleInstance, SleepCountExact, NoLostWakeup, FifoHandOff, Sleeping, Waiting,
     Awake, WorkersAt
<1>3. QED
  BY <1>1, <1>2

\* and so never leaves it.
LEMMA Invariance == Spec => []Inductive
BY InductiveInit, InductiveStep, PTL DEF Spec

\* The variables of the pool stay within their types.
THEOREM TypeCorrect == Spec => []TypeOK
BY Invariance, PTL DEF Inductive

\* At most one pool is constructed by GetInstance (ThreadPool.hpp:127-146), however
\* many threads call it first.
THEOREM OnePool == Spec => []SingleInstance
BY Invariance, PTL DEF Inductive

\* _sleep_thread_num counts the sleeping workers (ThreadPool.hpp:63-67).
THEOREM SleepCounted == Spec => []SleepCountExact
BY Invariance, PTL DEF Inductive

\* Equeue wakes enough workers (ThreadPool.hpp:154), whatever their number: tasks
\* never outnumber the workers on their way to the queue while another one sleeps.
THEOREM WakeupsSuffice == Spec => []NoLostWakeup
BY Invariance, PTL DEF Inductive

\* Between Equeue and HandlerTask no task is lost, duplicated or overtaken.
THEOREM HandOffInOrder == Spec => []FifoHandOff
BY Invariance, PTL DEF Inductive

\* _mutex is never held by two threads: a worker at its test of the queue, a caller
\* in Equeue and a caller in Stop exclude one another.
THEOREM QueueExclusion == Spec => []Owners
BY Invariance, PTL DEF Inductive

\* A task that HandlerTask has popped is executed exactly once, by the worker that
\* popped it (ThreadPool.hpp:76-82), whatever the number of workers.
THEOREM EveryTaskOnce == Spec => []ExactlyOnce
<1>1. Inductive /\ ExactlyOnce /\ [Next]_vars => ExactlyOnce'
  BY ExactlyOnceStep
<1>2. QED
  BY <1>1, ExactlyOnceInit, Invariance, PTL DEF Spec
=============================================================================
