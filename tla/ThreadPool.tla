----------------------------- MODULE ThreadPool -----------------------------
(***************************************************************************)
(* The singleton thread pool of the chat server                            *)
(* (Socket/3. chat_server/ThreadPool.hpp): GetInstance with its double     *)
(* check of _tp, Equeue, Stop, and the loop HandlerTask of every worker,   *)
(* interleaved at the operations on the two mutexes and on the condition   *)
(* variable.  What runs between a lock and its unlock is one action; the   *)
(* mutexes themselves are state, so that a thread can be found holding     *)
(* one, waiting for one, or blocked in pthread_cond_wait.                  *)
(*                                                                         *)
(* pthread_cond_wait may return without a signal (WakeSpuriously), and     *)
(* pthread_create may fail (StartThread), as POSIX lets them.              *)
(***************************************************************************)
EXTENDS Naturals, Sequences, FiniteSets

CONSTANTS Callers,   (* threads that use the pool: GetInstance, Equeue, Stop *)
          Workers,   (* the elements of _threads                             *)
          Tasks,     (* the tasks handed to Equeue, each at most once        *)
          NoThread,  (* owner of a free mutex                                *)
          NoTask     (* a thread that holds no task                          *)

ASSUME PoolAssumption ==
    /\ IsFiniteSet(Workers)
    /\ Callers \cap Workers = {}
    /\ NoThread \notin Callers \cup Workers
    /\ NoTask \notin Tasks

VARIABLES
    tp,         \* _tp # nullptr: a pool has been published
    sigMutex,   \* owner of _sig_mutex
    mutex,      \* owner of _mutex
    isrunning,  \* _isrunning
    queue,      \* _task_queue
    sleepNum,   \* _sleep_thread_num
    unstarted,  \* threads the loop of Start has not visited yet
    wpc,        \* where each worker is in HandlerTask
    held,       \* the local t of each worker
    cpc,        \* where each caller is
    arg,        \* the argument of Equeue of each caller
    issued,     \* history: the tasks callers have handed over so far
    accepted,   \* history: the tasks pushed, in the order of the pushes
    taken,      \* history: the tasks popped, in the order of the pops
    ran,        \* history: how often each task has been executed
    builds,     \* history: how many pools have been constructed
    stopped     \* history: a call of Stop has cleared _isrunning

poolVars   == <<tp, sigMutex, isrunning, unstarted, builds>>
workerVars == <<wpc, held>>
callerVars == <<cpc, arg, issued>>
flowVars   == <<accepted, taken, ran>>
vars == <<tp, sigMutex, mutex, isrunning, queue, sleepNum, unstarted, wpc, held,
          cpc, arg, issued, accepted, taken, ran, builds, stopped>>

CallerPcs == {"idle", "check", "siglock", "recheck", "new", "run", "start",
              "sigunlock", "eqlock", "equeue", "stoplock", "stop"}
WorkerPcs == {"unborn", "lock", "check", "wait", "relock", "run", "quit"}

WorkersAt(pcs) == {w \in Workers : wpc[w] \in pcs}

\* Blocked in pthread_cond_wait.
Waiting  == WorkersAt({"wait"})
\* Between the increment and the decrement of _sleep_thread_num.
Sleeping == WorkersAt({"wait", "relock"})
\* Will look at the queue again without being signalled.
Awake    == WorkersAt({"lock", "check", "relock", "run"})

Init ==
    /\ tp = FALSE
    /\ sigMutex = NoThread
    /\ mutex = NoThread
    /\ isrunning = FALSE
    /\ queue = <<>>
    /\ sleepNum = 0
    /\ unstarted = Workers
    /\ wpc = [w \in Workers |-> "unborn"]
    /\ held = [w \in Workers |-> NoTask]
    /\ cpc = [c \in Callers |-> "idle"]
    /\ arg = [c \in Callers |-> NoTask]
    /\ issued = {}
    /\ accepted = <<>>
    /\ taken = <<>>
    /\ ran = [t \in Tasks |-> 0]
    /\ builds = 0
    /\ stopped = FALSE

CallerAt(c, from, to) == cpc[c] = from /\ cpc' = [cpc EXCEPT ![c] = to]
WorkerAt(w, from, to) == wpc[w] = from /\ wpc' = [wpc EXCEPT ![w] = to]

\* pthread_cond_signal wakes one of the waiting threads, if there is one.
Wakeup ==
    IF Waiting = {}
    THEN UNCHANGED wpc
    ELSE \E w \in Waiting : wpc' = [wpc EXCEPT ![w] = "relock"]

-----------------------------------------------------------------------------
(* GetInstance()->Equeue(t)                                                *)

\* A caller begins ThreadPool::GetInstance()->Equeue(t).
Submit(c, t) ==
    /\ t \notin issued
    /\ CallerAt(c, "idle", "check")
    /\ arg' = [arg EXCEPT ![c] = t]
    /\ issued' = issued \cup {t}
    /\ UNCHANGED <<poolVars, workerVars, flowVars, mutex, queue, sleepNum, stopped>>

\* The first, unlocked, test of _tp.
CheckInstance(c) ==
    /\ \/ tp /\ CallerAt(c, "check", "eqlock")
       \/ ~tp /\ CallerAt(c, "check", "siglock")
    /\ UNCHANGED <<poolVars, workerVars, flowVars, arg, issued, mutex, queue,
                   sleepNum, stopped>>

LockSig(c) ==
    /\ sigMutex = NoThread
    /\ CallerAt(c, "siglock", "recheck")
    /\ sigMutex' = c
    /\ UNCHANGED <<tp, isrunning, unstarted, builds, workerVars, flowVars, arg,
                   issued, mutex, queue, sleepNum, stopped>>

\* Mutant: the second test is missing.
RecheckInstanceMissing(c) ==
    /\ CallerAt(c, "recheck", "new")
    /\ UNCHANGED <<poolVars, workerVars, flowVars, arg, issued, mutex, queue,
                   sleepNum, stopped>>

\* The second test, under _sig_mutex.
RecheckInstance(c) ==
    /\ \/ tp /\ CallerAt(c, "recheck", "sigunlock")
       \/ ~tp /\ CallerAt(c, "recheck", "new")
    /\ UNCHANGED <<poolVars, workerVars, flowVars, arg, issued, mutex, queue,
                   sleepNum, stopped>>

\* _tp = new ThreadPool(): from here on the pointer is visible to every caller,
\* although _isrunning is still false and no thread exists.  The constructor has
\* run by then: it calls into libpthread, which the store cannot be moved across.
NewPool(c) ==
    /\ CallerAt(c, "new", "run")
    /\ tp' = TRUE
    /\ builds' = builds + 1
    /\ isrunning' = FALSE
    /\ sleepNum' = 0
    /\ queue' = <<>>
    /\ UNCHANGED <<sigMutex, unstarted, workerVars, flowVars, arg, issued, mutex,
                   stopped>>

\* Init, which only fills _threads, and the first statement of Start.
SetRunning(c) ==
    /\ CallerAt(c, "run", "start")
    /\ isrunning' = TRUE
    /\ UNCHANGED <<tp, sigMutex, unstarted, builds, workerVars, flowVars, arg,
                   issued, mutex, queue, sleepNum, stopped>>

\* One round of the loop of Start.  A pthread_create that fails makes
\* Thread::Start return false, which Start of the pool ignores.
StartThread(c) ==
    /\ cpc[c] = "start"
    /\ \E w \in unstarted :
        /\ unstarted' = unstarted \ {w}
        /\ \/ WorkerAt(w, "unborn", "lock")
           \/ UNCHANGED wpc
    /\ UNCHANGED <<tp, sigMutex, isrunning, builds, held, callerVars, flowVars,
                   mutex, queue, sleepNum, stopped>>

StartDone(c) ==
    /\ unstarted = {}
    /\ CallerAt(c, "start", "sigunlock")
    /\ UNCHANGED <<poolVars, workerVars, flowVars, arg, issued, mutex, queue,
                   sleepNum, stopped>>

\* The LockGuard goes out of scope and GetInstance returns _tp.
UnlockSig(c) ==
    /\ CallerAt(c, "sigunlock", "eqlock")
    /\ sigMutex' = NoThread
    /\ UNCHANGED <<tp, isrunning, unstarted, builds, workerVars, flowVars, arg,
                   issued, mutex, queue, sleepNum, stopped>>

LockForEqueue(c) ==
    /\ mutex = NoThread
    /\ CallerAt(c, "eqlock", "equeue")
    /\ mutex' = c
    /\ UNCHANGED <<poolVars, workerVars, flowVars, arg, issued, queue, sleepNum,
                   stopped>>

\* The body of Equeue and its UnlockQueue, given the test made before the signal.
\* The task is silently discarded when _isrunning is false.
EqueueSignalling(c, signal) ==
    /\ CallerAt(c, "equeue", "idle")
    /\ \/ /\ isrunning
          /\ queue' = Append(queue, arg[c])
          /\ accepted' = Append(accepted, arg[c])
          /\ IF signal THEN Wakeup ELSE UNCHANGED wpc
       \/ /\ ~isrunning
          /\ UNCHANGED <<queue, accepted, wpc>>
    /\ arg' = [arg EXCEPT ![c] = NoTask]
    /\ mutex' = NoThread
    /\ UNCHANGED <<poolVars, held, taken, ran, issued, sleepNum, stopped>>

\* Mutant: signal only on the transition from empty to non-empty.
EqueueSignalIfEmpty(c) == EqueueSignalling(c, queue = <<>>)

\* Mutant: no signal.
EqueueSilently(c) == EqueueSignalling(c, FALSE)

\* Equeue signals when it believes that somebody sleeps.
Equeue(c) == EqueueSignalling(c, sleepNum > 0)

-----------------------------------------------------------------------------
(* Stop                                                                    *)

\* Bound: no caller begins a Stop once a Stop has taken effect (several may be
\* under way); a second one would change nothing.
CallStop(c) ==
    /\ tp /\ ~stopped
    /\ CallerAt(c, "idle", "stoplock")
    /\ UNCHANGED <<poolVars, workerVars, flowVars, arg, issued, mutex, queue,
                   sleepNum, stopped>>

LockForStop(c) ==
    /\ mutex = NoThread
    /\ CallerAt(c, "stoplock", "stop")
    /\ mutex' = c
    /\ UNCHANGED <<poolVars, workerVars, flowVars, arg, issued, queue, sleepNum,
                   stopped>>

\* Mutant: pthread_cond_signal instead of pthread_cond_broadcast.
StopWakingOne(c) ==
    /\ CallerAt(c, "stop", "idle")
    /\ isrunning' = FALSE
    /\ stopped' = TRUE
    /\ Wakeup
    /\ mutex' = NoThread
    /\ UNCHANGED <<tp, sigMutex, unstarted, builds, held, flowVars, arg, issued,
                   queue, sleepNum>>

\* _isrunning = false, pthread_cond_broadcast, unlock.
Stop(c) ==
    /\ CallerAt(c, "stop", "idle")
    /\ isrunning' = FALSE
    /\ stopped' = TRUE
    /\ wpc' = [w \in Workers |-> IF wpc[w] = "wait" THEN "relock" ELSE wpc[w]]
    /\ mutex' = NoThread
    /\ UNCHANGED <<tp, sigMutex, unstarted, builds, held, flowVars, arg, issued,
                   queue, sleepNum>>

-----------------------------------------------------------------------------
(* HandlerTask                                                             *)

LockQueue(w) ==
    /\ mutex = NoThread
    /\ WorkerAt(w, "lock", "check")
    /\ mutex' = w
    /\ UNCHANGED <<poolVars, held, callerVars, flowVars, queue, sleepNum, stopped>>

\* Mutant: the sleeper is not counted.
SleepUncounted(w) ==
    /\ queue = <<>> /\ isrunning
    /\ WorkerAt(w, "check", "wait")
    /\ mutex' = NoThread
    /\ UNCHANGED <<poolVars, held, callerVars, flowVars, queue, sleepNum, stopped>>

\* while (IsEmpty() && _isrunning): count oneself and wait, which releases _mutex.
Sleep(w) ==
    /\ queue = <<>> /\ isrunning
    /\ WorkerAt(w, "check", "wait")
    /\ sleepNum' = sleepNum + 1
    /\ mutex' = NoThread
    /\ UNCHANGED <<poolVars, held, callerVars, flowVars, queue, stopped>>

WakeSpuriously(w) ==
    /\ WorkerAt(w, "wait", "relock")
    /\ UNCHANGED <<poolVars, held, callerVars, flowVars, mutex, queue, sleepNum,
                   stopped>>

\* Mutant: the sleeper stays counted.
RelockUncounted(w) ==
    /\ mutex = NoThread
    /\ WorkerAt(w, "relock", "check")
    /\ mutex' = w
    /\ UNCHANGED <<poolVars, held, callerVars, flowVars, queue, sleepNum, stopped>>

\* pthread_cond_wait returns once it has _mutex again.
Relock(w) ==
    /\ mutex = NoThread
    /\ WorkerAt(w, "relock", "check")
    /\ mutex' = w
    /\ sleepNum' = sleepNum - 1
    /\ UNCHANGED <<poolVars, held, callerVars, flowVars, queue, stopped>>

\* Mutant: a worker quits although tasks are left.
QuitEarly(w) ==
    /\ ~isrunning
    /\ WorkerAt(w, "check", "quit")
    /\ mutex' = NoThread
    /\ UNCHANGED <<poolVars, held, callerVars, flowVars, queue, sleepNum, stopped>>

Quit(w) ==
    /\ queue = <<>> /\ ~isrunning
    /\ WorkerAt(w, "check", "quit")
    /\ mutex' = NoThread
    /\ UNCHANGED <<poolVars, held, callerVars, flowVars, queue, sleepNum, stopped>>

\* The worker leaves with task t, and rest is what remains in the queue.
TakeTask(w, t, rest) ==
    /\ queue # <<>>
    /\ WorkerAt(w, "check", "run")
    /\ held' = [held EXCEPT ![w] = t]
    /\ queue' = rest
    /\ taken' = Append(taken, t)
    /\ mutex' = NoThread
    /\ UNCHANGED <<poolVars, callerVars, accepted, ran, sleepNum, stopped>>

\* Mutant: the newest task first.
TakeNewest(w) == TakeTask(w, queue[Len(queue)], SubSeq(queue, 1, Len(queue) - 1))

\* front() and pop()
Take(w) == TakeTask(w, Head(queue), Tail(queue))

\* Mutant: the task is not dropped after it has run.
RunAndKeep(w) ==
    /\ WorkerAt(w, "run", "lock")
    /\ ran' = [ran EXCEPT ![held[w]] = @ + 1]
    /\ UNCHANGED <<poolVars, held, callerVars, accepted, taken, mutex, queue,
                   sleepNum, stopped>>

\* t() returns; the worker goes back to the head of its loop.
Run(w) ==
    /\ WorkerAt(w, "run", "lock")
    /\ ran' = [ran EXCEPT ![held[w]] = @ + 1]
    /\ held' = [held EXCEPT ![w] = NoTask]
    /\ UNCHANGED <<poolVars, callerVars, accepted, taken, mutex, queue, sleepNum,
                   stopped>>

-----------------------------------------------------------------------------
GetInstance(c) ==
    \/ CheckInstance(c) \/ LockSig(c) \/ RecheckInstance(c) \/ NewPool(c)
    \/ SetRunning(c) \/ StartThread(c) \/ StartDone(c) \/ UnlockSig(c)

\* What a caller does once it has begun a call.
CallerStep(c) ==
    \/ GetInstance(c) \/ LockForEqueue(c) \/ Equeue(c)
    \/ LockForStop(c) \/ Stop(c)

\* What a worker does by itself, the execution of the task apart.
WorkerStep(w) ==
    \/ LockQueue(w) \/ Sleep(w) \/ Relock(w) \/ Quit(w) \/ Take(w)

Next ==
    \/ \E c \in Callers : \/ \E t \in Tasks : Submit(c, t)
                          \/ CallStop(c)
                          \/ CallerStep(c)
    \/ \E w \in Workers : WorkerStep(w) \/ Run(w) \/ WakeSpuriously(w)

Spec == Init /\ [][Next]_vars

\* Every thread that can take a step of a call or of its loop is scheduled
\* eventually, and every task terminates.  Nobody has to begin a call, and
\* spurious wakeups need not happen.
Fairness ==
    /\ \A c \in Callers : WF_vars(CallerStep(c))
    /\ \A w \in Workers : WF_vars(WorkerStep(w) \/ Run(w))

FairSpec == Spec /\ Fairness

-----------------------------------------------------------------------------
(* Properties                                                              *)

\* The variables stay within their types.
TypeOK ==
    /\ tp \in BOOLEAN /\ isrunning \in BOOLEAN /\ stopped \in BOOLEAN
    /\ sigMutex \in Callers \cup {NoThread}
    /\ mutex \in Callers \cup Workers \cup {NoThread}
    /\ queue \in Seq(Tasks) /\ accepted \in Seq(Tasks) /\ taken \in Seq(Tasks)
    /\ sleepNum \in Nat /\ builds \in Nat
    /\ unstarted \in SUBSET Workers
    /\ wpc \in [Workers -> WorkerPcs]
    /\ held \in [Workers -> Tasks \cup {NoTask}]
    /\ cpc \in [Callers -> CallerPcs]
    /\ arg \in [Callers -> Tasks \cup {NoTask}]
    /\ issued \in SUBSET Tasks
    /\ ran \in [Tasks -> Nat]

\* However many threads race in GetInstance (ThreadPool.hpp:127-146), at most
\* one pool is ever constructed, and none is published before it exists.
SingleInstance == builds = IF tp THEN 1 ELSE 0

\* _sleep_thread_num is exactly the number of workers between its increment and
\* its decrement (ThreadPool.hpp:63-67), so Equeue never skips a needed signal.
SleepCountExact == sleepNum = Cardinality(Sleeping)

\* Work conservation: while some worker is blocked in pthread_cond_wait there are
\* at least as many workers on their way to the queue as there are tasks in it.
\* A lost wakeup, a task left behind with everyone asleep, would break it.
NoLostWakeup == Waiting # {} => Len(queue) <= Cardinality(Awake)

\* Tasks leave the queue in the order in which Equeue accepted them: none is
\* lost, duplicated or overtaken between the callers and the workers.
FifoHandOff == accepted = taken \o queue

\* Every task a worker has popped is executed exactly once, by the worker that
\* popped it: it is still held by one worker or has run once, never both.
ExactlyOnce ==
    \A t \in Tasks :
        ran[t] + Cardinality({w \in Workers : held[w] = t})
            = Cardinality({i \in 1..Len(taken) : taken[i] = t})

\* The tasks whose Equeue has returned without pushing them.
Dropped ==
    {t \in issued : /\ \A i \in 1..Len(accepted) : accepted[i] # t
                    /\ \A c \in Callers : arg[c] # t}

\* A task is discarded only when Stop has been called (ThreadPool.hpp:151).
DroppedOnlyAfterStop == Dropped # {} => stopped

\* Every accepted task is executed, also when Stop is called before a worker has
\* reached it (ThreadPool.hpp:70: a worker quits only on an empty queue), as soon
\* as at least one thread of the pool could be created.
AcceptedRuns ==
    \A t \in Tasks :
        (/\ \E i \in 1..Len(accepted) : accepted[i] = t
         /\ WorkersAt({"unborn"}) # Workers) ~> (ran[t] = 1)

\* A Stop that Start cannot undo any more: Start sets _isrunning without _mutex
\* (ThreadPool.hpp:100), and _tp lets another thread call Stop before that.
StopInEffect == stopped /\ ~isrunning /\ \A c \in Callers : cpc[c] # "run"

\* Every thread that was created then leaves HandlerTask (ThreadPool.hpp:121).
StopTerminates ==
    StopInEffect ~> \A w \in Workers : wpc[w] \in {"unborn", "quit"}
=============================================================================
