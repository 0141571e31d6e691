------------------------------- MODULE TeachPool -------------------------------
(***************************************************************************)
(* The pool of Thread_Pool/Teach_ThreadPool.hpp with the tasks of Task.hpp *)
(* and the main thread of Main_Teach.cpp.  Whatever is done with the mutex *)
(* held is one action, as pthread_cond_wait gives the mutex up in the same *)
(* moment as it begins to wait; tasks run without it.                      *)
(***************************************************************************)
EXTENDS Integers, Sequences, FiniteSets

CONSTANTS Workers,
          Tasks,   (* the tasks main may make, as <<data1_, data2_, oper_>> *)
          MaxPush  (* bound: tasks main makes                               *)

TeachPoolAssumption ==
    /\ MaxPush \in Nat
    /\ Tasks \subseteq (Nat \X Nat \X STRING)

VARIABLES
    pc,     \* where each worker is
    tasks,  \* tasks_, each task with the number of its push
    held,   \* the task each worker has taken
    pushed, \* what main has pushed
    done    \* the outcomes of each push

vars == <<pc, tasks, held, pushed, done>>

Goto(w, place) == pc' = [pc EXCEPT ![w] = place]
At(place) == {w \in Workers : pc[w] = place}

Init ==
    /\ pc = [w \in Workers |-> "off"]
    /\ tasks = <<>> /\ pushed = <<>>
    /\ held = [w \in Workers |-> 0]
    /\ done = [k \in 1..MaxPush |-> <<>>]

-----------------------------------------------------------------------------
(* Task                                                                    *)

Succeed(result) == [result |-> result, exitcode |-> "ok"]
Fail(exitcode) == [result |-> 0, exitcode |-> exitcode]

RunTask(task) ==
    LET x == task[1]
        y == task[2]
    IN  CASE task[3] = "+" -> Succeed(x + y)
          [] task[3] = "-" -> Succeed(x - y)
          [] task[3] = "*" -> Succeed(x * y)
          [] task[3] = "/" -> IF y = 0 THEN Fail("DivZero") ELSE Succeed(x \div y)
          [] task[3] = "%" -> IF y = 0 THEN Fail("ModZero") ELSE Succeed(x % y)
          [] OTHER -> Fail("Unknown")

-----------------------------------------------------------------------------
(* The main thread                                                         *)

\* Nobody looks whether pthread_create has made the thread.
StartWorker(w) ==
    /\ pc[w] = "off" /\ pushed = <<>>
    /\ Goto(w, "lock") \/ Goto(w, "failed")
    /\ UNCHANGED <<tasks, held, pushed, done>>

\* pthread_cond_signal wakes one of those that wait.
Wakeup ==
    IF At("asleep") = {} THEN UNCHANGED pc
                         ELSE \E w \in At("asleep") : Goto(w, "lock")

\* Once all threads have been started main makes tasks of random numbers for ever.
MakeTask ==
    /\ At("off") = {} /\ Len(pushed) < MaxPush
    /\ \E t \in Tasks : pushed' = Append(pushed, t)

\* Mutant: a signal only for the first task in the queue.
PushSignalIfEmpty ==
    /\ MakeTask
    /\ tasks' = Append(tasks, Len(pushed'))
    /\ IF tasks = <<>> THEN Wakeup ELSE UNCHANGED pc
    /\ UNCHANGED <<held, done>>

Push ==
    /\ MakeTask
    /\ tasks' = Append(tasks, Len(pushed'))
    /\ Wakeup
    /\ UNCHANGED <<held, done>>

-----------------------------------------------------------------------------
(* HandlerTask                                                             *)

ThreadSleep(w) ==
    /\ pc[w] = "lock" /\ tasks = <<>>
    /\ Goto(w, "asleep")
    /\ UNCHANGED <<tasks, held, pushed, done>>

SpuriousWakeup(w) ==
    /\ pc[w] = "asleep" /\ Goto(w, "lock")
    /\ UNCHANGED <<tasks, held, pushed, done>>

\* Mutant: front, but the pop comes with the end of the task.
TakeLeaving(w) ==
    /\ pc[w] = "lock" /\ tasks # <<>> /\ Goto(w, "run")
    /\ held' = [held EXCEPT ![w] = Head(tasks)]
    /\ UNCHANGED <<tasks, pushed, done>>

Take(w) ==
    /\ pc[w] = "lock" /\ tasks # <<>> /\ Goto(w, "run")
    /\ held' = [held EXCEPT ![w] = Head(tasks)]
    /\ tasks' = Tail(tasks)
    /\ UNCHANGED <<pushed, done>>

Run(w) ==
    /\ pc[w] = "run" /\ Goto(w, "lock")
    /\ done' = [done EXCEPT ![held[w]] = Append(@, RunTask(pushed[held[w]]))]
    /\ UNCHANGED <<tasks, held, pushed>>

-----------------------------------------------------------------------------
WorkerStep(w) == StartWorker(w) \/ ThreadSleep(w) \/ Take(w) \/ Run(w)

Next == Push \/ \E w \in Workers : WorkerStep(w) \/ SpuriousWakeup(w)

Spec == Init /\ [][Next]_vars

-----------------------------------------------------------------------------
(* Properties                                                              *)

\* The outcome of a task is right: an exit code tells of a divisor of zero and of
\* nothing else, a quotient and a remainder are those of the division
\* (Task.hpp:23-48).
RightOutcome(task, outcome) ==
    LET x == task[1]
        y == task[2]
        r == outcome.result
    IN  /\ outcome.exitcode \in {"DivZero", "ModZero"} <=> y = 0 /\ task[3] \in {"/", "%"}
        /\ outcome.exitcode = "ok" =>
             /\ task[3] = "/" => r * y <= x /\ x < (r + 1) * y
             /\ task[3] = "%" => r < y /\ \E q \in 0..x : q * y + r = x

\* Every task is run by one worker, and its outcome is right
\* (Teach_ThreadPool.hpp:63-71).
RunOnce ==
    \A k \in DOMAIN pushed :
        /\ Len(done[k]) <= 1
        /\ \A n \in DOMAIN done[k] : RightOutcome(pushed[k], done[k][n])

\* While a worker sleeps there are awake workers for all tasks in the queue
\* (Teach_ThreadPool.hpp:64-66, 85-88).
NoneOverslept == At("asleep") # {} => Len(tasks) <= Cardinality(At("lock"))

\* Every task pushed is run unless not a single worker could be made.
Pending(k) == k <= Len(pushed) /\ At("failed") # Workers
=============================================================================
