------------------------------- MODULE StopPool -------------------------------
(***************************************************************************)
(* The pool of My_Thread_Pool_Test.hpp and the main thread of              *)
(* My_Thread_Pool_Test.cc: threads that take tasks until the destructor    *)
(* stops them.  What is done with QueueMutex held is one action.           *)
(*                                                                         *)
(* As committed the vector of threads is empty and its elements are        *)
(* written: address 0 plus an index, where the program dies in its first   *)
(* pthread_create.  Sized says that the vector has its elements, which the *)
(* rest of the pool is written for; they are zero then until a thread is   *)
(* made, and pthread_join of such an element crashes, too.                 *)
(***************************************************************************)
EXTENDS Integers, Sequences, FiniteSets

CONSTANTS Workers, (* 1..threadsNum                     *)
          MaxTasks,(* the tasks of main, 10             *)
          Sized    (* the vector has room for a pthread_t of each thread *)

StopPoolAssumption ==
    Workers = 1..Cardinality(Workers) /\ MaxTasks \in Nat /\ Sized \in BOOLEAN

VARIABLES
    pc,    \* where each worker is
    main,  \* where main is: what it does and, in a loop, for which number
    tasks, \* TaskQueue
    stop,
    held,  \* the task of each worker
    done   \* how often each task was run

vars == <<pc, main, tasks, stop, held, done>>

At(what, n) == [what |-> what, number |-> n]
Over == main.what \in {"returned", "crashed"}
Asleep == {w \in Workers : pc[w] = "asleep"}
Goto(w, place) == pc' = [pc EXCEPT ![w] = place]

Init ==
    /\ pc = [w \in Workers |-> "off"]
    /\ main = At("create", 1)
    /\ tasks = <<>> /\ stop = FALSE
    /\ held = [w \in Workers |-> 0]
    /\ done = [k \in 1..MaxTasks |-> 0]

-----------------------------------------------------------------------------
(* main                                                                    *)

\* One round of the constructor; a failure is reported and no more.
CreateThread ==
    LET w == main.number
    IN  /\ main.what = "create" /\ w \in Workers
        /\ \/ ~Sized /\ main' = At("crashed", 0) /\ UNCHANGED pc
           \/ /\ Sized /\ (Goto(w, "lock") \/ Goto(w, "failed"))
              /\ main' = IF w + 1 \in Workers THEN At("create", w + 1) ELSE At("add", 1)
        /\ UNCHANGED <<tasks, stop, held, done>>

\* pthread_cond_signal
WakeOne == IF Asleep = {} THEN UNCHANGED pc ELSE \E w \in Asleep : Goto(w, "lock")

AddTask ==
    /\ main.what = "add" /\ main.number <= MaxTasks
    /\ tasks' = Append(tasks, main.number)
    /\ WakeOne
    /\ main' = At("add", main.number + 1)
    /\ UNCHANGED <<stop, held, done>>

\* Mutant: one thread is woken.
StopWakingOne ==
    /\ main.what = "add" /\ main.number > MaxTasks
    /\ stop' = TRUE
    /\ WakeOne
    /\ main' = At("join", 1)
    /\ UNCHANGED <<tasks, held, done>>

\* The destructor, at the end of main
Stop ==
    /\ main.what = "add" /\ main.number > MaxTasks
    /\ stop' = TRUE
    /\ pc' = [w \in Workers |-> IF w \in Asleep THEN "lock" ELSE pc[w]]
    /\ main' = At("join", 1)
    /\ UNCHANGED <<tasks, held, done>>

Join ==
    LET w == main.number
    IN  /\ main.what = "join" /\ w \in Workers
        /\ \/ pc[w] = "failed" /\ main' = At("crashed", 0)
           \/ /\ pc[w] = "quit"
              /\ main' = IF w + 1 \in Workers THEN At("join", w + 1) ELSE At("returned", 0)
        /\ UNCHANGED <<pc, tasks, stop, held, done>>

-----------------------------------------------------------------------------
(* Work                                                                    *)

Wait(w) ==
    /\ ~Over /\ pc[w] = "lock" /\ tasks = <<>> /\ ~stop
    /\ Goto(w, "asleep")
    /\ UNCHANGED <<main, tasks, stop, held, done>>

SpuriousWakeup(w) ==
    /\ ~Over /\ pc[w] = "asleep" /\ Goto(w, "lock")
    /\ UNCHANGED <<main, tasks, stop, held, done>>

\* Mutant: stop is enough to quit.
QuitAtOnce(w) ==
    /\ ~Over /\ pc[w] = "lock" /\ stop
    /\ Goto(w, "quit")
    /\ UNCHANGED <<main, tasks, stop, held, done>>

Quit(w) ==
    /\ ~Over /\ pc[w] = "lock" /\ stop /\ tasks = <<>>
    /\ Goto(w, "quit")
    /\ UNCHANGED <<main, tasks, stop, held, done>>

Take(w) ==
    /\ ~Over /\ pc[w] = "lock" /\ tasks # <<>>
    /\ held' = [held EXCEPT ![w] = Head(tasks)] /\ tasks' = Tail(tasks)
    /\ Goto(w, "run")
    /\ UNCHANGED <<main, stop, done>>

Run(w) ==
    /\ ~Over /\ pc[w] = "run" /\ Goto(w, "lock")
    /\ done' = [done EXCEPT ![held[w]] = @ + 1]
    /\ UNCHANGED <<main, tasks, stop, held>>

-----------------------------------------------------------------------------
MainStep == CreateThread \/ AddTask \/ Stop \/ Join
WorkerStep(w) == Wait(w) \/ Quit(w) \/ Take(w) \/ Run(w)

Next == MainStep \/ \E w \in Workers : WorkerStep(w) \/ SpuriousWakeup(w)

Spec == Init /\ [][Next]_vars

-----------------------------------------------------------------------------
(* Properties                                                              *)

\* main returns only when every task has been run, each once: a thread that is
\* stopped empties the queue first.  As committed main never returns and no task is
\* ever run (My_Thread_Pool_Test.hpp:29-41, 61, 67-82).
DrainedBeforeReturn ==
    /\ \A k \in 1..MaxTasks : done[k] <= 1
    /\ main.what = "returned" => Sized /\ \A k \in 1..MaxTasks : done[k] = 1
    /\ ~Sized => \A k \in 1..MaxTasks : done[k] = 0
=============================================================================
