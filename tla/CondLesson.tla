------------------------------- MODULE CondLesson -------------------------------
(***************************************************************************)
(* Thread/mycond.cc: threads that wait on a condition variable without any *)
(* condition, print, and wait again, and a main thread that signals and    *)
(* broadcasts every second.  Each thread is handed the address of the      *)
(* loop variable of main and reads its number there when it gets to it;    *)
(* once the loop has ended there is no such variable any more.             *)
(*                                                                         *)
(* cnt, which only counts the turns of the threads, is left out.           *)
(***************************************************************************)
EXTENDS Integers, FiniteSets

CONSTANT Threads (* 1..5 *)

CondAssumption == IsFiniteSet(Threads) /\ Threads # {} /\ Threads = 1..Cardinality(Threads)

VARIABLES
    pc,     \* where each thread is
    i,      \* the loop variable of main, Gone after the loop
    number  \* what each thread has read as its number

vars == <<pc, i, number>>

Gone == -1
Unread == -2
Holding == {t \in Threads : pc[t] = "hold"}
Asleep == {t \in Threads : pc[t] = "asleep"}
Goto(t, place) == pc' = [pc EXCEPT ![t] = place]

Init ==
    /\ pc = [t \in Threads |-> "off"]
    /\ i = 0
    /\ number = [t \in Threads |-> Unread]

-----------------------------------------------------------------------------
\* Nobody looks whether pthread_create has made the thread.
Create ==
    /\ i # Gone
    /\ Goto(i + 1, "born") \/ Goto(i + 1, "failed")
    /\ i' = IF i + 2 \in Threads THEN i + 1 ELSE Gone
    /\ UNCHANGED number

\* What is found in place of a variable that has gone may be anything.
ReadNumber(t) ==
    /\ pc[t] = "born" /\ Goto(t, "lock")
    /\ \E n \in IF i = Gone THEN {Gone, 0} ELSE {i} : number' = [number EXCEPT ![t] = n]
    /\ UNCHANGED i

\* pthread_mutex_lock and pthread_cond_wait, which gives the mutex up again.
Wait(t) ==
    /\ pc[t] = "lock" /\ Holding = {} /\ Goto(t, "asleep")
    /\ UNCHANGED <<i, number>>

\* The end of pthread_cond_wait takes the mutex, which is kept during the sleep.
Count(t) ==
    /\ pc[t] = "woken" /\ Holding = {} /\ Goto(t, "hold")
    /\ UNCHANGED <<i, number>>

Unlock(t) ==
    /\ pc[t] = "hold" /\ Goto(t, "lock")
    /\ UNCHANGED <<i, number>>

SpuriousWakeup(t) ==
    /\ pc[t] = "asleep" /\ Goto(t, "woken")
    /\ UNCHANGED <<i, number>>

\* Mutant: the signal alone.
Signal ==
    /\ i = Gone /\ Asleep # {}
    /\ \E t \in Asleep : Goto(t, "woken")
    /\ UNCHANGED <<i, number>>

\* pthread_cond_signal and pthread_cond_broadcast: whoever is not woken by the first
\* is by the second, and a thread that is about to wait misses both.
SignalAndBroadcast ==
    /\ i = Gone /\ Asleep # {}
    /\ pc' = [t \in Threads |-> IF t \in Asleep THEN "woken" ELSE pc[t]]
    /\ UNCHANGED <<i, number>>

-----------------------------------------------------------------------------
MainStep == Create \/ SignalAndBroadcast
ThreadStep(t) == ReadNumber(t) \/ Wait(t) \/ Count(t) \/ Unlock(t)

Next == MainStep \/ \E t \in Threads : ThreadStep(t) \/ SpuriousWakeup(t)

Spec == Init /\ [][Next]_vars

-----------------------------------------------------------------------------
(* Properties                                                              *)

\* Every thread that has been made runs again and again, although the broadcast
\* finds it asleep or misses it (mycond.cc:15-21, 36-38).
Waiting(t) == pc[t] \notin {"off", "failed", "hold"}
=============================================================================
