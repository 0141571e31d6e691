------------------------------ MODULE BlockQueue ------------------------------
(***************************************************************************)
(* The blocking queue of 10.blockqueue/BlockQueue.hpp: one mutex, one      *)
(* condition variable per side, an if (not a while) around each            *)
(* pthread_cond_wait, and a producer that is signalled only when more than *)
(* high_water_ elements remain after a pop.                                *)
(*                                                                         *)
(* The order of the elements follows from the mutex alone, so the queue is *)
(* represented by its length.  What a thread does between taking the mutex *)
(* and releasing it, by unlock or by pthread_cond_wait, is one step.       *)
(***************************************************************************)
EXTENDS Integers, FiniteSets

CONSTANTS Producers, Consumers,
          Capacity,      (* maxcap_                                           *)
          SpuriousWakeup (* whether pthread_cond_wait may return unsignalled *)

ASSUME QueueAssumption ==
    /\ Capacity \in Nat \ {0}
    /\ SpuriousWakeup \in BOOLEAN
    /\ IsFiniteSet(Producers) /\ IsFiniteSet(Consumers)
    /\ Producers \cap Consumers = {}

VARIABLES size,  \* q_.size()
          pc     \* where each thread is in push or pop

vars == <<size, pc>>

Threads == Producers \cup Consumers

\* "wait": blocked in pthread_cond_wait; "woken": returned from it, needs mutex_;
\* "broken": has called front() and pop() on an empty std::queue.
Pcs == {"idle", "lock", "wait", "woken", "broken"}

\* Mutant: a producer is signalled only by a pop that leaves the queue full.
HighWaterTooHigh == Capacity - 1

HighWater == (Capacity * 2) \div 3

WaitingOf(S) == {t \in S : pc[t] = "wait"}

\* The caller t reaches state to, and pthread_cond_signal, if it is called, wakes
\* one of the threads S that wait.
MoveAndSignal(t, to, signal, S) ==
    IF signal /\ WaitingOf(S) # {}
    THEN \E w \in WaitingOf(S) : pc' = [pc EXCEPT ![t] = to, ![w] = "woken"]
    ELSE pc' = [pc EXCEPT ![t] = to]

Init == size = 0 /\ pc = [t \in Threads |-> "idle"]

\* A thread enters push or pop.
Call(t) ==
    /\ pc[t] = "idle"
    /\ pc' = [pc EXCEPT ![t] = "lock"]
    /\ UNCHANGED size

\* pthread_cond_wait puts the caller to sleep and releases mutex_.
WaitNotFull(p) ==
    /\ pc[p] = "lock" /\ size = Capacity
    /\ pc' = [pc EXCEPT ![p] = "wait"]
    /\ UNCHANGED size

WaitNotEmpty(c) ==
    /\ pc[c] = "lock" /\ size = 0
    /\ pc' = [pc EXCEPT ![c] = "wait"]
    /\ UNCHANGED size

\* Mutant: no test for a full queue.
PushUnchecked(p) ==
    /\ pc[p] \in {"woken", "lock"}
    /\ size' = size + 1
    /\ MoveAndSignal(p, "idle", TRUE, Consumers)

\* Mutant: signal only on the transition from empty to non-empty.
PushSignalIfEmpty(p) ==
    /\ pc[p] = "woken" \/ (pc[p] = "lock" /\ size # Capacity)
    /\ size' = size + 1
    /\ MoveAndSignal(p, "idle", size = 0, Consumers)

\* Mutant: no signal.
PushSilently(p) ==
    /\ pc[p] = "woken" \/ (pc[p] = "lock" /\ size # Capacity)
    /\ size' = size + 1
    /\ MoveAndSignal(p, "idle", FALSE, Consumers)

\* The rest of push: the condition is not tested again by a woken producer.
Push(p) ==
    /\ pc[p] = "woken" \/ (pc[p] = "lock" /\ size # Capacity)
    /\ size' = size + 1
    /\ MoveAndSignal(p, "idle", TRUE, Consumers)

\* The rest of pop, when there is an element.
Pop(c) ==
    /\ pc[c] \in {"lock", "woken"} /\ size > 0
    /\ size' = size - 1
    /\ MoveAndSignal(c, "idle", size' > HighWater, Producers)

\* Mutant: no test for an empty queue.
PopEmptyUnchecked(c) ==
    /\ pc[c] \in {"lock", "woken"} /\ size = 0
    /\ pc' = [pc EXCEPT ![c] = "broken"]
    /\ UNCHANGED size

\* front() and pop() on an empty queue are undefined: nothing is said of what the
\* program does next, so no step follows.
PopEmpty(c) ==
    /\ pc[c] = "woken" /\ size = 0
    /\ pc' = [pc EXCEPT ![c] = "broken"]
    /\ UNCHANGED size

WakeSpuriously(t) ==
    /\ SpuriousWakeup
    /\ pc[t] = "wait"
    /\ pc' = [pc EXCEPT ![t] = "woken"]
    /\ UNCHANGED size

ProducerStep(p) == Call(p) \/ WaitNotFull(p) \/ Push(p)
ConsumerStep(c) == Call(c) \/ WaitNotEmpty(c) \/ Pop(c) \/ PopEmpty(c)

Next ==
    /\ \A t \in Threads : pc[t] # "broken"
    /\ \/ \E p \in Producers : ProducerStep(p)
       \/ \E c \in Consumers : ConsumerStep(c)
       \/ \E t \in Threads : WakeSpuriously(t)

Spec == Init /\ [][Next]_vars

\* Both loops of main.cc run forever; a thread that can proceed is scheduled.
FairSpec ==
    /\ Spec
    /\ \A p \in Producers : WF_vars(ProducerStep(p))
    /\ \A c \in Consumers : WF_vars(ConsumerStep(c))

-----------------------------------------------------------------------------
(* Properties                                                              *)

TypeOK == size \in Nat /\ pc \in [Threads -> Pcs]

\* The condition pop needs: nobody takes from an empty queue
\* (BlockQueue.hpp:26, whose comment asks to make sure of it first).  It holds
\* for the one consumer of main.cc as long as no wakeup is spurious.
NeverPopEmpty == \A c \in Consumers : pc[c] # "broken"

\* The condition push needs: never more than maxcap_ elements (BlockQueue.hpp:41).
\* Once it is broken the test size() == maxcap_ no longer stops anybody.
Bounded == size <= Capacity

\* A thread sleeps only while its condition is false: with one producer the
\* watermark test of pop (BlockQueue.hpp:28) never skips a signal that is needed.
\* That depends on Capacity - 1 > HighWater, that is, on Capacity >= 4.
SleepJustified ==
    /\ WaitingOf(Consumers) # {} => size = 0
    /\ WaitingOf(Producers) # {} => size = Capacity

\* With any number of threads, and with spurious wakeups: while a consumer
\* sleeps, every element in the queue has a woken consumer on its way to it.
NoLostWakeup ==
    WaitingOf(Consumers) # {} =>
        size <= Cardinality({c \in Consumers : pc[c] = "woken"})

\* Every thread that goes to sleep runs again.
EveryoneProceeds == \A t \in Threads : pc[t] = "wait" ~> pc[t] = "idle"
=============================================================================
