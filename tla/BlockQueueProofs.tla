--------------------------- MODULE BlockQueueProofs ---------------------------
(***************************************************************************)
(* Proofs about BlockQueue.  Two results that complement each other: with  *)
(* any number of threads no wakeup of a consumer is lost, and for the      *)
(* program of main.cc, one producer and one consumer, the if around each   *)
(* pthread_cond_wait is enough as long as no wakeup is spurious.           *)
(***************************************************************************)
EXTENDS BlockQueue, FiniteSetTheorems, TLAPS

-----------------------------------------------------------------------------
(* Any number of threads                                                   *)

Woken == {c \in Consumers : pc[c] = "woken"}

\* There are finitely many woken consumers.
LEMMA WokenFinite == IsFiniteSet(Woken) /\ Cardinality(Woken) \in Nat
<1>1. Woken \in SUBSET Consumers
  BY DEF Woken
<1>2. IsFiniteSet(Woken)
  BY <1>1, FS_Subset, QueueAssumption
<1>3. QED
  BY <1>2, FS_CardinalityType

\* The types hold initially,
LEMMA TypeInit == Init => TypeOK
BY DEF Init, TypeOK, Pcs

\* and every step keeps them: an element is only taken from a queue that has one.
LEMMA TypeStep == TypeOK /\ [Next]_vars => TypeOK'
<1> SUFFICES ASSUME TypeOK, [Next]_vars PROVE TypeOK'
  OBVIOUS
<1> USE QueueAssumption DEF TypeOK, Threads, Pcs
<1>1. ASSUME NEW t \in Threads, NEW signal, NEW S \in SUBSET Threads,
             MoveAndSignal(t, "idle", signal, S)
      PROVE  pc' \in [Threads -> Pcs]
  BY <1>1 DEF MoveAndSignal, WaitingOf
<1>2. ASSUME NEW p \in Producers, ProducerStep(p)
      PROVE  TypeOK'
  <2>1. CASE Call(p) \/ WaitNotFull(p)
    BY <2>1 DEF Call, WaitNotFull
  <2>2. CASE Push(p)
    <3>1. size' \in Nat /\ p \in Threads /\ Consumers \subseteq Threads
      BY <2>2 DEF Push
    <3>2. MoveAndSignal(p, "idle", TRUE, Consumers)
      BY <2>2 DEF Push
    <3>3. QED
      BY <1>1, <3>1, <3>2
  <2>3. QED
    BY <1>2, <2>1, <2>2 DEF ProducerStep
<1>3. ASSUME NEW c \in Consumers, ConsumerStep(c)
      PROVE  TypeOK'
  <2>1. CASE Call(c) \/ WaitNotEmpty(c) \/ PopEmpty(c)
    BY <2>1 DEF Call, WaitNotEmpty, PopEmpty
  <2>2. CASE Pop(c)
    <3>1. size' \in Nat
      BY <2>2 DEF Pop
    <3>2. QED
      BY <1>1, <2>2, <3>1 DEF Pop
  <2>3. QED
    BY <1>3, <2>1, <2>2 DEF ConsumerStep
<1>4. ASSUME NEW t \in Threads, WakeSpuriously(t)
      PROVE  TypeOK'
  BY <1>4 DEF WakeSpuriously
<1>5. CASE UNCHANGED vars
  BY <1>5 DEF vars
<1>6. QED
  BY <1>2, <1>3, <1>4, <1>5 DEF Next

\* A consumer that wakes up adds one to Woken, one that leaves takes one away.
LEMMA WokenChanges ==
    ASSUME NEW c \in Consumers
    PROVE  /\ pc[c] # "woken" /\ Woken' = Woken \cup {c} =>
                  Cardinality(Woken') = Cardinality(Woken) + 1
           /\ pc[c] = "woken" /\ Woken' = Woken \ {c} =>
                  Cardinality(Woken') = Cardinality(Woken) - 1
<1>1. pc[c] = "woken" <=> c \in Woken
  BY DEF Woken
<1>2. QED
  BY <1>1, WokenFinite, FS_AddElement, FS_RemoveElement

\* No step leaves an element behind with a consumer asleep and nobody on its way.
LEMMA NoLostWakeupStep ==
    ASSUME TypeOK, NoLostWakeup, [Next]_vars
    PROVE  NoLostWakeup'
<1> USE QueueAssumption DEF TypeOK, Threads, Pcs, WaitingOf
<1>0. /\ size \in Nat /\ Cardinality(Woken) \in Nat
      /\ NoLostWakeup <=> (WaitingOf(Consumers) # {} => size <= Cardinality(Woken))
  BY WokenFinite DEF NoLostWakeup, Woken
<1>b. NoLostWakeup' <=> (WaitingOf(Consumers)' # {} => size' <= Cardinality(Woken'))
  BY DEF NoLostWakeup, Woken
<1>1. ASSUME UNCHANGED size, Woken' = Woken,
             WaitingOf(Consumers)' \subseteq WaitingOf(Consumers)
      PROVE  NoLostWakeup'
  BY <1>0, <1>b, <1>1
<1>2. ASSUME NEW p \in Producers, Push(p)
      PROVE  NoLostWakeup'
  <2>1. CASE WaitingOf(Consumers) = {}
    <3>1. WaitingOf(Consumers)' = {}
      BY <1>2, <2>1 DEF Push, MoveAndSignal
    <3>2. QED
      BY <1>b, <3>1
  <2>2. CASE WaitingOf(Consumers) # {}
    <3>1. PICK c \in Consumers :
              pc[c] = "wait" /\ pc' = [pc EXCEPT ![p] = "idle", ![c] = "woken"]
      BY <1>2, <2>2 DEF Push, MoveAndSignal
    <3>2. Woken' = Woken \cup {c}
      BY <3>1 DEF Woken
    <3>3. Cardinality(Woken') = Cardinality(Woken) + 1
      BY <3>1, <3>2, WokenChanges
    <3>4. size' = size + 1
      BY <1>2 DEF Push
    <3>5. QED
      BY <1>0, <1>b, <2>2, <3>3, <3>4
  <2>3. QED
    BY <2>1, <2>2
<1>3. ASSUME NEW c \in Consumers, Pop(c)
      PROVE  NoLostWakeup'
  <2>1. WaitingOf(Consumers)' = WaitingOf(Consumers) /\ Woken' = Woken \ {c}
    BY <1>3 DEF Pop, MoveAndSignal, Woken
  <2>2. size' = size - 1
    BY <1>3 DEF Pop
  <2>3. CASE pc[c] = "woken"
    BY <1>0, <1>b, <2>1, <2>2, <2>3, WokenChanges
  <2>4. CASE pc[c] = "lock"
    <3>1. Woken' = Woken
      BY <2>1, <2>4 DEF Woken
    <3>2. Cardinality(Woken') = Cardinality(Woken)
      BY <3>1
    <3>3. QED
      BY <1>0, <1>b, <2>1, <2>2, <3>2
  <2>5. QED
    BY <1>3, <2>3, <2>4 DEF Pop
<1>4. ASSUME NEW c \in Consumers, WaitNotEmpty(c) \/ PopEmpty(c)
      PROVE  NoLostWakeup'
  <2>1. size' = 0
    BY <1>4 DEF WaitNotEmpty, PopEmpty
  <2>2. Cardinality(Woken') \in Nat
    <3>1. Woken' \in SUBSET Consumers
      BY DEF Woken
    <3>2. QED
      BY <3>1, FS_Subset, FS_CardinalityType
  <2>3. QED
    BY <1>b, <2>1, <2>2
<1>5. ASSUME NEW t \in Threads, WakeSpuriously(t)
      PROVE  NoLostWakeup'
  <2>1. CASE t \in Producers
    BY <1>1, <1>5, <2>1 DEF WakeSpuriously, Woken
  <2>2. CASE t \in Consumers
    <3>1. Woken' = Woken \cup {t} /\ pc[t] = "wait"
      BY <1>5, <2>2 DEF WakeSpuriously, Woken
    <3>2. Cardinality(Woken') = Cardinality(Woken) + 1
      BY <2>2, <3>1, WokenChanges
    <3>3. WaitingOf(Consumers) # {} /\ size' = size
      BY <1>5, <2>2 DEF WakeSpuriously
    <3>4. QED
      BY <1>0, <1>b, <3>2, <3>3
  <2>3. QED
    BY <2>1, <2>2
<1>6. ASSUME NEW t \in Threads, Call(t) \/ (t \in Producers /\ WaitNotFull(t))
      PROVE  NoLostWakeup'
  BY <1>1, <1>6 DEF Call, WaitNotFull, Woken
<1>7. CASE UNCHANGED vars
  BY <1>1, <1>7 DEF vars, Woken
<1>8. QED
  BY <1>2, <1>3, <1>4, <1>5, <1>6, <1>7 DEF Next, ProducerStep, ConsumerStep

\* The queue's length is a natural number and every thread is at a known place.
THEOREM TypeCorrect == Spec => []TypeOK
BY TypeInit, TypeStep, PTL DEF Spec

\* With any number of threads, and however often pthread_cond_wait returns without
\* a signal, push (BlockQueue.hpp:42) never leaves an element to sleeping consumers
\* alone.
THEOREM ConsumersWoken == Spec => []NoLostWakeup
<1>1. Init => NoLostWakeup
  BY DEF Init, NoLostWakeup, WaitingOf, Threads
<1>2. TypeOK /\ NoLostWakeup /\ [Next]_vars => NoLostWakeup'
  BY NoLostWakeupStep
<1>3. QED
  BY <1>1, <1>2, TypeCorrect, PTL DEF Spec

-----------------------------------------------------------------------------
(* One producer and one consumer                                           *)

\* The program of main.cc on a system without spurious wakeups.
MainProgram ==
    /\ \E p, c : Producers = {p} /\ Consumers = {c}
    /\ SpuriousWakeup = FALSE
    /\ Capacity >= 4

\* A thread that waits has its condition false, one that has been woken has it true
\* although it will not look again.
Justified ==
    /\ size <= Capacity
    /\ \A p \in Producers : /\ pc[p] = "wait" => size = Capacity
                            /\ pc[p] = "woken" => size < Capacity
    /\ \A c \in Consumers : /\ pc[c] = "wait" => size = 0
                            /\ pc[c] = "woken" => size > 0
                            /\ pc[c] # "broken"

\* A pop that makes room in a full queue leaves more than high_water_ elements, and
\* so signals the producer.
LEMMA RoomIsSignalled == Capacity >= 4 => HighWater < Capacity - 1
BY QueueAssumption DEF HighWater

\* With one thread on each side nobody can come between a signal and the return
\* from pthread_cond_wait, and the condition found before the wait is still settled.
LEMMA JustifiedStep ==
    ASSUME MainProgram, TypeOK, Justified, [Next]_vars
    PROVE  Justified'
<1> USE QueueAssumption DEF TypeOK, Threads, Pcs, WaitingOf
<1>0. PICK p, c : Producers = {p} /\ Consumers = {c} /\ p # c
  BY DEF MainProgram
<1>1. CASE Push(p)
  <2>1. size < Capacity /\ size' = size + 1
    BY <1>0, <1>1 DEF Push, Justified
  <2>2. pc'[p] = "idle" /\ pc'[c] # "wait" /\ pc'[c] # "broken"
    BY <1>0, <1>1 DEF Push, MoveAndSignal, Justified
  <2>3. QED
    BY <1>0, <2>1, <2>2 DEF Justified
<1>2. CASE Pop(c)
  <2>1. size > 0 /\ size' = size - 1 /\ pc'[c] = "idle"
    BY <1>0, <1>2 DEF Pop, MoveAndSignal
  <2>2. pc'[p] # "wait"
    <3>1. CASE pc[p] = "wait"
      <4>1. size' > HighWater
        BY <1>0, <2>1, <3>1, RoomIsSignalled DEF Justified, MainProgram, HighWater
      <4>2. QED
        BY <1>0, <1>2, <3>1, <4>1 DEF Pop, MoveAndSignal
    <3>2. CASE pc[p] # "wait"
      BY <1>0, <1>2, <3>2 DEF Pop, MoveAndSignal
    <3>3. QED
      BY <3>1, <3>2
  <2>3. QED
    BY <1>0, <2>1, <2>2 DEF Justified
<1>3. CASE Call(p) \/ Call(c) \/ WaitNotFull(p) \/ WaitNotEmpty(c)
  BY <1>0, <1>3 DEF Call, WaitNotFull, WaitNotEmpty, Justified
<1>4. ~PopEmpty(c) /\ \A t \in Threads : ~WakeSpuriously(t)
  BY <1>0 DEF PopEmpty, WakeSpuriously, Justified, MainProgram
<1>5. CASE UNCHANGED vars
  BY <1>5 DEF vars, Justified
<1>6. QED
  BY <1>0, <1>1, <1>2, <1>3, <1>4, <1>5 DEF Next, ProducerStep, ConsumerStep

\* The invariant of the program of main.cc.
LEMMA JustifiedAlways ==
    ASSUME MainProgram
    PROVE  Spec => []Justified
<1>1. Init => Justified
  BY QueueAssumption DEF Init, Justified, Threads
<1>2. TypeOK /\ Justified /\ [Next]_vars => Justified'
  BY JustifiedStep
<1>3. QED
  BY <1>1, <1>2, TypeCorrect, PTL DEF Spec

\* In the program of main.cc pop (BlockQueue.hpp:22-27) never takes from an empty
\* queue,
THEOREM SinglePopsElements ==
    ASSUME MainProgram
    PROVE  Spec => []NeverPopEmpty
<1>1. Justified => NeverPopEmpty
  BY DEF Justified, NeverPopEmpty
<1>2. QED
  BY <1>1, JustifiedAlways, PTL

\* push (BlockQueue.hpp:36-41) never goes beyond maxcap_,
THEOREM SingleStaysBounded ==
    ASSUME MainProgram
    PROVE  Spec => []Bounded
<1>1. Justified => Bounded
  BY DEF Justified, Bounded
<1>2. QED
  BY <1>1, JustifiedAlways, PTL

\* and whoever sleeps has a reason to: the watermark of pop (BlockQueue.hpp:28)
\* suppresses no signal that is needed, for every capacity of at least four.
THEOREM SingleSleepsJustified ==
    ASSUME MainProgram
    PROVE  Spec => []SleepJustified
<1>1. Justified => SleepJustified
  BY DEF Justified, SleepJustified, WaitingOf
<1>2. QED
  BY <1>1, JustifiedAlways, PTL
=============================================================================
