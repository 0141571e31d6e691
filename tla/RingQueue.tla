------------------------------ MODULE RingQueue ------------------------------
(***************************************************************************)
(* The ring buffer of 11.sem_cp/RingQueue.hpp: two counting semaphores and *)
(* two mutexes, one for the producers' index and one for the consumers'.   *)
(* A producer and a consumer work on the ring at the same time, so every   *)
(* semaphore operation, every lock and every access to a slot is a step.   *)
(* An index is read and moved only under its mutex; its move and the       *)
(* access to the slot are one step.                                        *)
(***************************************************************************)
EXTENDS Naturals, Sequences, FiniteSets

CONSTANTS Producers, Consumers,  (* the threads that call Push and Pop        *)
          Values,                (* the values pushed                         *)
          NoValue,               (* T(): what the vector is filled with       *)
          NoThread,              (* owner of a free mutex                     *)
          Cap                    (* cap_                                      *)

ASSUME RingAssumption ==
    /\ Cap \in Nat \ {0}
    /\ IsFiniteSet(Producers) /\ IsFiniteSet(Consumers)
    /\ NoValue \notin Values
    /\ NoThread \notin Producers \cup Consumers

VARIABLES
    ring,    \* ringqueue_
    p_step,  \* index of the next slot to write
    c_step,  \* index of the next slot to read
    space,   \* value of pspace_sem_
    data,    \* value of cdata_sem_
    p_mutex, \* owner of p_mutex_
    c_mutex, \* owner of c_mutex_
    ppc,     \* where each producer is in Push
    cpc,     \* where each consumer is in Pop
    in,      \* the argument of Push of each producer
    out      \* *out of the last Pop of each consumer

vars == <<ring, p_step, c_step, space, data, p_mutex, c_mutex, ppc, cpc, in, out>>
pushVars == <<p_step, p_mutex, ppc, in>>
popVars  == <<c_step, c_mutex, cpc, out>>

ProducersAt(pcs) == {p \in Producers : ppc[p] \in pcs}
ConsumersAt(pcs) == {c \in Consumers : cpc[c] \in pcs}

ProducerAt(p, from, to) == ppc[p] = from /\ ppc' = [ppc EXCEPT ![p] = to]
ConsumerAt(c, from, to) == cpc[c] = from /\ cpc' = [cpc EXCEPT ![c] = to]

\* step++; step %= cap_
Advance(step) == (step + 1) % Cap

\* Mutant: sem_init with one place too many.
InitOffByOne ==
    /\ ring = [i \in 0..Cap-1 |-> NoValue]
    /\ p_step = 0 /\ c_step = 0
    /\ space = Cap + 1 /\ data = 0
    /\ p_mutex = NoThread /\ c_mutex = NoThread
    /\ ppc = [p \in Producers |-> "idle"]
    /\ cpc = [c \in Consumers |-> "idle"]
    /\ in = [p \in Producers |-> NoValue]
    /\ out = [c \in Consumers |-> NoValue]

Init ==
    /\ ring = [i \in 0..Cap-1 |-> NoValue]
    /\ p_step = 0 /\ c_step = 0
    /\ space = Cap /\ data = 0
    /\ p_mutex = NoThread /\ c_mutex = NoThread
    /\ ppc = [p \in Producers |-> "idle"]
    /\ cpc = [c \in Consumers |-> "idle"]
    /\ in = [p \in Producers |-> NoValue]
    /\ out = [c \in Consumers |-> NoValue]

-----------------------------------------------------------------------------
(* Push                                                                    *)

Push(p, v) ==
    /\ ProducerAt(p, "idle", "space")
    /\ in' = [in EXCEPT ![p] = v]
    /\ UNCHANGED <<ring, p_step, space, data, p_mutex, popVars>>

\* P(pspace_sem_)
WaitSpace(p) ==
    /\ space > 0
    /\ ProducerAt(p, "space", "lock")
    /\ space' = space - 1
    /\ UNCHANGED <<ring, p_step, data, p_mutex, in, popVars>>

\* Mutant: the producers do not exclude each other.
LockPShared(p) ==
    /\ ProducerAt(p, "lock", "write")
    /\ p_mutex' = p
    /\ UNCHANGED <<ring, p_step, space, data, in, popVars>>

LockP(p) ==
    /\ p_mutex = NoThread
    /\ ProducerAt(p, "lock", "write")
    /\ p_mutex' = p
    /\ UNCHANGED <<ring, p_step, space, data, in, popVars>>

WriteSlot(p) ==
    /\ ProducerAt(p, "write", "post")
    /\ ring' = [ring EXCEPT ![p_step] = in[p]]
    /\ p_step' = Advance(p_step)
    /\ UNCHANGED <<space, data, p_mutex, in, popVars>>

\* Mutant: V(cdata_sem_) is forgotten.
PostDataMissing(p) ==
    /\ ProducerAt(p, "post", "unlock")
    /\ UNCHANGED <<ring, p_step, space, data, p_mutex, in, popVars>>

\* V(cdata_sem_), still under p_mutex_
PostData(p) ==
    /\ ProducerAt(p, "post", "unlock")
    /\ data' = data + 1
    /\ UNCHANGED <<ring, p_step, space, p_mutex, in, popVars>>

UnlockP(p) ==
    /\ ProducerAt(p, "unlock", "idle")
    /\ p_mutex' = NoThread
    /\ in' = [in EXCEPT ![p] = NoValue]
    /\ UNCHANGED <<ring, p_step, space, data, popVars>>

-----------------------------------------------------------------------------
(* Pop                                                                     *)

Pop(c) ==
    /\ ConsumerAt(c, "idle", "data")
    /\ UNCHANGED <<ring, c_step, space, data, c_mutex, out, pushVars>>

\* P(cdata_sem_)
WaitData(c) ==
    /\ data > 0
    /\ ConsumerAt(c, "data", "lock")
    /\ data' = data - 1
    /\ UNCHANGED <<ring, c_step, space, c_mutex, out, pushVars>>

LockC(c) ==
    /\ c_mutex = NoThread
    /\ ConsumerAt(c, "lock", "read")
    /\ c_mutex' = c
    /\ UNCHANGED <<ring, c_step, space, data, out, pushVars>>

ReadSlot(c) ==
    /\ ConsumerAt(c, "read", "unlock")
    /\ out' = [out EXCEPT ![c] = ring[c_step]]
    /\ c_step' = Advance(c_step)
    /\ UNCHANGED <<ring, space, data, c_mutex, pushVars>>

UnlockC(c) ==
    /\ ConsumerAt(c, "unlock", "post")
    /\ c_mutex' = NoThread
    /\ UNCHANGED <<ring, c_step, space, data, out, pushVars>>

\* Mutant: V(pspace_sem_) is forgotten.
PostSpaceMissing(c) ==
    /\ ConsumerAt(c, "post", "idle")
    /\ UNCHANGED <<ring, c_step, space, data, c_mutex, out, pushVars>>

\* V(pspace_sem_)
PostSpace(c) ==
    /\ ConsumerAt(c, "post", "idle")
    /\ space' = space + 1
    /\ UNCHANGED <<ring, c_step, data, c_mutex, out, pushVars>>

-----------------------------------------------------------------------------
ProducerStep(p) ==
    \/ WaitSpace(p) \/ LockP(p) \/ WriteSlot(p) \/ PostData(p) \/ UnlockP(p)

ConsumerStep(c) ==
    \/ WaitData(c) \/ LockC(c) \/ ReadSlot(c) \/ UnlockC(c) \/ PostSpace(c)

Next ==
    \/ \E p \in Producers : ProducerStep(p) \/ \E v \in Values : Push(p, v)
    \/ \E c \in Consumers : ConsumerStep(c) \/ Pop(c)

Spec == Init /\ [][Next]_vars

\* A thread that can take a step inside Push or Pop eventually takes one, and
\* the consumers of Main.cpp loop forever.  No producer has to push, and nothing
\* is assumed about which waiting thread a semaphore or a mutex lets through.
Fairness ==
    /\ \A p \in Producers : WF_vars(ProducerStep(p))
    /\ \A c \in Consumers : WF_vars(ConsumerStep(c) \/ Pop(c))

FairSpec == Spec /\ Fairness

-----------------------------------------------------------------------------
(* Properties                                                              *)

\* Producers between P(pspace_sem_) and V(cdata_sem_), and consumers between
\* P(cdata_sem_) and V(pspace_sem_).
InPush == ProducersAt({"lock", "write", "post"})
InPop  == ConsumersAt({"lock", "read", "unlock", "post"})

\* No place of the ring is ever lost or invented, whatever threads are between
\* their two semaphore operations (RingQueue.hpp:45-54 and 62-69).
PlacesConserved ==
    space + data + Cardinality(InPush) + Cardinality(InPop) = Cap

\* Slots written and not read yet: posted and untaken, or taken by a consumer
\* that has not read, or written by a producer that has not posted.
Filled == data + Cardinality(ConsumersAt({"lock", "read"}))
               + Cardinality(ProducersAt({"post"}))

\* A producer that writes a slot and a consumer that reads one, each under its
\* own mutex, never touch the same slot at the same time.
NoSlotRace ==
    \A p \in ProducersAt({"write"}), c \in ConsumersAt({"read"}) : p_step # c_step

\* Values posted and not read yet, oldest first.
Posted == data + Cardinality(ConsumersAt({"lock", "read"}))
Contents == [i \in 1..Posted |-> ring[(c_step + i - 1) % Cap]]

\* With a value pending until V(cdata_sem_), the ring queue implements the FIFO
\* buffer: values come out in the order in which they were posted, each once,
\* to one consumer, and never more than Cap are inside.
Buffer == INSTANCE BoundedBuffer WITH
    buf     <- Contents,
    pending <- [p \in Producers |-> IF ppc[p] = "unlock" THEN NoValue ELSE in[p]],
    got     <- out

ImplementsBuffer == Buffer!Spec

\* The slots from c_step up to p_step; all of them when the two meet on a full ring.
Unread ==
    IF p_step = c_step
    THEN IF Filled = 0 THEN {} ELSE 0..Cap-1
    ELSE {s \in 0..Cap-1 : (s + Cap - c_step) % Cap < (p_step + Cap - c_step) % Cap}

\* Every value that has been written is read by some consumer: no slot is left
\* behind with the consumers blocked on cdata_sem_ (RingQueue.hpp:54 and 62).
EverySlotDrained == \A s \in 0..Cap-1 : (s \in Unread) ~> (s \notin Unread)

\* A producer blocked on a full ring does not make the others stop: as long as
\* some producer is inside Push, some Push gets through.
PushProgress ==
    (ProducersAt({"space", "lock", "write", "post"}) # {})
        ~> (ProducersAt({"unlock"}) # {})
=============================================================================
