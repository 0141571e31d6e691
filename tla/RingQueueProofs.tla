--------------------------- MODULE RingQueueProofs ---------------------------
(***************************************************************************)
(* Theorems about the ring queue of 11.sem_cp/RingQueue.hpp, for every     *)
(* capacity and all finite sets of producers and consumers: places are     *)
(* conserved, no slot is written while it is read, and the queue           *)
(* implements the FIFO buffer of BoundedBuffer.                            *)
(***************************************************************************)
EXTENDS RingQueue, Integers, TLAPS, FiniteSetTheorems, SequenceTheorems

ProducerPlaces == {"idle", "space", "lock", "write", "post", "unlock"}
ConsumerPlaces == {"idle", "data", "lock", "read", "unlock", "post"}
Indices == 0..Cap-1

TypeOK ==
    /\ ring \in [Indices -> Values \cup {NoValue}]
    /\ p_step \in Indices /\ c_step \in Indices
    /\ space \in Nat /\ data \in Nat
    /\ p_mutex \in Producers \cup {NoThread}
    /\ c_mutex \in Consumers \cup {NoThread}
    /\ ppc \in [Producers -> ProducerPlaces]
    /\ cpc \in [Consumers -> ConsumerPlaces]
    /\ in \in [Producers -> Values \cup {NoValue}]
    /\ out \in [Consumers -> Values \cup {NoValue}]

\* A thread is in a critical section exactly if it owns the mutex.
Owners ==
    /\ \A p \in Producers : ppc[p] \in {"write", "post", "unlock"} <=> p_mutex = p
    /\ \A c \in Consumers : cpc[c] \in {"read", "unlock"} <=> c_mutex = c

\* The slot before an index.
Before(step) == IF step = 0 THEN Cap - 1 ELSE step - 1

\* A producer has a value from the call to the return of Push; after WriteSlot it is
\* in the slot that p_step has just left.
Carried ==
    \A p \in Producers :
        /\ in[p] = NoValue <=> ppc[p] = "idle"
        /\ ppc[p] = "post" => ring[Before(p_step)] = in[p]

\* The two indices are apart by the number of filled slots.
Apart == p_step = c_step + Filled \/ p_step = c_step + Filled - Cap

IInv == TypeOK /\ Owners /\ Carried /\ PlacesConserved /\ Apart

-----------------------------------------------------------------------------
(* Counting threads                                                        *)

\* There are finitely many threads at any set of places.
LEMMA ProducersFinite ==
    ASSUME NEW pcs
    PROVE  IsFiniteSet(ProducersAt(pcs)) /\ Cardinality(ProducersAt(pcs)) \in Nat
<1>1. ProducersAt(pcs) \in SUBSET Producers
  BY DEF ProducersAt
<1>2. IsFiniteSet(ProducersAt(pcs))
  BY <1>1, FS_Subset, RingAssumption
<1>3. QED
  BY <1>2, FS_CardinalityType

LEMMA ConsumersFinite ==
    ASSUME NEW pcs
    PROVE  IsFiniteSet(ConsumersAt(pcs)) /\ Cardinality(ConsumersAt(pcs)) \in Nat
<1>1. ConsumersAt(pcs) \in SUBSET Consumers
  BY DEF ConsumersAt
<1>2. IsFiniteSet(ConsumersAt(pcs))
  BY <1>1, FS_Subset, RingAssumption
<1>3. QED
  BY <1>2, FS_CardinalityType

\* A producer that moves into, out of or outside a set of places adds one to it,
\* takes one from it or leaves it as it is.
LEMMA ProducerMoves ==
    ASSUME ppc \in [Producers -> ProducerPlaces], NEW p \in Producers, NEW to,
           ppc' = [ppc EXCEPT ![p] = to], NEW pcs
    PROVE  Cardinality(ProducersAt(pcs)') = Cardinality(ProducersAt(pcs))
               + (IF to \in pcs THEN 1 ELSE 0) - (IF ppc[p] \in pcs THEN 1 ELSE 0)
<1>0. Cardinality(ProducersAt(pcs)) \in Nat /\ IsFiniteSet(ProducersAt(pcs))
  BY ProducersFinite
<1>1. CASE ppc[p] \notin pcs /\ to \in pcs
  <2>1. ProducersAt(pcs)' = ProducersAt(pcs) \cup {p} /\ p \notin ProducersAt(pcs)
    BY <1>1 DEF ProducersAt
  <2>2. Cardinality(ProducersAt(pcs)') = Cardinality(ProducersAt(pcs)) + 1
    BY <1>0, <2>1, FS_AddElement
  <2>3. QED
    BY <1>0, <1>1, <2>2
<1>2. CASE ppc[p] \in pcs /\ to \notin pcs
  <2>1. ProducersAt(pcs)' = ProducersAt(pcs) \ {p} /\ p \in ProducersAt(pcs)
    BY <1>2 DEF ProducersAt
  <2>2. Cardinality(ProducersAt(pcs)') = Cardinality(ProducersAt(pcs)) - 1
    BY <1>0, <2>1, FS_RemoveElement
  <2>3. QED
    BY <1>0, <1>2, <2>2
<1>3. CASE ppc[p] \in pcs <=> to \in pcs
  <2>1. ProducersAt(pcs)' = ProducersAt(pcs)
    BY <1>3 DEF ProducersAt
  <2>2. QED
    BY <1>0, <1>3, <2>1
<1>4. QED
  BY <1>1, <1>2, <1>3

LEMMA ConsumerMoves ==
    ASSUME cpc \in [Consumers -> ConsumerPlaces], NEW c \in Consumers, NEW to,
           cpc' = [cpc EXCEPT ![c] = to], NEW pcs
    PROVE  Cardinality(ConsumersAt(pcs)') = Cardinality(ConsumersAt(pcs))
               + (IF to \in pcs THEN 1 ELSE 0) - (IF cpc[c] \in pcs THEN 1 ELSE 0)
<1>0. Cardinality(ConsumersAt(pcs)) \in Nat /\ IsFiniteSet(ConsumersAt(pcs))
  BY ConsumersFinite
<1>1. CASE cpc[c] \notin pcs /\ to \in pcs
  <2>1. ConsumersAt(pcs)' = ConsumersAt(pcs) \cup {c} /\ c \notin ConsumersAt(pcs)
    BY <1>1 DEF ConsumersAt
  <2>2. Cardinality(ConsumersAt(pcs)') = Cardinality(ConsumersAt(pcs)) + 1
    BY <1>0, <2>1, FS_AddElement
  <2>3. QED
    BY <1>0, <1>1, <2>2
<1>2. CASE cpc[c] \in pcs /\ to \notin pcs
  <2>1. ConsumersAt(pcs)' = ConsumersAt(pcs) \ {c} /\ c \in ConsumersAt(pcs)
    BY <1>2 DEF ConsumersAt
  <2>2. Cardinality(ConsumersAt(pcs)') = Cardinality(ConsumersAt(pcs)) - 1
    BY <1>0, <2>1, FS_RemoveElement
  <2>3. QED
    BY <1>0, <1>2, <2>2
<1>3. CASE cpc[c] \in pcs <=> to \in pcs
  <2>1. ConsumersAt(pcs)' = ConsumersAt(pcs)
    BY <1>3 DEF ConsumersAt
  <2>2. QED
    BY <1>0, <1>3, <2>1
<1>4. QED
  BY <1>1, <1>2, <1>3

\* A set of threads with a member has at least one.
LEMMA SomeoneCounts ==
    ASSUME NEW S, IsFiniteSet(S), NEW x \in S
    PROVE  Cardinality(S) \in Nat \ {0}
BY FS_EmptySet, FS_CardinalityType

\* An index moves by one place or back to the first slot.
LEMMA AdvanceIs ==
    ASSUME NEW step \in Indices
    PROVE  Advance(step) = IF step = Cap - 1 THEN 0 ELSE step + 1
BY RingAssumption, SMT DEF Advance, Indices

-----------------------------------------------------------------------------
(* The counts and what each action does to them                            *)

PushPlaces   == {"lock", "write", "post"}
PostPlaces   == {"post"}
PopPlaces    == {"lock", "read", "unlock", "post"}
UnreadPlaces == {"lock", "read"}

nPush == Cardinality(InPush)
nPop  == Cardinality(InPop)
nPost == Cardinality(ProducersAt({"post"}))
nRead == Cardinality(ConsumersAt({"lock", "read"}))

LEMMA CountsAreNumbers ==
    /\ nPush \in Nat /\ nPop \in Nat /\ nPost \in Nat /\ nRead \in Nat
    /\ nPost <= nPush /\ nRead <= nPop
<1>1. nPush \in Nat /\ nPop \in Nat /\ nPost \in Nat /\ nRead \in Nat
  BY ProducersFinite, ConsumersFinite DEF nPush, nPop, nPost, nRead, InPush, InPop
<1>2. ProducersAt({"post"}) \in SUBSET InPush /\ ConsumersAt({"lock", "read"}) \in SUBSET InPop
  BY DEF ProducersAt, ConsumersAt, InPush, InPop
<1>3. IsFiniteSet(InPush) /\ IsFiniteSet(InPop)
  BY ProducersFinite, ConsumersFinite DEF InPush, InPop
<1>4. QED
  BY <1>1, <1>2, <1>3, FS_Subset DEF nPush, nPop, nPost, nRead

One(yes) == IF yes THEN 1 ELSE 0

\* What a move of a producer does to all counts.
LEMMA ProducerCounts ==
    ASSUME TypeOK, NEW p \in Producers, NEW from, NEW to,
           ProducerAt(p, from, to), UNCHANGED cpc
    PROVE  /\ nPush' = nPush + One(to \in PushPlaces) - One(from \in PushPlaces)
           /\ nPost' = nPost + One(to \in PostPlaces) - One(from \in PostPlaces)
           /\ nPop' = nPop /\ nRead' = nRead
<1>1. /\ ppc \in [Producers -> ProducerPlaces] /\ ppc[p] = from
      /\ ppc' = [ppc EXCEPT ![p] = to]
  BY DEF TypeOK, ProducerAt
<1>2. /\ nPush = Cardinality(ProducersAt(PushPlaces)) /\ nPush' = Cardinality(ProducersAt(PushPlaces)')
      /\ nPost = Cardinality(ProducersAt(PostPlaces)) /\ nPost' = Cardinality(ProducersAt(PostPlaces)')
  BY DEF nPush, nPost, InPush, PushPlaces, PostPlaces
<1>3. nPush' = nPush + One(to \in PushPlaces) - One(from \in PushPlaces)
  BY <1>1, <1>2, ProducerMoves DEF One
<1>4. nPost' = nPost + One(to \in PostPlaces) - One(from \in PostPlaces)
  BY <1>1, <1>2, ProducerMoves DEF One
<1>5. nPop' = nPop /\ nRead' = nRead
  BY DEF nPop, nRead, InPop, ConsumersAt
<1>6. QED
  BY <1>3, <1>4, <1>5

\* What a move of a consumer does to all counts.
LEMMA ConsumerCounts ==
    ASSUME TypeOK, NEW c \in Consumers, NEW from, NEW to,
           ConsumerAt(c, from, to), UNCHANGED ppc
    PROVE  /\ nPop' = nPop + One(to \in PopPlaces) - One(from \in PopPlaces)
           /\ nRead' = nRead + One(to \in UnreadPlaces) - One(from \in UnreadPlaces)
           /\ nPush' = nPush /\ nPost' = nPost
<1>1. /\ cpc \in [Consumers -> ConsumerPlaces] /\ cpc[c] = from
      /\ cpc' = [cpc EXCEPT ![c] = to]
  BY DEF TypeOK, ConsumerAt
<1>2. /\ nPop = Cardinality(ConsumersAt(PopPlaces)) /\ nPop' = Cardinality(ConsumersAt(PopPlaces)')
      /\ nRead = Cardinality(ConsumersAt(UnreadPlaces))
      /\ nRead' = Cardinality(ConsumersAt(UnreadPlaces)')
  BY DEF nPop, nRead, InPop, PopPlaces, UnreadPlaces
<1>3. nPop' = nPop + One(to \in PopPlaces) - One(from \in PopPlaces)
  BY <1>1, <1>2, ConsumerMoves DEF One
<1>4. nRead' = nRead + One(to \in UnreadPlaces) - One(from \in UnreadPlaces)
  BY <1>1, <1>2, ConsumerMoves DEF One
<1>5. nPush' = nPush /\ nPost' = nPost
  BY DEF nPush, nPost, InPush, ProducersAt
<1>6. QED
  BY <1>3, <1>4, <1>5
-----------------------------------------------------------------------------
(* The inductive invariant                                                 *)

LEMMA InitIInv == Init => IInv
<1> SUFFICES ASSUME Init PROVE IInv
  OBVIOUS
<1>1. TypeOK /\ Owners /\ Carried
  BY RingAssumption DEF Init, TypeOK, Owners, Carried, Indices, ProducerPlaces, ConsumerPlaces
<1>2. /\ InPush = {} /\ InPop = {}
      /\ ProducersAt({"post"}) = {} /\ ConsumersAt({"lock", "read"}) = {}
  BY DEF Init, InPush, InPop, ProducersAt, ConsumersAt
<1>3. nPush = 0 /\ nPop = 0 /\ nPost = 0 /\ nRead = 0
  BY <1>2, FS_EmptySet DEF nPush, nPop, nPost, nRead
<1>4. PlacesConserved <=> space + data + nPush + nPop = Cap
  BY DEF PlacesConserved, nPush, nPop
<1>5. Filled = data + nRead + nPost
  BY DEF Filled, nRead, nPost
<1>6. PlacesConserved /\ Apart
  BY <1>3, <1>4, <1>5, RingAssumption DEF Init, Apart
<1>7. QED
  BY <1>1, <1>6 DEF IInv

\* Every step keeps the types and the owners of the mutexes.
LEMMA ControlStep ==
    ASSUME IInv, Next
    PROVE  TypeOK' /\ Owners'
<1> USE RingAssumption DEF IInv, ProducerPlaces, ConsumerPlaces, ProducerAt, ConsumerAt
<1> USE DEF TypeOK, Owners, pushVars, popVars
<1>1. ASSUME NEW p \in Producers, NEW v \in Values, Push(p, v)
      PROVE  TypeOK' /\ Owners'
  BY <1>1 DEF Push
<1>2. ASSUME NEW p \in Producers, WaitSpace(p)
      PROVE  TypeOK' /\ Owners'
  BY <1>2 DEF WaitSpace
<1>3. ASSUME NEW p \in Producers, LockP(p)
      PROVE  TypeOK' /\ Owners'
  BY <1>3 DEF LockP
<1>4. ASSUME NEW p \in Producers, WriteSlot(p)
      PROVE  TypeOK' /\ Owners'
  <2>1. p_step' \in Indices
    BY <1>4, AdvanceIs DEF WriteSlot, Indices
  <2>2. QED
    BY <1>4, <2>1 DEF WriteSlot
<1>5. ASSUME NEW p \in Producers, PostData(p)
      PROVE  TypeOK' /\ Owners'
  BY <1>5 DEF PostData
<1>6. ASSUME NEW p \in Producers, UnlockP(p)
      PROVE  TypeOK' /\ Owners'
  BY <1>6 DEF UnlockP
<1>7. ASSUME NEW c \in Consumers, Pop(c)
      PROVE  TypeOK' /\ Owners'
  BY <1>7 DEF Pop
<1>8. ASSUME NEW c \in Consumers, WaitData(c)
      PROVE  TypeOK' /\ Owners'
  BY <1>8 DEF WaitData
<1>9. ASSUME NEW c \in Consumers, LockC(c)
      PROVE  TypeOK' /\ Owners'
  BY <1>9 DEF LockC
<1>10. ASSUME NEW c \in Consumers, ReadSlot(c)
      PROVE  TypeOK' /\ Owners'
  <2>1. c_step' \in Indices
    BY <1>10, AdvanceIs DEF ReadSlot, Indices
  <2>2. QED
    BY <1>10, <2>1 DEF ReadSlot
<1>11. ASSUME NEW c \in Consumers, UnlockC(c)
      PROVE  TypeOK' /\ Owners'
  BY <1>11 DEF UnlockC
<1>12. ASSUME NEW c \in Consumers, PostSpace(c)
      PROVE  TypeOK' /\ Owners'
  BY <1>12 DEF PostSpace
<1>13. QED
  BY <1>1, <1>2, <1>3, <1>4, <1>5, <1>6, <1>7, <1>8, <1>9, <1>10, <1>11, <1>12
     DEF Next, ProducerStep, ConsumerStep

\* What the counts say: with a producer inside Push there is a slot that is not
\* filled, and with a consumer before its slot there is one that is.
LEMMA Room ==
    ASSUME IInv
    PROVE  /\ Filled \in 0..Cap /\ Filled = data + nRead + nPost
           /\ space + data + nPush + nPop = Cap
           /\ ProducersAt({"write"}) # {} => nPost = 0 /\ Filled < Cap
           /\ ConsumersAt({"lock", "read"}) # {} => nRead > 0
<1>1. Filled = data + nRead + nPost /\ space + data + nPush + nPop = Cap
  BY DEF IInv, PlacesConserved, Filled, nPush, nPop, nRead, nPost
<1>2. /\ space \in Nat /\ data \in Nat
      /\ nPush \in Nat /\ nPop \in Nat /\ nPost \in Nat /\ nRead \in Nat
      /\ nPost <= nPush /\ nRead <= nPop
  BY CountsAreNumbers DEF IInv, TypeOK
<1>3. ASSUME ProducersAt({"write"}) # {}
      PROVE  nPost = 0 /\ nPush > 0
  <2>1. PICK p \in Producers : ppc[p] = "write"
    BY <1>3 DEF ProducersAt
  <2>2. ProducersAt({"post"}) = {}
    BY <2>1 DEF ProducersAt, IInv, Owners
  <2>3. p \in InPush
    BY <2>1 DEF InPush, ProducersAt
  <2>4. QED
    BY <2>2, <2>3, <1>2, FS_EmptySet, SomeoneCounts, ProducersFinite DEF nPost, nPush, InPush
<1>4. ASSUME ConsumersAt({"lock", "read"}) # {}
      PROVE  nRead > 0
  BY <1>2, <1>4, FS_EmptySet, ConsumersFinite DEF nRead
<1>5. QED
  BY <1>1, <1>2, <1>3, <1>4, RingAssumption
\* The indices stay as far apart as slots are filled when one of them passes a slot,
\* or both stay and so does the number.
LEMMA IndexMoves ==
    ASSUME NEW p \in Indices, NEW c \in Indices, NEW n \in 0..Cap,
           p = c + n \/ p = c + n - Cap
    PROVE  /\ n < Cap => \/ Advance(p) = c + (n + 1)
                       \/ Advance(p) = c + (n + 1) - Cap
           /\ n > 0 => \/ p = Advance(c) + (n - 1)
                      \/ p = Advance(c) + (n - 1) - Cap
BY AdvanceIs, RingAssumption DEF Indices

\* No step loses or invents a place, and the indices move with the filled slots.
LEMMA CountStep ==
    ASSUME IInv, Next
    PROVE  PlacesConserved' /\ Apart'
<1> DEFINE Sum == space + data + nPush + nPop
           Full == data + nRead + nPost
<1>1. /\ PlacesConserved' <=> Sum' = Cap
      /\ Filled = Full /\ Filled' = Full' /\ Sum = Cap /\ Filled \in 0..Cap
  BY Room DEF PlacesConserved, Filled, nPush, nPop, nRead, nPost
<1>2. /\ space \in Nat /\ data \in Nat
      /\ nPush \in Nat /\ nPop \in Nat /\ nPost \in Nat /\ nRead \in Nat
  BY CountsAreNumbers DEF IInv, TypeOK
<1>3. p_step \in Indices /\ c_step \in Indices /\ TypeOK
  BY DEF IInv, TypeOK
<1>4. p_step = c_step + Full \/ p_step = c_step + Full - Cap
  BY <1>1 DEF IInv, Apart
<1> HIDE DEF Sum, Full
\* A step that moves neither index.
<1>5. ASSUME Sum' = Sum, Full' = Full, UNCHANGED <<p_step, c_step>>
      PROVE  PlacesConserved' /\ Apart'
  BY <1>1, <1>4, <1>5 DEF Apart
<1> USE DEF pushVars, popVars
<1>6. ASSUME NEW p \in Producers,
             \/ \E v \in Values : Push(p, v)
             \/ WaitSpace(p) \/ LockP(p) \/ PostData(p) \/ UnlockP(p)
      PROVE  PlacesConserved' /\ Apart'
  <2>1. Sum' = Sum /\ Full' = Full
    <3>1. CASE \E v \in Values : Push(p, v)
      <4>1. ProducerAt(p, "idle", "space") /\ UNCHANGED <<space, data, cpc>>
        BY <3>1 DEF Push
      <4>2. QED
        BY <4>1, <1>2, <1>3, ProducerCounts DEF Sum, Full, One, PushPlaces, PostPlaces
    <3>2. CASE WaitSpace(p)
      <4>1. /\ ProducerAt(p, "space", "lock") /\ space' = space - 1
            /\ UNCHANGED <<data, cpc>>
        BY <3>2 DEF WaitSpace
      <4>2. QED
        BY <4>1, <1>2, <1>3, ProducerCounts DEF Sum, Full, One, PushPlaces, PostPlaces
    <3>3. CASE LockP(p)
      <4>1. ProducerAt(p, "lock", "write") /\ UNCHANGED <<space, data, cpc>>
        BY <3>3 DEF LockP
      <4>2. QED
        BY <4>1, <1>2, <1>3, ProducerCounts DEF Sum, Full, One, PushPlaces, PostPlaces
    <3>4. CASE PostData(p)
      <4>1. /\ ProducerAt(p, "post", "unlock") /\ data' = data + 1
            /\ UNCHANGED <<space, cpc>>
        BY <3>4 DEF PostData
      <4>2. QED
        BY <4>1, <1>2, <1>3, ProducerCounts DEF Sum, Full, One, PushPlaces, PostPlaces
    <3>5. CASE UnlockP(p)
      <4>1. ProducerAt(p, "unlock", "idle") /\ UNCHANGED <<space, data, cpc>>
        BY <3>5 DEF UnlockP
      <4>2. QED
        BY <4>1, <1>2, <1>3, ProducerCounts DEF Sum, Full, One, PushPlaces, PostPlaces
    <3>6. QED
      BY <1>6, <3>1, <3>2, <3>3, <3>4, <3>5
  <2>2. UNCHANGED <<p_step, c_step>>
    BY <1>6 DEF Push, WaitSpace, LockP, PostData, UnlockP
  <2>3. QED
    BY <2>1, <2>2, <1>5
<1>7. ASSUME NEW p \in Producers, WriteSlot(p)
      PROVE  PlacesConserved' /\ Apart'
  <2>1. /\ ProducerAt(p, "write", "post") /\ p_step' = Advance(p_step)
        /\ UNCHANGED <<space, data, cpc, c_step>>
    BY <1>7 DEF WriteSlot
  <2>2. Sum' = Sum /\ Full' = Full + 1
    BY <2>1, <1>2, <1>3, ProducerCounts DEF Sum, Full, One, PushPlaces, PostPlaces
  <2>3. Full < Cap
    <3>1. p \in ProducersAt({"write"})
      BY <2>1 DEF ProducersAt, ProducerAt
    <3>2. QED
      BY <3>1, <1>1, Room
  <2>4. QED
    BY <2>1, <2>2, <2>3, <1>1, <1>3, <1>4, IndexMoves DEF Apart
<1>8. ASSUME NEW c \in Consumers,
             Pop(c) \/ WaitData(c) \/ LockC(c) \/ UnlockC(c) \/ PostSpace(c)
      PROVE  PlacesConserved' /\ Apart'
  <2>1. Sum' = Sum /\ Full' = Full
    <3>1. CASE Pop(c)
      <4>1. ConsumerAt(c, "idle", "data") /\ UNCHANGED <<space, data, ppc>>
        BY <3>1 DEF Pop
      <4>2. QED
        BY <4>1, <1>2, <1>3, ConsumerCounts DEF Sum, Full, One, PopPlaces, UnreadPlaces
    <3>2. CASE WaitData(c)
      <4>1. /\ ConsumerAt(c, "data", "lock") /\ data' = data - 1
            /\ UNCHANGED <<space, ppc>>
        BY <3>2 DEF WaitData
      <4>2. QED
        BY <4>1, <1>2, <1>3, ConsumerCounts DEF Sum, Full, One, PopPlaces, UnreadPlaces
    <3>3. CASE LockC(c)
      <4>1. ConsumerAt(c, "lock", "read") /\ UNCHANGED <<space, data, ppc>>
        BY <3>3 DEF LockC
      <4>2. QED
        BY <4>1, <1>2, <1>3, ConsumerCounts DEF Sum, Full, One, PopPlaces, UnreadPlaces
    <3>4. CASE UnlockC(c)
      <4>1. ConsumerAt(c, "unlock", "post") /\ UNCHANGED <<space, data, ppc>>
        BY <3>4 DEF UnlockC
      <4>2. QED
        BY <4>1, <1>2, <1>3, ConsumerCounts DEF Sum, Full, One, PopPlaces, UnreadPlaces
    <3>5. CASE PostSpace(c)
      <4>1. /\ ConsumerAt(c, "post", "idle") /\ space' = space + 1
            /\ UNCHANGED <<data, ppc>>
        BY <3>5 DEF PostSpace
      <4>2. QED
        BY <4>1, <1>2, <1>3, ConsumerCounts DEF Sum, Full, One, PopPlaces, UnreadPlaces
    <3>6. QED
      BY <1>8, <3>1, <3>2, <3>3, <3>4, <3>5
  <2>2. UNCHANGED <<p_step, c_step>>
    BY <1>8 DEF Pop, WaitData, LockC, UnlockC, PostSpace
  <2>3. QED
    BY <2>1, <2>2, <1>5
<1>9. ASSUME NEW c \in Consumers, ReadSlot(c)
      PROVE  PlacesConserved' /\ Apart'
  <2>1. /\ ConsumerAt(c, "read", "unlock") /\ c_step' = Advance(c_step)
        /\ UNCHANGED <<space, data, ppc, p_step>>
    BY <1>9 DEF ReadSlot
  <2>2. Sum' = Sum /\ Full' = Full - 1
    BY <2>1, <1>2, <1>3, ConsumerCounts DEF Sum, Full, One, PopPlaces, UnreadPlaces
  <2>3. Full > 0
    <3>1. c \in ConsumersAt({"lock", "read"})
      BY <2>1 DEF ConsumersAt, ConsumerAt
    <3>2. nRead > 0
      BY <3>1, Room
    <3>3. QED
      BY <3>2, <1>2 DEF Full
  <2>4. QED
    BY <2>1, <2>2, <2>3, <1>1, <1>3, <1>4, IndexMoves DEF Apart
<1>10. QED
  BY <1>6, <1>7, <1>8, <1>9 DEF Next, ProducerStep, ConsumerStep
\* A pushed value stays with its producer, and in its slot until it is posted.
LEMMA CarriedStep ==
    ASSUME IInv, Next
    PROVE  Carried'
<1> USE DEF IInv, TypeOK, Owners, Carried, ProducerAt, ConsumerAt, ProducerPlaces
<1> USE DEF pushVars, popVars
<1>1. ASSUME NEW p \in Producers, NEW v \in Values, Push(p, v)
      PROVE  Carried'
  BY <1>1, RingAssumption DEF Push, Before
<1>2. ASSUME NEW p \in Producers, WaitSpace(p) \/ LockP(p) \/ PostData(p) \/ UnlockP(p)
      PROVE  Carried'
  BY <1>2 DEF WaitSpace, LockP, PostData, UnlockP, Before
<1>3. ASSUME NEW p \in Producers, WriteSlot(p)
      PROVE  Carried'
  <2>1. Before(p_step') = p_step
    BY <1>3, AdvanceIs, RingAssumption DEF WriteSlot, Before, Indices
  <2>2. ring'[p_step] = in[p] /\ in' = in
    BY <1>3 DEF WriteSlot
  <2>3. \A q \in Producers : ppc'[q] = "post" => q = p
    BY <1>3, RingAssumption DEF WriteSlot
  <2>4. \A q \in Producers : ppc'[q] = "idle" <=> ppc[q] = "idle"
    BY <1>3 DEF WriteSlot
  <2>5. QED
    BY <2>1, <2>2, <2>3, <2>4
<1>4. ASSUME NEW c \in Consumers,
             \/ Pop(c) \/ WaitData(c) \/ LockC(c) \/ ReadSlot(c)
             \/ UnlockC(c) \/ PostSpace(c)
      PROVE  Carried'
  BY <1>4 DEF Pop, WaitData, LockC, ReadSlot, UnlockC, PostSpace, Before
<1>5. QED
  BY <1>1, <1>2, <1>3, <1>4 DEF Next, ProducerStep, ConsumerStep

LEMMA StutterIInv == IInv /\ UNCHANGED vars => IInv'
BY DEF IInv, TypeOK, Owners, Carried, PlacesConserved, Apart, Before, Filled,
       InPush, InPop, ProducersAt, ConsumersAt, vars

LEMMA Invariance == Spec => []IInv
<1>1. IInv /\ [Next]_vars => IInv'
  BY ControlStep, CountStep, CarriedStep, StutterIInv DEF IInv
<1>2. QED
  BY InitIInv, <1>1, PTL DEF Spec

-----------------------------------------------------------------------------
(* Safety                                                                  *)

\* No place of the ring is lost or invented, however many threads are between their
\* two semaphore operations (RingQueue.hpp:45-54 and 62-69).
THEOREM PlacesNeverLost == Spec => []PlacesConserved
<1>1. IInv => PlacesConserved
  BY DEF IInv
<1>2. QED
  BY <1>1, Invariance, PTL

\* No slot is written while it is read, although producers and consumers have mutexes
\* of their own (RingQueue.hpp:47-52 and 63-67).
THEOREM SlotsExclusive == Spec => []NoSlotRace
<1>1. IInv => NoSlotRace
  <2> SUFFICES ASSUME IInv,
                      NEW p \in ProducersAt({"write"}), NEW c \in ConsumersAt({"lock", "read"})
               PROVE  p_step # c_step
    BY DEF NoSlotRace, ConsumersAt
  <2>1. Filled \in 0..Cap /\ Filled < Cap /\ Filled > 0
    BY Room, CountsAreNumbers DEF IInv, TypeOK
  <2>2. p_step \in Indices /\ c_step \in Indices
    BY DEF IInv, TypeOK
  <2>3. p_step = c_step + Filled \/ p_step = c_step + Filled - Cap
    BY DEF IInv, Apart
  <2>4. QED
    BY <2>1, <2>2, <2>3, RingAssumption DEF Indices
<1>2. QED
  BY <1>1, Invariance, PTL
-----------------------------------------------------------------------------
(* The ring queue implements the FIFO buffer                               *)

\* The i-th of the slots that begin at index start, and what they hold.
Slot(start, i) == IF start + i - 1 < Cap THEN start + i - 1 ELSE start + i - 1 - Cap
Window(r, start, n) == [i \in 1..n |-> r[(start + i - 1) % Cap]]

Elements == Values \cup {NoValue}

LEMMA WindowIs ==
    ASSUME NEW r \in [Indices -> Elements], NEW start \in Indices, NEW n \in 0..Cap
    PROVE  /\ Window(r, start, n) \in Seq(Elements)
           /\ Len(Window(r, start, n)) = n
           /\ \A i \in 1..n : /\ Slot(start, i) \in Indices
                             /\ Window(r, start, n)[i] = r[Slot(start, i)]
<1>1. \A i \in 1..n : (start + i - 1) % Cap = Slot(start, i) /\ Slot(start, i) \in Indices
  BY RingAssumption, SMT DEF Slot, Indices
<1>2. Window(r, start, n) \in [1..n -> Elements]
  BY <1>1 DEF Window
<1>3. QED
  BY <1>1, <1>2, RingAssumption DEF Window

\* Writing a slot outside of the window does not change what it holds.
LEMMA WindowKept ==
    ASSUME NEW r \in [Indices -> Elements], NEW start \in Indices, NEW n \in 0..Cap-1,
           NEW slot \in Indices, slot = start + n \/ slot = start + n - Cap,
           NEW v \in Elements
    PROVE  Window([r EXCEPT ![slot] = v], start, n) = Window(r, start, n)
<1> DEFINE q == [r EXCEPT ![slot] = v]
           w == Window(r, start, n)
           u == Window(q, start, n)
<1>1. /\ n \in 0..Cap /\ q \in [Indices -> Elements]
      /\ \A i \in Indices : i # slot => q[i] = r[i]
  BY RingAssumption
<1> HIDE DEF q
<1>2. /\ w \in Seq(Elements) /\ Len(w) = n
      /\ \A i \in 1..n : Slot(start, i) \in Indices /\ w[i] = r[Slot(start, i)]
  BY <1>1, WindowIs
<1>3. /\ u \in Seq(Elements) /\ Len(u) = n
      /\ \A i \in 1..n : u[i] = q[Slot(start, i)]
  BY <1>1, WindowIs
<1>4. \A i \in 1..n : Slot(start, i) # slot
  BY RingAssumption DEF Slot, Indices
<1> HIDE DEF w, u
<1>5. \A i \in 1..n : u[i] = w[i]
  BY <1>1, <1>2, <1>3, <1>4
<1>6. u = w
  BY <1>2, <1>3, <1>5, SeqEqual
<1>7. QED
  BY <1>6 DEF q, u, w

\* The slot behind the window makes it longer at its end.
LEMMA WindowGrows ==
    ASSUME NEW r \in [Indices -> Elements], NEW start \in Indices, NEW n \in 0..Cap-1
    PROVE  Window(r, start, n + 1) = Append(Window(r, start, n), r[Slot(start, n + 1)])
<1> DEFINE w == Window(r, start, n)
           u == Window(r, start, n + 1)
           x == r[Slot(start, n + 1)]
<1>1. n \in 0..Cap /\ n + 1 \in 0..Cap
  BY RingAssumption
<1>2. /\ w \in Seq(Elements) /\ Len(w) = n
      /\ \A i \in 1..n : w[i] = r[Slot(start, i)]
  BY <1>1, WindowIs
<1>3. /\ u \in Seq(Elements) /\ Len(u) = n + 1
      /\ \A i \in 1..n+1 : Slot(start, i) \in Indices /\ u[i] = r[Slot(start, i)]
  BY <1>1, WindowIs
<1>4. x \in Elements
  BY <1>1, <1>3
<1> HIDE DEF w, u
<1>5. /\ Append(w, x) \in Seq(Elements) /\ Len(Append(w, x)) = n + 1
      /\ \A i \in 1..n+1 : Append(w, x)[i] = IF i = n + 1 THEN x ELSE w[i]
  BY <1>1, <1>2, <1>4
<1>6. \A i \in 1..n+1 : u[i] = Append(w, x)[i]
  BY <1>1, <1>2, <1>3, <1>5
<1>7. u = Append(w, x)
  BY <1>3, <1>5, <1>6, SeqEqual
<1>8. QED
  BY <1>7 DEF u, w

\* A window that begins one slot later has lost its first element.
LEMMA WindowShrinks ==
    ASSUME NEW r \in [Indices -> Elements], NEW start \in Indices, NEW n \in 1..Cap
    PROVE  /\ Window(r, start, n) # <<>> /\ Head(Window(r, start, n)) = r[start]
           /\ Window(r, Advance(start), n - 1) = Tail(Window(r, start, n))
<1> DEFINE w == Window(r, start, n)
           u == Window(r, Advance(start), n - 1)
<1>1. n \in 0..Cap /\ n - 1 \in 0..Cap /\ Advance(start) \in Indices
  BY RingAssumption, AdvanceIs DEF Indices
<1>2. /\ w \in Seq(Elements) /\ Len(w) = n
      /\ \A i \in 1..n : w[i] = r[Slot(start, i)]
  BY <1>1, WindowIs
<1>3. /\ u \in Seq(Elements) /\ Len(u) = n - 1
      /\ \A i \in 1..n-1 : u[i] = r[Slot(Advance(start), i)]
  BY <1>1, WindowIs
<1>4. Slot(start, 1) = start /\ \A i \in 1..n-1 : Slot(Advance(start), i) = Slot(start, i + 1)
  BY AdvanceIs, RingAssumption DEF Slot, Indices
<1> HIDE DEF w, u
<1>5. w # <<>> /\ Head(w) = w[1]
  BY <1>2
<1>6. /\ Tail(w) \in Seq(Elements) /\ Len(Tail(w)) = n - 1
      /\ \A i \in 1..n-1 : Tail(w)[i] = w[i + 1]
  BY <1>2, <1>5, HeadTailProperties
<1>7. ASSUME NEW i \in 1..n-1
      PROVE  u[i] = Tail(w)[i]
  <2>1. i + 1 \in 1..n
    OBVIOUS
  <2>2. w[i + 1] = r[Slot(start, i + 1)]
    BY <2>1, <1>2
  <2>3. QED
    BY <2>2, <1>3, <1>4, <1>6
<1>8. u = Tail(w)
  BY <1>3, <1>6, <1>7, SeqEqual
<1>9. w[1] = r[start]
  BY <1>1, <1>2, <1>4
<1>10. QED
  BY <1>5, <1>8, <1>9 DEF u, w
Pending == [p \in Producers |-> IF ppc[p] = "unlock" THEN NoValue ELSE in[p]]
bufferVars == <<Contents, Pending, out>>

\* The contents of the buffer are the posted slots.
LEMMA ContentsIs ==
    /\ Contents = Window(ring, c_step, Posted)
    /\ Contents' = Window(ring', c_step', Posted')
    /\ Posted = data + nRead /\ Posted' = data' + nRead'
BY DEF Contents, Window, Posted, nRead

\* A step of a producer that only moves it.
LEMMA ProducerStutters ==
    ASSUME IInv, NEW p \in Producers, WaitSpace(p) \/ LockP(p) \/ UnlockP(p)
    PROVE  UNCHANGED bufferVars
<1> USE DEF popVars
<1>1. UNCHANGED <<ring, c_step, data, cpc, out>>
  BY DEF WaitSpace, LockP, UnlockP
<1>2. nRead' = nRead
  BY <1>1 DEF nRead, ConsumersAt
<1>3. Contents' = Contents
  BY <1>1, <1>2, ContentsIs
<1>4. Pending' = Pending
  BY DEF WaitSpace, LockP, UnlockP, ProducerAt, Pending, IInv, TypeOK, Carried
<1>5. QED
  BY <1>1, <1>3, <1>4 DEF bufferVars

\* A step of a consumer that takes no value.
LEMMA ConsumerStutters ==
    ASSUME IInv, NEW c \in Consumers,
           Pop(c) \/ WaitData(c) \/ LockC(c) \/ UnlockC(c) \/ PostSpace(c)
    PROVE  UNCHANGED bufferVars
<1> USE DEF pushVars
<1>1. UNCHANGED <<ring, c_step, ppc, in, out>>
  BY DEF Pop, WaitData, LockC, UnlockC, PostSpace
<1>2. nRead \in Nat /\ data \in Nat /\ TypeOK
  BY CountsAreNumbers DEF IInv, TypeOK
<1>3. data' + nRead' = data + nRead
  <2>1. CASE Pop(c)
    BY <2>1, <1>2, ConsumerCounts DEF Pop, One, UnreadPlaces
  <2>2. CASE WaitData(c)
    <3>1. ConsumerAt(c, "data", "lock") /\ data' = data - 1 /\ UNCHANGED ppc
      BY <2>2 DEF WaitData
    <3>2. nRead' = nRead + 1
      BY <3>1, <1>2, ConsumerCounts DEF One, UnreadPlaces
    <3>3. QED
      BY <3>1, <3>2, <1>2
  <2>3. CASE LockC(c)
    BY <2>3, <1>2, ConsumerCounts DEF LockC, One, UnreadPlaces
  <2>4. CASE UnlockC(c)
    BY <2>4, <1>2, ConsumerCounts DEF UnlockC, One, UnreadPlaces
  <2>5. CASE PostSpace(c)
    BY <2>5, <1>2, ConsumerCounts DEF PostSpace, One, UnreadPlaces
  <2>6. QED
    BY <2>1, <2>2, <2>3, <2>4, <2>5
<1>4. Contents' = Contents
  BY <1>1, <1>3, ContentsIs
<1>5. Pending' = Pending
  BY <1>1 DEF Pending
<1>6. QED
  BY <1>1, <1>4, <1>5 DEF bufferVars

\* Push announces a value.
LEMMA PushBegins ==
    ASSUME IInv, NEW p \in Producers, NEW v \in Values, Push(p, v)
    PROVE  Buffer!Begin(p, v)
<1>1. UNCHANGED <<ring, c_step, data, cpc, out>>
  BY DEF Push, popVars
<1>2. nRead' = nRead
  BY <1>1 DEF nRead, ConsumersAt
<1>3. Contents' = Contents
  BY <1>1, <1>2, ContentsIs
<1>4. Pending[p] = NoValue /\ Pending' = [Pending EXCEPT ![p] = v]
  BY DEF Push, ProducerAt, Pending, IInv, TypeOK, Carried
<1>5. QED
  BY <1>1, <1>3, <1>4 DEF Buffer!Begin, Pending

\* WriteSlot does not touch what is posted.
LEMMA WriteStutters ==
    ASSUME IInv, NEW p \in Producers, WriteSlot(p)
    PROVE  UNCHANGED bufferVars
<1>1. /\ ppc[p] = "write" /\ UNCHANGED <<c_step, data, cpc, in, out>>
      /\ ring' = [ring EXCEPT ![p_step] = in[p]]
  BY DEF WriteSlot, popVars, ProducerAt
<1>2. nRead' = nRead
  BY <1>1 DEF nRead, ConsumersAt
<1>3. p \in ProducersAt({"write"})
  BY <1>1 DEF ProducersAt
<1>4. Filled = Posted /\ Posted \in 0..Cap-1
  <2>1. nPost = 0 /\ Filled < Cap /\ Filled \in 0..Cap /\ Filled = data + nRead + nPost
    BY <1>3, Room
  <2>2. data \in Nat /\ nRead \in Nat
    BY CountsAreNumbers DEF IInv, TypeOK
  <2>3. QED
    BY <2>1, <2>2, ContentsIs, RingAssumption
<1>5. p_step = c_step + Posted \/ p_step = c_step + Posted - Cap
  BY <1>4 DEF IInv, Apart
<1>6. /\ ring \in [Indices -> Elements] /\ in[p] \in Elements
      /\ p_step \in Indices /\ c_step \in Indices
  BY DEF IInv, TypeOK, Elements
<1>7. Window(ring', c_step, Posted) = Window(ring, c_step, Posted)
  BY <1>1, <1>4, <1>5, <1>6, WindowKept
<1>8. Contents' = Contents
  BY <1>1, <1>2, <1>7, ContentsIs
<1>9. Pending' = Pending
  BY DEF WriteSlot, ProducerAt, Pending, IInv, TypeOK
<1>10. QED
  BY <1>1, <1>8, <1>9 DEF bufferVars

\* V(cdata_sem_) puts the value into the buffer.
LEMMA PostPuts ==
    ASSUME IInv, NEW p \in Producers, PostData(p)
    PROVE  Buffer!Put(p)
<1>1. /\ ppc[p] = "post" /\ data' = data + 1
      /\ UNCHANGED <<ring, c_step, p_step, cpc, in, out>>
  BY DEF PostData, popVars, ProducerAt
<1>2. nRead' = nRead
  BY <1>1 DEF nRead, ConsumersAt
<1>3. data \in Nat /\ nRead \in Nat
  BY CountsAreNumbers DEF IInv, TypeOK
<1>4. Posted' = Posted + 1
  BY <1>1, <1>2, <1>3, ContentsIs
<1>5. nPost = 1
  <2>1. ProducersAt({"post"}) = {p}
    BY <1>1, RingAssumption DEF ProducersAt, IInv, Owners
  <2>2. QED
    BY <2>1, FS_Singleton DEF nPost
<1>6. Filled = Posted + 1 /\ Posted \in 0..Cap-1
  BY <1>3, <1>5, Room, ContentsIs, RingAssumption
<1>7. Slot(c_step, Posted + 1) = Before(p_step)
  <2>1. p_step = c_step + (Posted + 1) \/ p_step = c_step + (Posted + 1) - Cap
    BY <1>6 DEF IInv, Apart
  <2>2. p_step \in Indices /\ c_step \in Indices
    BY DEF IInv, TypeOK
  <2>3. QED
    BY <1>6, <2>1, <2>2, RingAssumption DEF Slot, Before, Indices
<1>8. ring[Before(p_step)] = in[p] /\ in[p] # NoValue
  BY <1>1 DEF IInv, Carried
<1>9. ring \in [Indices -> Elements] /\ c_step \in Indices
  BY DEF IInv, TypeOK, Elements
<1>10. Contents' = Append(Contents, in[p])
  <2>1. Window(ring, c_step, Posted + 1) = Append(Window(ring, c_step, Posted), in[p])
    BY <1>6, <1>7, <1>8, <1>9, WindowGrows
  <2>2. QED
    BY <1>1, <1>4, <2>1, ContentsIs
<1>11. Len(Contents) = Posted
  BY <1>6, <1>9, WindowIs, ContentsIs, RingAssumption
<1>12. /\ Pending[p] = in[p] /\ Pending' = [Pending EXCEPT ![p] = NoValue]
  BY <1>1 DEF PostData, ProducerAt, Pending, IInv, TypeOK
<1>13. QED
  BY <1>1, <1>6, <1>8, <1>10, <1>11, <1>12, RingAssumption DEF Buffer!Put, Pending

\* ReadSlot takes the oldest value out of it.
LEMMA ReadGets ==
    ASSUME IInv, NEW c \in Consumers, ReadSlot(c)
    PROVE  Buffer!Get(c)
<1>1. /\ ConsumerAt(c, "read", "unlock") /\ UNCHANGED <<ring, data, ppc, in>>
      /\ out' = [out EXCEPT ![c] = ring[c_step]] /\ c_step' = Advance(c_step)
  BY DEF ReadSlot, pushVars
<1>2. data \in Nat /\ nRead \in Nat /\ TypeOK
  BY CountsAreNumbers DEF IInv, TypeOK
<1>3. nRead' = nRead - 1
  BY <1>1, <1>2, ConsumerCounts DEF One, UnreadPlaces
<1>4. nRead > 0 /\ Filled \in 0..Cap /\ Filled = data + nRead + nPost
  <2>1. c \in ConsumersAt({"lock", "read"})
    BY <1>1 DEF ConsumersAt, ConsumerAt
  <2>2. QED
    BY <2>1, Room
<1>5. Posted \in 1..Cap /\ Posted' = Posted - 1
  BY <1>1, <1>2, <1>3, <1>4, ContentsIs, CountsAreNumbers, RingAssumption
<1>6. ring \in [Indices -> Elements] /\ c_step \in Indices
  BY DEF IInv, TypeOK, Elements
<1>7. /\ Contents # <<>> /\ Head(Contents) = ring[c_step]
      /\ Contents' = Tail(Contents)
  BY <1>1, <1>5, <1>6, WindowShrinks, ContentsIs
<1>8. Pending' = Pending
  BY <1>1 DEF Pending
<1>9. QED
  BY <1>1, <1>7, <1>8 DEF Buffer!Get, Pending

\* The ring queue implements the FIFO buffer: values come out in the order in which
\* they were posted, each once and to one consumer, and never more than cap_ are
\* inside (RingQueue.hpp:40-70).
THEOREM ImplementsFifo == Spec => ImplementsBuffer
<1>1. Init => Buffer!Init
  <2> SUFFICES ASSUME Init PROVE Buffer!Init
    OBVIOUS
  <2>1. ConsumersAt({"lock", "read"}) = {}
    BY DEF Init, ConsumersAt
  <2>2. Posted = 0
    <3>1. nRead = 0
      BY <2>1, FS_EmptySet DEF nRead
    <3>2. QED
      BY <3>1, ContentsIs DEF Init
  <2>3. Contents = <<>>
    BY <2>2 DEF Contents
  <2>4. QED
    BY <2>3 DEF Init, Buffer!Init
<1>2. IInv /\ [Next]_vars => [Buffer!Next]_bufferVars
  <2> SUFFICES ASSUME IInv, [Next]_vars PROVE [Buffer!Next]_bufferVars
    OBVIOUS
  <2>1. ASSUME NEW p \in Producers, ProducerStep(p) \/ \E v \in Values : Push(p, v)
        PROVE  [Buffer!Next]_bufferVars
    BY <2>1, PushBegins, PostPuts, WriteStutters, ProducerStutters
       DEF ProducerStep, Buffer!Next
  <2>2. ASSUME NEW c \in Consumers, ConsumerStep(c) \/ Pop(c)
        PROVE  [Buffer!Next]_bufferVars
    BY <2>2, ReadGets, ConsumerStutters DEF ConsumerStep, Buffer!Next
  <2>3. CASE UNCHANGED vars
    BY <2>3 DEF vars, bufferVars, Contents, Posted, ConsumersAt, Pending
  <2>4. QED
    BY <2>1, <2>2, <2>3 DEF Next
<1>3. QED
  BY <1>1, <1>2, Invariance, PTL DEF Spec, ImplementsBuffer, Buffer!Spec, bufferVars, Pending
=============================================================================
