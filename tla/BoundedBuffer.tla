---------------------------- MODULE BoundedBuffer ----------------------------
(***************************************************************************)
(* What the ring queue of 11.sem_cp promises its producers and consumers:  *)
(* a FIFO buffer of Cap places.  A producer announces the value it is      *)
(* pushing (Push of pending) and at some later moment the value takes a    *)
(* place (Put); a consumer receives the oldest value (Get).                *)
(***************************************************************************)
EXTENDS Naturals, Sequences

CONSTANTS Producers, Consumers, Values, NoValue, Cap

VARIABLES buf,      \* the values in the buffer, oldest first
          pending,  \* the value each producer is pushing, or NoValue
          got       \* the last value each consumer received

Init ==
    /\ buf = <<>>
    /\ pending = [p \in Producers |-> NoValue]
    /\ got = [c \in Consumers |-> NoValue]

Begin(p, v) ==
    /\ pending[p] = NoValue
    /\ pending' = [pending EXCEPT ![p] = v]
    /\ UNCHANGED <<buf, got>>

Put(p) ==
    /\ pending[p] # NoValue
    /\ Len(buf) < Cap
    /\ buf' = Append(buf, pending[p])
    /\ pending' = [pending EXCEPT ![p] = NoValue]
    /\ UNCHANGED got

Get(c) ==
    /\ buf # <<>>
    /\ got' = [got EXCEPT ![c] = Head(buf)]
    /\ buf' = Tail(buf)
    /\ UNCHANGED pending

Next ==
    \/ \E p \in Producers : Put(p) \/ \E v \in Values : Begin(p, v)
    \/ \E c \in Consumers : Get(c)

Spec == Init /\ [][Next]_<<buf, pending, got>>
=============================================================================
