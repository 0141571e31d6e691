-------------------------------- MODULE Tickets --------------------------------
(***************************************************************************)
(* The ticket sale of Thread/Main.cc over Thread/Thread.hpp: threads test, *)
(* print and decrement a counter without a lock.  The decrement is a read  *)
(* and a write, as the compiler may have it.  Thread has a _tid that is    *)
(* not initialised when pthread_create fails: what Join does with it is    *)
(* undefined, and it may crash or return.                                  *)
(***************************************************************************)
EXTENDS Integers, FiniteSets

CONSTANTS Threads, (* the four of main are 1..4     *)
          Stock    (* tickets at first, 10000 there *)

TicketsAssumption == Stock \in Nat /\ IsFiniteSet(Threads) /\ Threads = 1..Cardinality(Threads)

VARIABLES
    pc,      \* where each thread is
    main,    \* "start" and "join" with the thread it has come to
    tickets,
    reg,     \* what each thread has read for its decrement
    sales    \* decrements done

vars == <<pc, main, tickets, reg, sales>>

At(what, n) == [what |-> what, thread |-> n]
Last(n) == n + 1 \notin Threads
Returned == At("returned", 0)
Crashed == At("crashed", 0)

Init ==
    /\ pc = [t \in Threads |-> "off"]
    /\ main = At("start", 1)
    /\ tickets = Stock
    /\ reg = [t \in Threads |-> 0]
    /\ sales = 0

Goto(t, place) == pc' = [pc EXCEPT ![t] = place]

-----------------------------------------------------------------------------
(* main                                                                    *)

Advance(n) ==
    main' = CASE ~Last(n) -> At(main.what, n + 1)
              [] Last(n) /\ main.what = "start" -> At("join", 1)
              [] OTHER -> Returned

\* Start returns false for a failing pthread_create; main does not look.
Start(t) ==
    /\ main = At("start", t)
    /\ Goto(t, "test") \/ Goto(t, "failed")
    /\ Advance(t)
    /\ UNCHANGED <<tickets, reg, sales>>

\* Mutant: a thread that has not been seen running is not waited for.
JoinRunning(t) ==
    /\ main = At("join", t)
    /\ Advance(t)
    /\ UNCHANGED <<pc, tickets, reg, sales>>

Join(t) ==
    /\ main = At("join", t)
    /\ \/ pc[t] \in {"returned", "failed"} /\ Advance(t)
       \/ pc[t] = "failed" /\ main' = Crashed
    /\ UNCHANGED <<pc, tickets, reg, sales>>

-----------------------------------------------------------------------------
(* route                                                                   *)

\* The end of main, or its crash, ends all threads.
Alive == main \notin {Returned, Crashed}

TestTickets(t) ==
    /\ Alive /\ pc[t] = "test"
    /\ Goto(t, IF tickets > 0 THEN "sell" ELSE "returned")
    /\ UNCHANGED <<main, tickets, reg, sales>>

\* The ticket is printed and its number read once more.
ReadTickets(t) ==
    /\ Alive /\ pc[t] = "sell" /\ Goto(t, "write")
    /\ reg' = [reg EXCEPT ![t] = tickets]
    /\ UNCHANGED <<main, tickets, sales>>

\* Mutant: a sale takes two tickets.
WriteTicketsTwice(t) ==
    /\ Alive /\ pc[t] = "write" /\ Goto(t, "test")
    /\ tickets' = reg[t] - 2
    /\ sales' = sales + 1
    /\ UNCHANGED <<main, reg>>

WriteTickets(t) ==
    /\ Alive /\ pc[t] = "write" /\ Goto(t, "test")
    /\ tickets' = reg[t] - 1
    /\ sales' = sales + 1
    /\ UNCHANGED <<main, reg>>

-----------------------------------------------------------------------------
MainStep == \E t \in Threads : Start(t) \/ Join(t)
ThreadStep(t) == TestTickets(t) \/ ReadTickets(t) \/ WriteTickets(t)

Next == MainStep \/ \E t \in Threads : ThreadStep(t)

Spec == Init /\ [][Next]_vars

-----------------------------------------------------------------------------
(* Properties                                                              *)

\* Lost decrements sell too many tickets, never too few: the counter is never
\* further down than by the sales made (Main.cc:14-19).
NeverUndersold == tickets >= Stock - sales

\* When main returns and threads could be made, all tickets have been sold at least
\* once (Main.cc:23, 40-43).
SoldOut ==
    main = Returned /\ (\E t \in Threads : pc[t] # "failed") => sales >= Stock
=============================================================================
