----------------------------- MODULE ThreadLesson -----------------------------
(***************************************************************************)
(* The four programs of 8.Multithreading, each of one main and its         *)
(* threads.  testThread.cc hands a thread an object on the heap, which the *)
(* thread deletes, and waits for the thread.  Teach_test.cc starts a       *)
(* std::thread that counts down and, in a loop without an end, never comes *)
(* to its join.  MyPthread.cc has a counter of every thread's own,         *)
(* testthread.cc three threads that share nothing.                         *)
(***************************************************************************)
EXTENDS Integers

CONSTANTS Crowd,   (* the threads of testthread.cc; the others have the first       *)
          First, Main,
          Rounds,  (* cnt of testThread.cc, num of Teach_test.cc                    *)
          MaxGval  (* bound: how far gval is counted up                             *)

ThreadLessonAssumption ==
    First \in Crowd /\ Main \notin Crowd /\ Rounds \in Nat /\ MaxGval \in Nat

VARIABLES
    program, \* which of the four it is
    pc,      \* of main and of the threads
    td,      \* the ThreadData: "none", "live" or "deleted"
    cnt,     \* cnt or num of the thread
    gval     \* the gval of each: what it has been counted up by

vars == <<program, pc, td, cnt, gval>>

Programs == {"testThread", "MyPthread", "testthread", "Teach_test"}
Started == IF program = "testthread" THEN Crowd ELSE {First}

\* A program has ended when main has returned or std::thread could not be made.
Ended == pc[Main] \in {"returned", "terminated"}

Init ==
    /\ program \in Programs
    /\ pc = [t \in Crowd \cup {Main} |-> IF t = Main THEN "begin" ELSE "none"]
    /\ td = "none"
    /\ cnt = Rounds
    /\ gval = [t \in Crowd \cup {Main} |-> 0]

Of(p, t, here) == program = p /\ ~Ended /\ pc[t] = here

-----------------------------------------------------------------------------
(* Main                                                                    *)

NewThreadData ==
    /\ Of("testThread", Main, "begin")
    /\ td' = "live" /\ pc' = [pc EXCEPT ![Main] = "create"]
    /\ UNCHANGED <<program, cnt, gval>>

\* pthread_create of testThread.cc: without a thread main returns 1.
CreateChecked ==
    /\ Of("testThread", Main, "create")
    /\ \/ pc' = [pc EXCEPT ![Main] = "join", ![First] = "run"]
       \/ pc' = [pc EXCEPT ![Main] = "returned"]
    /\ UNCHANGED <<program, td, cnt, gval>>

\* Mutant: main does not wait.
JoinAtOnce ==
    /\ Of("testThread", Main, "join")
    /\ pc' = [pc EXCEPT ![Main] = "returned"]
    /\ UNCHANGED <<program, td, cnt, gval>>

\* pthread_join, the message, and the end.
Join ==
    /\ Of("testThread", Main, "join") /\ pc[First] = "over"
    /\ pc' = [pc EXCEPT ![Main] = "returned"]
    /\ UNCHANGED <<program, td, cnt, gval>>

\* pthread_create of MyPthread.cc, whose result is not looked at; then main loops.
CreateLocal ==
    /\ Of("MyPthread", Main, "begin")
    /\ \E result \in {"run", "none"} :
           pc' = [pc EXCEPT ![Main] = "loop", ![First] = result]
    /\ UNCHANGED <<program, td, cnt, gval>>

\* The three calls in testthread.cc; then main loops.
CreateCrowd ==
    /\ Of("testthread", Main, "begin")
    /\ \E made \in SUBSET Crowd :
           pc' = [t \in Crowd \cup {Main} |->
                     IF t = Main THEN "loop" ELSE IF t \in made THEN "run" ELSE "none"]
    /\ UNCHANGED <<program, td, cnt, gval>>

\* The constructor of std::thread throws when there is no thread to be had.
ConstructThread ==
    /\ Of("Teach_test", Main, "begin")
    /\ \/ pc' = [pc EXCEPT ![Main] = "loop", ![First] = "run"]
       \/ pc' = [pc EXCEPT ![Main] = "terminated"]
    /\ UNCHANGED <<program, td, cnt, gval>>

MainStep ==
    NewThreadData \/ CreateChecked \/ Join \/ CreateLocal \/ CreateCrowd \/ ConstructThread

-----------------------------------------------------------------------------
(* The threads                                                             *)

\* threadRun of testThread.cc: a round prints what is in td; the last one deletes it.
Count ==
    /\ Of("testThread", First, "run") /\ cnt > 0
    /\ cnt' = cnt - 1
    /\ UNCHANGED <<program, pc, td, gval>>

Delete ==
    /\ Of("testThread", First, "run") /\ cnt = 0
    /\ td' = "deleted" /\ pc' = [pc EXCEPT ![First] = "over"]
    /\ UNCHANGED <<program, cnt, gval>>

\* threadrun of Teach_test.cc.
CountDown ==
    /\ Of("Teach_test", First, "run")
    /\ IF cnt = 0 THEN pc' = [pc EXCEPT ![First] = "over"] /\ UNCHANGED cnt
                  ELSE cnt' = cnt - 1 /\ UNCHANGED pc
    /\ UNCHANGED <<program, td, gval>>

\* Mutant: gval without __thread.
CountShared ==
    /\ Of("MyPthread", First, "run") /\ gval[First] < MaxGval
    /\ gval' = [t \in DOMAIN gval |-> gval[First] + 1]
    /\ UNCHANGED <<program, pc, td, cnt>>

\* threadRun of MyPthread.cc.
CountOwn ==
    /\ Of("MyPthread", First, "run") /\ gval[First] < MaxGval
    /\ gval' = [gval EXCEPT ![First] = @ + 1]
    /\ UNCHANGED <<program, pc, td, cnt>>

ThreadStep == Count \/ Delete \/ CountDown \/ CountOwn

Next == MainStep \/ ThreadStep

-----------------------------------------------------------------------------
(* Properties                                                              *)

\* testThread.cc: who is last to leave?  main is, when there is a thread at all; the
\* thread has had its object for all of its rounds and has deleted it (lines 52-76).
MainLeavesLast ==
    /\ program = "testThread" /\ Ended /\ pc[First] # "none" => td = "deleted" /\ cnt = 0
    /\ program = "testThread" /\ pc[First] = "run" => td = "live"

\* No thread counts for another (MyPthread.cc:6).
OwnCounter == gval[Main] = 0

\* The thread that counts down, and the one that is waited for, come to their end
\* (testThread.cc:71, Teach_test.cc:28).
Counting == program \in {"testThread", "Teach_test"} /\ pc[Main] # "begin"
Counted == pc[First] = "over" \/ Ended
=============================================================================
