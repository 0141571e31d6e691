------------------------------- MODULE NonBlock -------------------------------
(***************************************************************************)
(* IO/TestNonBlock/Main.cc: standard input is read without blocking, in a  *)
(* loop that polls it once a second.  Main.cc:10, a type without a         *)
(* declarator, is an error unless the compiler is told to be permissive.   *)
(* A line is a number; what is typed after the end of the input is not     *)
(* part of it.                                                             *)
(***************************************************************************)
EXTENDS Integers

CONSTANT MaxLines (* bound: lines typed *)

NonBlockAssumption == MaxLines \in Nat

VARIABLES
    pc,       \* "set", "read", "done" after the end of the input, or "failed"
    nonblock, \* O_NONBLOCK is set on the terminal, for all who have it open
    typed,    \* number of lines typed
    echoed,   \* number of lines that have been shown
    eof       \* ctrl-d

vars == <<pc, nonblock, typed, echoed, eof>>

\* Another program may have left the flag set.
Init ==
    /\ pc = "set" /\ nonblock \in BOOLEAN
    /\ typed = 0 /\ echoed = 0 /\ eof = FALSE

Over == pc \in {"done", "failed"}

\* Neither of the two calls of fcntl is sure to succeed; the program goes on.
SetNonBlock ==
    /\ pc = "set" /\ pc' = "read"
    /\ nonblock' = TRUE \/ UNCHANGED nonblock
    /\ UNCHANGED <<typed, echoed, eof>>

Type ==
    /\ ~Over /\ ~eof /\ typed < MaxLines
    /\ typed' = typed + 1
    /\ UNCHANGED <<pc, nonblock, echoed, eof>>

EndInput == ~Over /\ ~eof /\ eof' = TRUE /\ UNCHANGED <<pc, nonblock, typed, echoed>>

\* read gives some of what has been typed, n > 0.
Echo ==
    /\ pc = "read" /\ echoed < typed
    /\ echoed' \in echoed+1..typed
    /\ UNCHANGED <<pc, nonblock, typed, eof>>

\* Mutant: "not now" is taken for the end.
EndOrNothing ==
    /\ pc = "read" /\ echoed = typed /\ (eof \/ nonblock)
    /\ pc' = "done"
    /\ UNCHANGED <<nonblock, typed, echoed, eof>>

\* n = 0.
ReadDone ==
    /\ pc = "read" /\ echoed = typed /\ eof
    /\ pc' = "done"
    /\ UNCHANGED <<nonblock, typed, echoed, eof>>

\* Nothing is there: EWOULDBLOCK, a second's sleep, and again.  A signal: EINTR, and
\* again.  Either way nothing has changed.
PollAgain == pc = "read" /\ echoed = typed /\ ~eof /\ UNCHANGED vars

\* Any other error.
ReadError == pc = "read" /\ pc' = "failed" /\ UNCHANGED <<nonblock, typed, echoed, eof>>

Step == SetNonBlock \/ Echo \/ ReadDone
Next == Step \/ PollAgain \/ ReadError \/ Type \/ EndInput

-----------------------------------------------------------------------------
(* Properties                                                              *)

\* The program ends only at the end of its input, with all of it echoed, or for an
\* error that is neither of the two it goes on after (Main.cc:25-57).
AllEchoed == pc = "done" => eof /\ echoed = typed

\* It ends once its input has (Main.cc:31-35).
InputOver == eof
Stopped == Over
=============================================================================
