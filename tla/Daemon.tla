-------------------------------- MODULE Daemon --------------------------------
(***************************************************************************)
(* Daemon of ProtectProcess/Daemon.hpp, followed in the process that       *)
(* returns from it: the child or, if fork has failed, the caller, as only  *)
(* a positive result of fork is looked at.  The caller may be the leader   *)
(* of its process group and may have descriptors closed; its terminal may  *)
(* be hung up at any time.                                                 *)
(***************************************************************************)
EXTENDS Integers, FiniteSetsExt

VARIABLES
    pc,      \* where it is
    how,     \* ischdir and isclose; what it was started with; what has failed
    ignored, \* signals ignored
    leader,  \* leader of a process group
    session, \* "terminal": that of the caller, or "own"
    cwd,     \* "start" or "/"
    fds,     \* what descriptors 0 to 2 refer to
    fd       \* the result of opening /dev/null, or Unopened

vars == <<pc, how, ignored, leader, session, cwd, fds, fd>>

Standard == 0..2
Unopened == -1

Init ==
    /\ pc = "signals"
    /\ leader \in BOOLEAN
    /\ fds \in [Standard -> {"terminal", "closed"}]
    /\ how \in [ischdir : BOOLEAN, isclose : BOOLEAN, leader : {leader}, fds : {fds},
                forked : {TRUE}]
    /\ ignored = {} /\ session = "terminal" /\ cwd = "start" /\ fd = Unopened

-----------------------------------------------------------------------------
IgnoreSignals ==
    /\ pc = "signals" /\ pc' = "fork"
    /\ ignored' = {"SIGCHLD", "SIGPIPE"}
    /\ UNCHANGED <<how, leader, session, cwd, fds, fd>>

Fork ==
    /\ pc = "fork" /\ pc' = "setsid"
    /\ \/ leader' = FALSE /\ UNCHANGED how
       \/ how' = [how EXCEPT !.forked = FALSE] /\ UNCHANGED leader
    /\ UNCHANGED <<ignored, session, cwd, fds, fd>>

\* setsid fails for the leader of a process group.
SetSid ==
    /\ pc = "setsid" /\ pc' = "chdir"
    /\ session' = IF leader THEN session ELSE "own"
    /\ leader' = TRUE
    /\ UNCHANGED <<how, ignored, cwd, fds, fd>>

\* The result of chdir is not looked at: it may have failed.
ChangeDirectory ==
    /\ pc = "chdir" /\ pc' = IF how.isclose THEN "close" ELSE "open"
    /\ cwd' = cwd \/ (how.ischdir /\ cwd' = "/")
    /\ UNCHANGED <<how, ignored, leader, session, fds, fd>>

CloseAll ==
    /\ pc = "close" /\ pc' = "ready"
    /\ fds' = [k \in Standard |-> "closed"]
    /\ UNCHANGED <<how, ignored, leader, session, cwd, fd>>

\* open returns the lowest number that is free, 3 for any beyond the standard ones.
OpenNull ==
    /\ pc = "open" /\ pc' = "dup"
    /\ \/ /\ fd' = Min({k \in Standard : fds[k] = "closed"} \cup {3})
          /\ fds' = [k \in Standard |-> IF k = fd' THEN "null" ELSE fds[k]]
       \/ UNCHANGED <<fds, fd>>
    /\ UNCHANGED <<how, ignored, leader, session, cwd>>

\* Mutant: standard error is forgotten.
DuplicateTwo ==
    /\ pc = "dup" /\ pc' = "ready"
    /\ fds' = IF fd > 0 THEN [k \in Standard |-> CASE k = fd -> "closed"
                                                   [] k = 2  -> fds[k]
                                                   [] OTHER  -> "null"]
                        ELSE fds
    /\ UNCHANGED <<how, ignored, leader, session, cwd, fd>>

\* dup2 of fd to all three, close of fd; nothing at all if fd is 0.
Duplicate ==
    /\ pc = "dup" /\ pc' = "ready"
    /\ fds' = IF fd > 0 THEN [k \in Standard |-> IF k = fd THEN "closed" ELSE "null"]
                        ELSE fds
    /\ UNCHANGED <<how, ignored, leader, session, cwd, fd>>

\* SIGHUP to the processes of the terminal, whenever it is closed.
Hangup ==
    /\ session = "terminal" /\ pc # "killed" /\ pc' = "killed"
    /\ UNCHANGED <<how, ignored, leader, session, cwd, fds, fd>>

-----------------------------------------------------------------------------
Step ==
    \/ IgnoreSignals \/ Fork \/ SetSid \/ ChangeDirectory
    \/ CloseAll \/ OpenNull \/ Duplicate

Next == Step \/ Hangup

Spec == Init /\ [][Next]_vars

-----------------------------------------------------------------------------
(* Properties                                                              *)

\* The terminal neither ends what Daemon returns to nor is written to by it, except:
\* fork has failed in the leader of a group; /dev/null could not be opened, or was
\* opened as standard input, which had been closed (Daemon.hpp:18, 35, 36).  Nor is
\* a standard descriptor free for the next socket, unless it was asked for or one
\* that had been closed became the fd that is closed again (Daemon.hpp:41).
Detached ==
    pc = "ready" =>
        /\ session = "own" \/ (how.leader /\ ~how.forked)
        /\ "SIGPIPE" \in ignored
        /\ \A k \in Standard :
             /\ fds[k] = "terminal" => ~how.isclose /\ how.fds[k] = "terminal" /\ fd \in {Unopened, 0}
             /\ fds[k] = "closed" => how.isclose \/ (how.fds[k] = "closed" /\ fd \in {Unopened, 0, k})
=============================================================================
