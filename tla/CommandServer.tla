---------------------------- MODULE CommandServer ----------------------------
(***************************************************************************)
(* The command server of Socket/5.command_server: the main thread accepts  *)
(* and starts a detached thread per connection, which executes what recv   *)
(* returns as one command; the client of TcpClientMain.cc writes a line    *)
(* and waits for one read.                                                 *)
(*                                                                         *)
(* TCP carries bytes without boundaries.  A line, and an answer, is a      *)
(* number of pieces; a recv or read returns one or more of the pieces that *)
(* have arrived.  A piece says which line it belongs to, or answers, and   *)
(* whether it is the last one.                                             *)
(***************************************************************************)
EXTENDS Integers, Sequences, FiniteSets

CONSTANTS Clients,
          MaxLines,  (* bound: lines typed at each client                     *)
          MaxPieces, (* bound: pieces of a line or of an answer              *)
          FdLimit    (* descriptors the process may have                     *)

ASSUME CommandAssumption ==
    /\ MaxLines \in [Clients -> Nat] /\ MaxPieces \in Nat \ {0}
    /\ FdLimit \in Nat \ {0}

VARIABLES
    alive,   \* FALSE once SIGPIPE has killed the server
    backlog, \* connections nobody has accepted yet
    fds,     \* descriptors in use by the server, the listening one included
    opened,  \* streams of popen that nobody closes
    tpc,     \* the thread of a connection; "lost" if it could not be created
    cur,     \* the line of the command a thread has received last
    c2s, s2c,\* what is under way on a connection
    peer,    \* the client's end of a connection
    cpc,     \* the client
    sent,    \* lines it has written
    size,    \* pieces of the last one
    heard,   \* the line answered by what it has read last
    cut      \* history: a read has returned something else than one line or answer

threadVars == <<alive, fds, opened, tpc, cur>>
streamVars == <<c2s, s2c, peer, cut>>
clientVars == <<cpc, sent, size, heard>>
vars == <<threadVars, backlog, streamVars, clientVars>>

Init ==
    /\ alive = TRUE
    /\ backlog = <<>>
    /\ fds = 1 /\ opened = 0
    /\ tpc = [c \in Clients |-> "none"]
    /\ cur = [c \in Clients |-> 0]
    /\ c2s = [c \in Clients |-> <<>>] /\ s2c = [c \in Clients |-> <<>>]
    /\ peer = [c \in Clients |-> "open"]
    /\ cpc = [c \in Clients |-> "start"]
    /\ sent = [c \in Clients |-> 0] /\ size = [c \in Clients |-> 0]
    /\ heard = [c \in Clients |-> 0]
    /\ cut = [c \in Clients |-> FALSE]

\* The pieces of a line, or of its answer.
Pieces(line, n) == [k \in 1..n |-> [line |-> line, last |-> k = n]]

\* These pieces are all of one line or answer, if what came before was complete.
IsWhole(pieces) ==
    \A k \in DOMAIN pieces :
        pieces[k].line = pieces[1].line /\ (pieces[k].last <=> k = Len(pieces))

-----------------------------------------------------------------------------
(* The client                                                              *)

Connect(c) ==
    /\ cpc[c] = "start"
    /\ cpc' = [cpc EXCEPT ![c] = "prompt"]
    /\ backlog' = Append(backlog, c)
    /\ UNCHANGED <<threadVars, streamVars, sent, size, heard>>

\* getline and write; an empty line is written as no bytes at all.
WriteLine(c) ==
    /\ cpc[c] = "prompt" /\ sent[c] < MaxLines[c]
    /\ \E n \in 0..MaxPieces :
        /\ size' = [size EXCEPT ![c] = n]
        /\ c2s' = [c2s EXCEPT ![c] = @ \o Pieces(sent[c] + 1, n)]
    /\ sent' = [sent EXCEPT ![c] = @ + 1]
    /\ cpc' = [cpc EXCEPT ![c] = "read"]
    /\ UNCHANGED <<threadVars, backlog, s2c, peer, cut, heard>>

\* read returns with n > 0, and the client prompts again.
ReadAnswer(c) ==
    /\ cpc[c] = "read"
    /\ \E k \in 1..Len(s2c[c]) :
        /\ heard' = [heard EXCEPT ![c] = s2c[c][k].line]
        /\ cut' = [cut EXCEPT ![c] = @ \/ ~IsWhole(SubSeq(s2c[c], 1, k))]
        /\ s2c' = [s2c EXCEPT ![c] = SubSeq(@, k + 1, Len(@))]
    /\ cpc' = [cpc EXCEPT ![c] = "prompt"]
    /\ UNCHANGED <<threadVars, backlog, c2s, peer, sent, size>>

\* The client has no command to quit: the user kills it.  Its connection is reset
\* if an answer is left unread, and closed otherwise.
KillClient(c) ==
    /\ cpc[c] \in {"prompt", "read"}
    /\ cpc' = [cpc EXCEPT ![c] = "gone"]
    /\ peer' = [peer EXCEPT ![c] = IF s2c[c] = <<>> THEN "closed" ELSE "reset"]
    /\ s2c' = [s2c EXCEPT ![c] = <<>>]
    /\ UNCHANGED <<threadVars, backlog, c2s, cut, sent, size, heard>>

-----------------------------------------------------------------------------
(* The main thread: Loop                                                   *)

\* accept and pthread_create, whose result nobody looks at.  When accept fails for
\* want of a descriptor, Loop tries again and nothing changes.
Accept ==
    /\ backlog # <<>> /\ fds < FdLimit
    /\ fds' = fds + 1
    /\ \E started \in {"recv", "lost"} :
        tpc' = [tpc EXCEPT ![Head(backlog)] = started]
    /\ backlog' = Tail(backlog)
    /\ UNCHANGED <<alive, opened, cur, streamVars, clientVars>>

-----------------------------------------------------------------------------
(* The thread of a connection: Execute and HandlerCommand                  *)

\* recv with n > 0.
Receive(c) ==
    /\ tpc[c] = "recv"
    /\ \E k \in 1..Len(c2s[c]) :
        /\ cur' = [cur EXCEPT ![c] = c2s[c][k].line]
        /\ cut' = [cut EXCEPT ![c] = @ \/ ~IsWhole(SubSeq(c2s[c], 1, k))]
        /\ c2s' = [c2s EXCEPT ![c] = SubSeq(@, k + 1, Len(@))]
    /\ tpc' = [tpc EXCEPT ![c] = "execute"]
    /\ UNCHANGED <<alive, fds, opened, backlog, s2c, peer, clientVars>>

\* popen needs two descriptors for its pipe and keeps one; nobody calls pclose.
Popen ==
    /\ fds + 2 <= FdLimit
    /\ fds' = fds + 1 /\ opened' = opened + 1

\* Excute: a command off the white list, or a failing popen, is answered all the same.
Excute == Popen \/ UNCHANGED <<fds, opened>>

\* Mutant: a result is sent only if popen has succeeded.
AnswerSuccess(c) ==
    /\ tpc[c] = "execute" /\ peer[c] = "open"
    /\ \/ Popen /\ \E n \in 1..MaxPieces : s2c' = [s2c EXCEPT ![c] = @ \o Pieces(cur[c], n)]
       \/ UNCHANGED <<fds, opened, s2c>>
    /\ tpc' = [tpc EXCEPT ![c] = "recv"]
    /\ UNCHANGED <<alive, backlog, cur, c2s, peer, cut, clientVars>>

\* Mutant: the result is sent once more.
AnswerTwice(c) ==
    /\ tpc[c] = "execute" /\ peer[c] = "open"
    /\ Excute
    /\ \E n \in 1..MaxPieces :
        s2c' = [s2c EXCEPT ![c] = @ \o Pieces(cur[c], n) \o Pieces(cur[c], n)]
    /\ tpc' = [tpc EXCEPT ![c] = "recv"]
    /\ UNCHANGED <<alive, backlog, cur, c2s, peer, cut, clientVars>>

\* Excute and send, to a client that is there.
Answer(c) ==
    /\ tpc[c] = "execute" /\ peer[c] = "open"
    /\ Excute
    /\ \E n \in 1..MaxPieces : s2c' = [s2c EXCEPT ![c] = @ \o Pieces(cur[c], n)]
    /\ tpc' = [tpc EXCEPT ![c] = "recv"]
    /\ UNCHANGED <<alive, backlog, cur, c2s, peer, cut, clientVars>>

\* Excute and send, to a client that has left.  The first answer provokes a reset,
\* which may arrive before the thread's next call; an answer to a connection that has
\* been reset may raise SIGPIPE, which nobody handles.
AnswerNobody(c) ==
    /\ tpc[c] = "execute" /\ peer[c] # "open"
    /\ Excute
    /\ \/ /\ peer[c] = "closed"
          /\ peer' \in {[peer EXCEPT ![c] = "closed"], [peer EXCEPT ![c] = "reset"]}
          /\ UNCHANGED alive
       \/ peer[c] = "reset" /\ alive' \in BOOLEAN /\ UNCHANGED peer
    /\ tpc' = [tpc EXCEPT ![c] = "recv"]
    /\ UNCHANGED <<backlog, cur, c2s, s2c, cut, clientVars>>

\* Mutant: an empty recv is taken for a command.
EndOfFileExecuted(c) ==
    /\ tpc[c] = "recv" /\ c2s[c] = <<>> /\ peer[c] # "open"
    /\ tpc' = [tpc EXCEPT ![c] = "execute"]
    /\ UNCHANGED <<alive, fds, opened, cur, backlog, streamVars, clientVars>>

\* recv with n = 0 or n < 0 ends HandlerCommand.
EndOfFile(c) ==
    /\ tpc[c] = "recv" /\ c2s[c] = <<>> /\ peer[c] # "open"
    /\ tpc' = [tpc EXCEPT ![c] = "close"]
    /\ UNCHANGED <<alive, fds, opened, cur, backlog, streamVars, clientVars>>

\* Mutant: nobody closes it.
FinishOpen(c) ==
    /\ tpc[c] = "close"
    /\ tpc' = [tpc EXCEPT ![c] = "done"]
    /\ UNCHANGED <<alive, fds, opened, cur, backlog, streamVars, clientVars>>

\* close and delete at the end of Execute.
Finish(c) ==
    /\ tpc[c] = "close"
    /\ fds' = fds - 1
    /\ tpc' = [tpc EXCEPT ![c] = "done"]
    /\ UNCHANGED <<alive, opened, cur, backlog, streamVars, clientVars>>

-----------------------------------------------------------------------------
ThreadStep(c) ==
    \/ Receive(c) \/ Answer(c) \/ AnswerNobody(c) \/ EndOfFile(c) \/ Finish(c)

ClientStep(c) == Connect(c) \/ WriteLine(c) \/ ReadAnswer(c) \/ KillClient(c)

Next ==
    /\ alive
    /\ \/ Accept
       \/ \E c \in Clients : ThreadStep(c) \/ ClientStep(c)

Spec == Init /\ [][Next]_vars

\* Threads are scheduled, commands end, and clients read what has arrived.
Fairness ==
    \A c \in Clients :
        WF_vars(alive /\ ThreadStep(c)) /\ WF_vars(alive /\ ReadAnswer(c))
FairSpec == Spec /\ Fairness

-----------------------------------------------------------------------------
(* Properties                                                              *)

\* Every descriptor in use is the listening one, that of a connection still served,
\* that of a connection whose thread could not be created (TcpServer.hpp:104), or a
\* stream left open by Excute (Command.hpp:45-54): connections are closed exactly once.
DescriptorsAccounted ==
    fds = 1 + opened + Cardinality({c \in Clients : tpc[c] \notin {"none", "done"}})

\* As long as every recv returns one line and every read one answer, a client at its
\* prompt has read the answer to its last line and nothing else is under way
\* (TcpClientMain.cc:49-52, Command.hpp:62-69).
InStep ==
    \A c \in Clients :
        cpc[c] = "prompt" /\ ~cut[c] =>
            heard[c] = sent[c] /\ c2s[c] = <<>> /\ s2c[c] = <<>>

\* As long as that is so for all clients, none of them can make the server die of
\* SIGPIPE, whenever it is killed (Command.hpp:69).
KilledOnlyAfterCut == alive \/ \E c \in Clients : cut[c]

\* A client whose connection has a thread gets an answer to every line that is not
\* empty, even when the server has run out of descriptors.
LineAnswered ==
    \A c \in Clients :
        (cpc[c] = "read" /\ size[c] > 0 /\ tpc[c] = "recv")
            ~> (cpc[c] # "read" \/ ~alive)
=============================================================================
