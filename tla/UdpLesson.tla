------------------------------- MODULE UdpLesson -------------------------------
(***************************************************************************)
(* The echo server and the dictionary server over UDP, and their client:   *)
(* Socket/1. udp_echo_server and Socket/2. dict_server.  The client sends  *)
(* a line and waits for one datagram, without a timeout; the network may   *)
(* lose, duplicate and reorder datagrams.  The dictionary server is the    *)
(* echo server with a function in place of the echo.                       *)
(***************************************************************************)
EXTENDS Integers, Sequences

CONSTANTS Clients, Server,
          MaxLines,  (* bound: lines of a client                                   *)
          MaxCopies, (* bound: datagrams the network duplicates                    *)
          Words,     (* what a line may say                                        *)
          Files      (* dictionary files, as sequences of lines: <<key, value>> or *)
                     (* <<>> for a line that is blank or has no separator          *)

Empty == ""

UdpAssumption ==
    /\ MaxLines \in Nat /\ MaxCopies \in Nat
    /\ Empty \notin Words /\ Server \notin Clients
    /\ \A f \in Files : f \in Seq({f[n] : n \in DOMAIN f})

VARIABLES
    pc,      \* where each client and the server are
    net,     \* datagrams under way
    service, \* "echo" or "dict": which server it is
    file,    \* the lines of the dictionary file and how many have been read
    dict,    \* _dict
    lines,   \* the lines each client has sent
    shown,   \* the answers it has shown
    copies,  \* copies the network has made
    lost     \* clients that have lost a datagram

vars == <<pc, net, service, file, dict, lines, shown, copies, lost>>

Init ==
    /\ pc = [p \in Clients \cup {Server} |-> "start"]
    /\ net = {}
    /\ \/ service = "echo" /\ file = [lines |-> <<>>, read |-> 0]
       \/ service = "dict" /\ file \in [lines : Files, read : {0}]
    /\ dict = <<>>
    /\ lines = [c \in Clients |-> <<>>]
    /\ shown = [c \in Clients |-> <<>>]
    /\ copies = 0 /\ lost = {}

Goto(p, place) == pc' = [pc EXCEPT ![p] = place]

-----------------------------------------------------------------------------
(* Dict                                                                    *)

Valid(line) == line # <<>> /\ line[1] # Empty /\ line[2] # Empty

\* Mutant: the later of two translations of a word is kept.
InsertOver(d, line) ==
    IF Valid(line) THEN [w \in DOMAIN d \cup {line[1]} |-> IF w = line[1] THEN line[2] ELSE d[w]]
                   ELSE d

\* One round of the loop of LoadDict: insert leaves a key that is there alone.
Insert(d, line) ==
    IF Valid(line) /\ line[1] \notin DOMAIN d
      THEN [w \in DOMAIN d \cup {line[1]} |-> IF w = line[1] THEN line[2] ELSE d[w]]
      ELSE d

\* The constructor exits if it cannot open the file, and reads it line by line.
OpenDict ==
    /\ pc[Server] = "start" /\ service = "dict"
    /\ Goto(Server, "load") \/ Goto(Server, "exit")
    /\ UNCHANGED <<net, service, file, dict, lines, shown, copies, lost>>

LoadDict ==
    /\ pc[Server] = "load" /\ file.read < Len(file.lines)
    /\ file' = [file EXCEPT !.read = @ + 1]
    /\ dict' = Insert(dict, file.lines[file'.read])
    /\ UNCHANGED <<pc, net, service, lines, shown, copies, lost>>

Translate(word) == IF word \in DOMAIN dict THEN dict[word] ELSE "None"

-----------------------------------------------------------------------------
(* UdpServer                                                               *)

\* It exits when there is no socket or the port is taken; the dictionary server has
\* read its file before.
InitServer ==
    /\ pc[Server] = IF service = "echo" THEN "start" ELSE "load"
    /\ file.read = Len(file.lines)
    /\ Goto(Server, "loop") \/ Goto(Server, "exit")
    /\ UNCHANGED <<net, service, file, dict, lines, shown, copies, lost>>

\* The body of a request holds a word, that of an answer says where it is from, too.
Reply(body) == <<service, IF service = "echo" THEN body[1] ELSE Translate(body[1])>>

\* Mutant: the answer also goes out for what was not received now.
ServeAgain(d) ==
    /\ pc[Server] = "loop" /\ d.body[1] # Empty
    /\ net' = (net \ {d}) \cup
              {[d EXCEPT !.kind = "answer", !.body = Reply(@), !.copy = n] : n \in {d.copy, -1}}
    /\ UNCHANGED <<pc, service, file, dict, lines, shown, copies, lost>>

\* recvfrom: a datagram without bytes is taken for an error and not answered.
Serve(d) ==
    /\ pc[Server] = "loop"
    /\ net' = (net \ {d}) \cup
              IF d.body[1] = Empty THEN {} ELSE {[d EXCEPT !.kind = "answer", !.body = Reply(@)]}
    /\ UNCHANGED <<pc, service, file, dict, lines, shown, copies, lost>>

-----------------------------------------------------------------------------
(* UdpClientMain                                                           *)

OpenSocket(c) ==
    /\ pc[c] = "start"
    /\ Goto(c, "enter") \/ Goto(c, "exit")
    /\ UNCHANGED <<net, service, file, dict, lines, shown, copies, lost>>

\* getline and sendto.  An empty line, or the end of the input, makes sendto return
\* 0, which ends the client.
Enter(c) ==
    /\ pc[c] = "enter" /\ Len(lines[c]) < MaxLines
    /\ \E word \in Words \cup {Empty} :
        /\ lines' = [lines EXCEPT ![c] = Append(@, word)]
        /\ net' = net \cup {[kind |-> "request", client |-> c, line |-> Len(lines'[c]),
                             body |-> <<word>>, copy |-> 0]}
        /\ Goto(c, IF word = Empty THEN "exit" ELSE "wait")
    /\ UNCHANGED <<service, file, dict, shown, copies, lost>>

\* sendto fails.
SendFails(c) ==
    /\ pc[c] = "enter" /\ Len(lines[c]) < MaxLines /\ Goto(c, "exit")
    /\ UNCHANGED <<net, service, file, dict, lines, shown, copies, lost>>

\* recvfrom takes the first datagram that comes for an answer to the last line.
Show(c) ==
    /\ pc[c] = "wait" /\ Goto(c, "enter")
    /\ \E d \in net :
        /\ d.kind = "answer" /\ d.client = c
        /\ net' = net \ {d}
        /\ shown' = [shown EXCEPT ![c] = Append(@, d)]
    /\ UNCHANGED <<service, file, dict, lines, copies, lost>>

\* recvfrom fails: the client leaves its loop.  Nothing makes it do so.
ReceiveFails(c) ==
    /\ pc[c] = "wait" /\ Goto(c, "exit")
    /\ UNCHANGED <<net, service, file, dict, lines, shown, copies, lost>>

-----------------------------------------------------------------------------
(* The network                                                             *)

Lose(d) ==
    /\ net' = net \ {d} /\ lost' = lost \cup {d.client}
    /\ UNCHANGED <<pc, service, file, dict, lines, shown, copies>>

Duplicate(d) ==
    /\ copies < MaxCopies /\ copies' = copies + 1
    /\ net' = net \cup {[d EXCEPT !.copy = copies']}
    /\ UNCHANGED <<pc, service, file, dict, lines, shown, lost>>

-----------------------------------------------------------------------------
Requests == {d \in net : d.kind = "request"}

ServerStep == OpenDict \/ LoadDict \/ InitServer \/ \E d \in Requests : Serve(d)
ClientStep(c) == OpenSocket(c) \/ Enter(c) \/ SendFails(c) \/ Show(c)

Next ==
    \/ ServerStep
    \/ \E c \in Clients : ClientStep(c) \/ ReceiveFails(c)
    \/ \E d \in net : Lose(d) \/ Duplicate(d)

Spec == Init /\ [][Next]_vars

-----------------------------------------------------------------------------
(* Properties                                                              *)

\* What the file says of a word: the first line that says anything (Dict.hpp:28-44).
Translations(word) ==
    {n \in DOMAIN file.lines : Valid(file.lines[n]) /\ file.lines[n][1] = word}

RightReply(word, reply) ==
    \/ service = "echo" /\ reply = <<"echo", word>>
    \/ service = "dict" /\ Translations(word) = {} /\ reply = <<"dict", "None">>
    \/ /\ service = "dict"
       /\ \E n \in Translations(word) :
            /\ \A m \in Translations(word) : n <= m
            /\ reply = <<"dict", file.lines[n][2]>>

\* The answer to a line is that to an earlier line only after the network has
\* duplicated a datagram, whatever it loses and reorders; and it is right for the
\* line it answers (UdpClientMain.cc:49-60, UdpServer.hpp:80-90).
AnswersInStep ==
    \A c \in Clients : \A n \in DOMAIN shown[c] :
        LET answer == shown[c][n]
        IN  /\ answer.line <= n
            /\ copies = 0 => answer.line = n
            /\ RightReply(lines[c][answer.line], answer.body)

\* A client that waits is answered unless it has lost a datagram or there is no
\* server (UdpClientMain.cc:56: recvfrom waits for ever).
Asking(c) == pc[c] = "wait"
Excused(c) == c \in lost \/ pc[Server] = "exit"
=============================================================================
