-------------------------- MODULE CommandServerProofs --------------------------
(***************************************************************************)
(* Theorems about the command server of Socket/5.command_server and its    *)
(* client, for any number of clients, lines, pieces and descriptors: every *)
(* descriptor is accounted for, and as long as no read has cut a line or   *)
(* an answer, client and server are in step and SIGPIPE is impossible.     *)
(***************************************************************************)
EXTENDS CommandServer, TLAPS, SequenceTheorems, FiniteSetTheorems

Piece == [line : Nat, last : BOOLEAN]

\* The connections the server holds a descriptor for.
Held == {c \in Clients : tpc[c] \notin {"none", "done"}}

TypeOK ==
    /\ alive \in BOOLEAN
    /\ backlog \in Seq(Clients)
    /\ fds \in Nat /\ opened \in Nat
    /\ tpc \in [Clients -> {"none", "lost", "recv", "execute", "close", "done"}]
    /\ cur \in [Clients -> Nat]
    /\ c2s \in [Clients -> Seq(Piece)] /\ s2c \in [Clients -> Seq(Piece)]
    /\ peer \in [Clients -> {"open", "closed", "reset"}]
    /\ cpc \in [Clients -> {"start", "prompt", "read", "gone"}]
    /\ sent \in [Clients -> Nat] /\ size \in [Clients -> Nat] /\ heard \in [Clients -> Nat]
    /\ cut \in [Clients -> BOOLEAN]

\* Who waits to be accepted has connected, has no thread and waits once.
WaitingOnce ==
    /\ \A n \in DOMAIN backlog : tpc[backlog[n]] = "none" /\ cpc[backlog[n]] # "start"
    /\ \A m, n \in DOMAIN backlog : backlog[m] = backlog[n] => m = n
    /\ \A c \in Clients : cpc[c] = "start" => tpc[c] = "none"

Accounted == IsFiniteSet(Held) /\ fds = 1 + opened + Cardinality(Held)

NothingUnderWay(c) == c2s[c] = <<>> /\ s2c[c] = <<>>
NotAtWork(c) == tpc[c] \in {"none", "lost", "recv"}

(* Where a client and its thread are as long as no read has cut anything.  *)
(* Before its next line, the client has heard of the last one; then the    *)
(* line is under way, or in execution, or its answer is under way.         *)

BetweenLines(c) ==
    /\ cpc[c] \in {"start", "prompt"} /\ peer[c] = "open"
    /\ heard[c] = sent[c] /\ NothingUnderWay(c) /\ NotAtWork(c)

LineUnderWay(c) ==
    /\ cpc[c] = "read" /\ peer[c] = "open"
    /\ NotAtWork(c) /\ s2c[c] = <<>>
    /\ \E n \in Nat : c2s[c] = Pieces(sent[c], n)

InExecution(c) ==
    /\ cpc[c] = "read" /\ peer[c] = "open"
    /\ tpc[c] = "execute" /\ cur[c] = sent[c] /\ NothingUnderWay(c)

AnswerUnderWay(c) ==
    /\ cpc[c] = "read" /\ peer[c] = "open"
    /\ NotAtWork(c) /\ c2s[c] = <<>>
    /\ \E n \in Nat : s2c[c] = Pieces(sent[c], n)

\* A client that has gone: at most one line is left to execute, and none after the
\* connection has been reset.
Left(c) ==
    /\ cpc[c] = "gone" /\ peer[c] = "closed"
    /\ \E line, n \in Nat : c2s[c] = Pieces(line, n)
    /\ tpc[c] = "execute" => c2s[c] = <<>>

LeftReset(c) ==
    cpc[c] = "gone" /\ peer[c] = "reset" /\ tpc[c] # "execute" /\ c2s[c] = <<>>

Phase(c) ==
    \/ BetweenLines(c) \/ LineUnderWay(c) \/ InExecution(c) \/ AnswerUnderWay(c)
    \/ Left(c) \/ LeftReset(c)

Phases == \A c \in Clients : cut[c] \/ Phase(c)

IInv == TypeOK /\ WaitingOnce /\ Accounted /\ Phases /\ KilledOnlyAfterCut

-----------------------------------------------------------------------------
(* Lines and answers as sequences of pieces                                *)

LEMMA PiecesType ==
    ASSUME NEW line \in Nat, NEW n \in Nat
    PROVE  /\ Pieces(line, n) \in Seq(Piece) /\ Len(Pieces(line, n)) = n
           /\ Pieces(line, 0) = <<>>
<1>1. \A k \in 1..n : [line |-> line, last |-> k = n] \in Piece
  BY DEF Piece
<1>2. Pieces(line, n) \in [1..n -> Piece]
  BY <1>1 DEF Pieces
<1>3. Pieces(line, n) \in Seq(Piece) /\ Len(Pieces(line, n)) = n
  BY <1>2
<1>4. Pieces(line, 0) \in [1..0 -> Piece]
  BY DEF Pieces
<1>5. Pieces(line, 0) = <<>>
  BY <1>4
<1>6. QED
  BY <1>3, <1>5

\* Every piece of a line says which line it is of.
LEMMA PieceOf ==
    ASSUME NEW line \in Nat, NEW n \in Nat, NEW k \in 1..Len(Pieces(line, n))
    PROVE  Pieces(line, n)[k].line = line
<1>1. k \in 1..n
  BY PiecesType
<1>2. Pieces(line, n)[k] = [line |-> line, last |-> k = n]
  BY <1>1 DEF Pieces
<1>3. QED
  BY <1>2

\* A read of a line's first pieces is a whole line only if it takes all of them.
LEMMA WholeIsAll ==
    ASSUME NEW line \in Nat, NEW n \in Nat, NEW s, s = Pieces(line, n),
           NEW k \in 1..Len(s), IsWhole(SubSeq(s, 1, k))
    PROVE  SubSeq(s, k + 1, Len(s)) = <<>>
<1>1. s \in Seq(Piece) /\ Len(s) = n /\ \A m \in 1..n : s[m].line = line /\ (s[m].last <=> m = n)
  <2>1. Pieces(line, n) \in Seq(Piece) /\ Len(Pieces(line, n)) = n
    BY PiecesType
  <2>2. \A m \in 1..n :
            Pieces(line, n)[m].line = line /\ (Pieces(line, n)[m].last <=> m = n)
    BY DEF Pieces
  <2>3. QED
    BY <2>1, <2>2
<1>2. k \in 1..n /\ k \in Nat
  BY <1>1
<1>3. \A m \in 1..k : s[m] \in Piece
  BY <1>1, <1>2
<1>4. Len(SubSeq(s, 1, k)) = k /\ \A m \in 1..k : SubSeq(s, 1, k)[m] = s[m]
  BY <1>2, <1>3, SubSeqProperties
<1>5. SubSeq(s, 1, k) \in Seq(Piece)
  BY <1>2, <1>3, SubSeqProperties
<1>6. k \in DOMAIN SubSeq(s, 1, k)
  BY <1>2, <1>4, <1>5
<1>7. s[k].last
  BY <1>2, <1>4, <1>6 DEF IsWhole
<1>8. k = n
  BY <1>1, <1>2, <1>7
<1>9. SubSeq(s, n + 1, n) = <<>>
  BY SubSeqEmpty
<1>10. QED
  BY <1>1, <1>2, <1>8, <1>9

\* What a read takes and leaves.
LEMMA ReadLeaves ==
    ASSUME NEW s \in Seq(Piece), NEW k \in 1..Len(s)
    PROVE  SubSeq(s, k + 1, Len(s)) \in Seq(Piece) /\ s[k].line \in Nat
<1>1. s[k] \in Piece
  OBVIOUS
<1>2. \A m \in (k + 1)..Len(s) : s[m] \in Piece
  OBVIOUS
<1>3. SubSeq(s, k + 1, Len(s)) \in Seq(Piece)
  BY <1>2, SubSeqProperties
<1>4. QED
  BY <1>1, <1>3 DEF Piece

-----------------------------------------------------------------------------
LEMMA InitIInv == Init => IInv
<1> SUFFICES ASSUME Init PROVE IInv
  OBVIOUS
<1>1. TypeOK /\ KilledOnlyAfterCut
  BY DEF Init, TypeOK, KilledOnlyAfterCut
<1>2. WaitingOnce
  BY DEF Init, WaitingOnce
<1>3. Accounted
  <2>1. Held = {}
    BY DEF Init, Held
  <2>2. QED
    BY <2>1, FS_EmptySet DEF Init, Accounted
<1>4. Phases
  BY DEF Init, Phases, Phase, BetweenLines, NothingUnderWay, NotAtWork
<1>5. QED
  BY <1>1, <1>2, <1>3, <1>4 DEF IInv

\* Nothing happens to d that its phase could tell.
Same(d) ==
    UNCHANGED <<tpc[d], cur[d], c2s[d], s2c[d], peer[d], cpc[d], sent[d], heard[d], cut[d]>>

LEMMA PhasesKept ==
    ASSUME Phases, NEW c \in Clients, \A d \in Clients \ {c} : Same(d), (cut[c] \/ Phase(c))'
    PROVE  Phases'
<1>1. ASSUME NEW d \in Clients, Same(d), Phase(d)
      PROVE  Phase(d)'
  BY <1>1
     DEF Same, Phase, BetweenLines, LineUnderWay, InExecution, AnswerUnderWay, Left,
         LeftReset, NothingUnderWay, NotAtWork
<1>2. \A d \in Clients \ {c} : (cut[d] \/ Phase(d))'
  BY <1>1 DEF Phases, Same
<1>3. QED
  BY <1>2 DEF Phases

\* A step of one connection that neither uses nor frees a descriptor.
LEMMA AccountKept ==
    ASSUME TypeOK, Accounted, NEW c \in Clients, NEW to,
           tpc' = [tpc EXCEPT ![c] = to], tpc[c] \notin {"none", "done"}, to \notin {"none", "done"},
           \/ UNCHANGED <<fds, opened>>
           \/ fds' = fds + 1 /\ opened' = opened + 1
    PROVE  Accounted'
<1>1. Held' = Held
  BY DEF Held, TypeOK
<1>2. Cardinality(Held) \in Nat
  BY FS_CardinalityType DEF Accounted
<1>3. Held' = Held /\ IsFiniteSet(Held)' /\ fds \in Nat /\ opened \in Nat
  BY <1>1 DEF Accounted, TypeOK
<1>4. Cardinality(Held)' = Cardinality(Held)
  BY <1>1
<1>5. fds = 1 + opened + Cardinality(Held)
  BY DEF Accounted
<1>6. fds' = 1 + opened' + Cardinality(Held)
  BY <1>2, <1>3, <1>5
<1>7. QED
  BY <1>3, <1>4, <1>6 DEF Accounted

\* A connection that waits is not one whose thread takes a step.
LEMMA WaitingKept ==
    ASSUME TypeOK, WaitingOnce, NEW c \in Clients, NEW to,
           tpc' = [tpc EXCEPT ![c] = to], tpc[c] # "none", UNCHANGED <<backlog, cpc>>
    PROVE  WaitingOnce'
<1>1. \A n \in DOMAIN backlog : backlog[n] \in Clients
  BY DEF TypeOK
<1>2. QED
  BY <1>1 DEF WaitingOnce, TypeOK

-----------------------------------------------------------------------------
(* The client                                                              *)

LEMMA ConnectIInv ==
    ASSUME IInv, NEW c \in Clients, Connect(c)
    PROVE  IInv'
<1> USE DEF IInv
<1>1. /\ cpc[c] = "start" /\ cpc' = [cpc EXCEPT ![c] = "prompt"]
      /\ backlog' = Append(backlog, c)
      /\ UNCHANGED <<alive, fds, opened, tpc, cur, c2s, s2c, peer, cut, sent, size, heard>>
  BY DEF Connect, threadVars, streamVars
<1>2. TypeOK'
  BY <1>1 DEF TypeOK
<1>3. WaitingOnce'
  <2>1. /\ backlog \in Seq(Clients) /\ Len(backlog) \in Nat
        /\ DOMAIN backlog = 1..Len(backlog) /\ DOMAIN backlog' = 1..Len(backlog)+1
        /\ \A n \in 1..Len(backlog)+1 :
               backlog'[n] = IF n = Len(backlog) + 1 THEN c ELSE backlog[n]
    BY <1>1 DEF TypeOK
  <2>2. ASSUME NEW n \in 1..Len(backlog)
        PROVE  /\ backlog[n] \in Clients /\ backlog[n] # c
               /\ tpc[backlog[n]] = "none" /\ cpc'[backlog[n]] # "start"
    <3>1. backlog[n] \in Clients /\ tpc[backlog[n]] = "none" /\ cpc[backlog[n]] # "start"
      BY <2>1 DEF WaitingOnce
    <3>2. backlog[n] # c
      BY <1>1, <3>1
    <3>3. cpc'[backlog[n]] = cpc[backlog[n]]
      BY <1>1, <3>1, <3>2 DEF TypeOK
    <3>4. QED
      BY <3>1, <3>2, <3>3
  <2>3. ASSUME NEW n \in DOMAIN backlog'
        PROVE  tpc[backlog'[n]] = "none" /\ cpc'[backlog'[n]] # "start"
    <3>1. CASE n = Len(backlog) + 1
      <4>1. backlog'[n] = c
        BY <2>1, <3>1
      <4>2. tpc[c] = "none" /\ cpc'[c] = "prompt"
        BY <1>1 DEF WaitingOnce, TypeOK
      <4>3. QED
        BY <4>1, <4>2
    <3>2. CASE n # Len(backlog) + 1
      <4>1. n \in 1..Len(backlog) /\ backlog'[n] = backlog[n]
        BY <2>1, <3>2
      <4>2. QED
        BY <2>2, <4>1
    <3>3. QED
      BY <3>1, <3>2
  <2>4. \A m, n \in DOMAIN backlog' : backlog'[m] = backlog'[n] => m = n
    BY <2>1, <2>2 DEF WaitingOnce
  <2>5. \A d \in Clients : cpc'[d] = "start" => tpc[d] = "none"
    BY <1>1 DEF WaitingOnce, TypeOK
  <2>6. QED
    BY <1>1, <2>3, <2>4, <2>5 DEF WaitingOnce
<1>4. Accounted' /\ KilledOnlyAfterCut'
  BY <1>1 DEF Accounted, Held, KilledOnlyAfterCut
<1>5. Phases'
  <2>1. \A d \in Clients \ {c} : Same(d)
    BY <1>1 DEF Same, TypeOK
  <2>2. (cut[c] \/ Phase(c))'
    BY <1>1 DEF Phases, Phase, BetweenLines, LineUnderWay, InExecution, AnswerUnderWay,
                Left, LeftReset, NothingUnderWay, NotAtWork, TypeOK
  <2>3. QED
    BY <2>1, <2>2, PhasesKept
<1>6. QED
  BY <1>2, <1>3, <1>4, <1>5

\* A client's step that leaves the queue and the thread alone.
LEMMA ClientKept ==
    ASSUME IInv, TypeOK', NEW c \in Clients, NEW to, to # "start", cpc[c] # "start",
           cpc' = [cpc EXCEPT ![c] = to], UNCHANGED <<backlog, threadVars>>,
           \A d \in Clients : cut[d] => cut'[d],
           \A d \in Clients \ {c} : Same(d), (cut[c] \/ Phase(c))'
    PROVE  IInv'
<1> USE DEF IInv
<1>1. UNCHANGED <<alive, fds, opened, tpc>>
  BY DEF threadVars
<1>2. WaitingOnce'
  <2>1. \A n \in DOMAIN backlog : backlog[n] \in Clients
    BY DEF TypeOK
  <2>2. \A d \in Clients : cpc[d] # "start" => cpc'[d] # "start"
    BY DEF TypeOK
  <2>3. \A d \in Clients : cpc'[d] = "start" => cpc[d] = "start"
    BY DEF TypeOK
  <2>4. \A n \in DOMAIN backlog' : tpc'[backlog'[n]] = "none" /\ cpc'[backlog'[n]] # "start"
    BY <1>1, <2>1, <2>2 DEF WaitingOnce
  <2>5. \A d \in Clients : cpc'[d] = "start" => tpc'[d] = "none"
    BY <1>1, <2>3 DEF WaitingOnce
  <2>6. QED
    BY <2>4, <2>5 DEF WaitingOnce
<1>3. Accounted' /\ KilledOnlyAfterCut'
  BY <1>1 DEF Accounted, Held, KilledOnlyAfterCut
<1>4. QED
  BY <1>2, <1>3, PhasesKept

LEMMA WriteLineIInv ==
    ASSUME IInv, NEW c \in Clients, WriteLine(c)
    PROVE  IInv'
<1> USE CommandAssumption DEF IInv
<1>1. PICK n \in 0..MaxPieces :
          /\ size' = [size EXCEPT ![c] = n]
          /\ c2s' = [c2s EXCEPT ![c] = @ \o Pieces(sent[c] + 1, n)]
  BY DEF WriteLine
<1>2. /\ cpc[c] = "prompt" /\ cpc' = [cpc EXCEPT ![c] = "read"]
      /\ sent' = [sent EXCEPT ![c] = @ + 1]
      /\ UNCHANGED <<threadVars, backlog, s2c, peer, cut, heard>>
  BY DEF WriteLine
<1>3. UNCHANGED <<alive, fds, opened, tpc, cur>>
  BY <1>2 DEF threadVars
<1>4. /\ Pieces(sent[c] + 1, n) \in Seq(Piece) /\ sent[c] \in Nat /\ n \in Nat
      /\ c2s[c] \in Seq(Piece)
  BY PiecesType DEF TypeOK
<1>5. TypeOK'
  <2>1. c2s[c] \o Pieces(sent[c] + 1, n) \in Seq(Piece)
    BY <1>4
  <2>2. c2s' \in [Clients -> Seq(Piece)]
    BY <1>1, <2>1 DEF TypeOK
  <2>3. /\ size' \in [Clients -> Nat] /\ sent' \in [Clients -> Nat]
        /\ cpc' \in [Clients -> {"start", "prompt", "read", "gone"}]
    BY <1>1, <1>2, <1>4 DEF TypeOK
  <2>4. QED
    BY <1>2, <1>3, <2>2, <2>3 DEF TypeOK
<1>6. \A d \in Clients \ {c} : Same(d)
  BY <1>1, <1>2, <1>3 DEF Same, TypeOK
<1>7. (cut[c] \/ Phase(c))'
  <2>1. CASE cut[c]
    BY <2>1, <1>2
  <2>2. CASE ~cut[c]
    <3>1. peer[c] = "open" /\ c2s[c] = <<>> /\ s2c[c] = <<>> /\ NotAtWork(c)
      BY <1>2, <2>2 DEF Phases, Phase, BetweenLines, LineUnderWay, InExecution,
                AnswerUnderWay, Left, LeftReset, NothingUnderWay
    <3>2. c2s'[c] = Pieces(sent[c] + 1, n)
      BY <1>1, <1>4, <3>1, ConcatEmptySeq DEF TypeOK
    <3>3. sent'[c] = sent[c] + 1 /\ cpc'[c] = "read"
      BY <1>2 DEF TypeOK
    <3>4. LineUnderWay(c)'
      BY <1>2, <1>3, <1>4, <3>1, <3>2, <3>3 DEF LineUnderWay, NotAtWork
    <3>5. QED
      BY <3>4 DEF Phase
  <2>3. QED
    BY <2>1, <2>2
<1>8. QED
  BY <1>2, <1>5, <1>6, <1>7, ClientKept

LEMMA CutType ==
    ASSUME TypeOK, NEW c \in Clients, NEW s,
           cut' = [cut EXCEPT ![c] = @ \/ ~IsWhole(s)]
    PROVE  /\ cut' \in [Clients -> BOOLEAN]
           /\ cut'[c] = (cut[c] \/ ~IsWhole(s))
           /\ \A d \in Clients \ {c} : cut'[d] = cut[d]
<1>1. cut \in [Clients -> BOOLEAN]
  BY DEF TypeOK
<1>2. (cut[c] \/ ~IsWhole(s)) \in BOOLEAN
  BY <1>1 DEF IsWhole
<1>3. QED
  BY <1>1, <1>2

LEMMA ReadAnswerIInv ==
    ASSUME IInv, NEW c \in Clients, ReadAnswer(c)
    PROVE  IInv'
<1> USE DEF IInv
<1>1. PICK k \in 1..Len(s2c[c]) :
          /\ heard' = [heard EXCEPT ![c] = s2c[c][k].line]
          /\ cut' = [cut EXCEPT ![c] = @ \/ ~IsWhole(SubSeq(s2c[c], 1, k))]
          /\ s2c' = [s2c EXCEPT ![c] = SubSeq(@, k + 1, Len(@))]
  BY DEF ReadAnswer
<1>2. /\ cpc[c] = "read" /\ cpc' = [cpc EXCEPT ![c] = "prompt"]
      /\ UNCHANGED <<threadVars, backlog, c2s, peer, sent, size>>
  BY DEF ReadAnswer
<1>3. UNCHANGED <<alive, fds, opened, tpc, cur>>
  BY <1>2 DEF threadVars
<1>4. s2c[c] \in Seq(Piece) /\ k \in 1..Len(s2c[c]) /\ k \in Nat
  BY DEF TypeOK
<1>5. TypeOK'
  <2>1. SubSeq(s2c[c], k + 1, Len(s2c[c])) \in Seq(Piece) /\ s2c[c][k].line \in Nat
    BY <1>4, ReadLeaves
  <2>2. s2c' \in [Clients -> Seq(Piece)] /\ heard' \in [Clients -> Nat]
    BY <1>1, <2>1 DEF TypeOK
  <2>3. cut' \in [Clients -> BOOLEAN]
    BY <1>1, CutType DEF TypeOK
  <2>4. QED
    BY <1>2, <1>3, <2>2, <2>3 DEF TypeOK
<1>6. /\ \A d \in Clients \ {c} : Same(d)
      /\ \A d \in Clients : cut[d] => cut'[d]
  BY <1>1, <1>2, <1>3 DEF Same, TypeOK
<1>7. (cut[c] \/ Phase(c))'
  <2>1. SUFFICES ASSUME ~cut'[c] PROVE BetweenLines(c)'
    BY DEF Phase
  <2>2. ~cut[c] /\ IsWhole(SubSeq(s2c[c], 1, k))
    BY <1>1, <2>1 DEF TypeOK
  <2>3. s2c[c] # <<>>
    BY <1>4
  <2>4. AnswerUnderWay(c)
    BY <1>2, <2>2, <2>3
       DEF Phases, Phase, BetweenLines, LineUnderWay, InExecution, Left, LeftReset,
           NothingUnderWay
  <2>5. PICK line \in Nat, n \in Nat : line = sent[c] /\ s2c[c] = Pieces(line, n)
    BY <2>4 DEF AnswerUnderWay, TypeOK
  <2>6. SubSeq(s2c[c], k + 1, Len(s2c[c])) = <<>> /\ s2c[c][k].line = line
    <3>1. SubSeq(s2c[c], k + 1, Len(s2c[c])) = <<>>
      BY <1>4, <2>2, <2>5, WholeIsAll
    <3>2. Pieces(line, n)[k].line = line
      <4>1. k \in 1..Len(Pieces(line, n))
        BY <1>4, <2>5, Zenon
      <4>2. QED
        BY <4>1, PieceOf
    <3>3. QED
      BY <2>5, <3>1, <3>2
  <2>7. SubSeq(s2c[c], k + 1, Len(s2c[c])) = <<>> /\ s2c[c][k].line = sent[c]
    BY <2>5, <2>6
  <2>8. s2c'[c] = <<>> /\ heard'[c] = sent[c] /\ cpc'[c] = "prompt"
    BY <1>1, <1>2, <2>7 DEF TypeOK
  <2>9. QED
    BY <1>2, <1>3, <2>4, <2>8 DEF AnswerUnderWay, BetweenLines, NotAtWork, NothingUnderWay
<1>8. QED
  BY <1>2, <1>5, <1>6, <1>7, ClientKept

LEMMA KillClientIInv ==
    ASSUME IInv, NEW c \in Clients, KillClient(c)
    PROVE  IInv'
<1> USE DEF IInv
<1>1. /\ cpc[c] \in {"prompt", "read"} /\ cpc' = [cpc EXCEPT ![c] = "gone"]
      /\ peer' = [peer EXCEPT ![c] = IF s2c[c] = <<>> THEN "closed" ELSE "reset"]
      /\ s2c' = [s2c EXCEPT ![c] = <<>>]
      /\ UNCHANGED <<threadVars, backlog, c2s, cut, sent, size, heard>>
  BY DEF KillClient
<1>2. UNCHANGED <<alive, fds, opened, tpc, cur>>
  BY <1>1 DEF threadVars
<1>3. TypeOK'
  BY <1>1, <1>2 DEF TypeOK
<1>4. \A d \in Clients \ {c} : Same(d)
  BY <1>1, <1>2 DEF Same, TypeOK
<1>5. (cut[c] \/ Phase(c))'
  <2>1. SUFFICES ASSUME ~cut[c] PROVE Phase(c)'
    BY <1>1
  <2>2. cpc'[c] = "gone" /\ peer'[c] = IF s2c[c] = <<>> THEN "closed" ELSE "reset"
    BY <1>1 DEF TypeOK
  <2>3. CASE s2c[c] = <<>>
    <3>1. \E line, n \in Nat : c2s[c] = Pieces(line, n)
      <4>1. CASE LineUnderWay(c)
        BY <4>1 DEF LineUnderWay, TypeOK
      <4>2. CASE ~LineUnderWay(c)
        <5>1. c2s[c] = <<>>
          BY <1>1, <2>1, <4>2
             DEF Phases, Phase, BetweenLines, InExecution, AnswerUnderWay, Left,
                 LeftReset, NothingUnderWay
        <5>2. c2s[c] = Pieces(0, 0)
          BY <5>1, PiecesType
        <5>3. QED
          BY <5>2
      <4>3. QED
        BY <4>1, <4>2
    <3>2. tpc[c] = "execute" => c2s[c] = <<>>
      BY <1>1, <2>1
         DEF Phases, Phase, BetweenLines, LineUnderWay, InExecution, AnswerUnderWay, Left,
             LeftReset, NothingUnderWay, NotAtWork
    <3>3. Left(c)'
      BY <1>1, <1>2, <2>2, <2>3, <3>1, <3>2 DEF Left
    <3>4. QED
      BY <3>3 DEF Phase
  <2>4. CASE s2c[c] # <<>>
    <3>1. AnswerUnderWay(c)
      BY <1>1, <2>1, <2>4
         DEF Phases, Phase, BetweenLines, LineUnderWay, InExecution, Left, LeftReset,
             NothingUnderWay
    <3>2. LeftReset(c)'
      BY <1>1, <1>2, <2>2, <2>4, <3>1 DEF LeftReset, AnswerUnderWay, NotAtWork
    <3>3. QED
      BY <3>2 DEF Phase
  <2>5. QED
    BY <2>3, <2>4
<1>6. QED
  BY <1>1, <1>3, <1>4, <1>5, ClientKept

-----------------------------------------------------------------------------
(* The main thread                                                         *)

LEMMA AcceptIInv ==
    ASSUME IInv, Accept
    PROVE  IInv'
<1> USE DEF IInv
<1>0. PICK c \in Clients : c = Head(backlog)
  BY DEF Accept, TypeOK
<1>1. PICK started \in {"recv", "lost"} : tpc' = [tpc EXCEPT ![c] = started]
  BY <1>0 DEF Accept
<1>2. /\ backlog # <<>> /\ backlog' = Tail(backlog)
      /\ fds' = fds + 1
      /\ UNCHANGED <<alive, opened, cur, c2s, s2c, peer, cut, cpc, sent, size, heard>>
  BY DEF Accept, streamVars, clientVars
<1>3. /\ backlog \in Seq(Clients) /\ Len(backlog) \in Nat /\ Len(backlog) > 0
      /\ DOMAIN backlog = 1..Len(backlog) /\ backlog' \in Seq(Clients)
      /\ DOMAIN backlog' = 1..(Len(backlog) - 1)
      /\ \A n \in 1..(Len(backlog) - 1) : backlog'[n] = backlog[n + 1]
      /\ c = backlog[1]
  BY <1>0, <1>2 DEF TypeOK
<1>4. tpc[c] = "none" /\ cpc[c] # "start"
  BY <1>3 DEF WaitingOnce
<1>5. TypeOK'
  <2>1. tpc' \in [Clients -> {"none", "lost", "recv", "execute", "close", "done"}]
    BY <1>1 DEF TypeOK
  <2>2. fds' \in Nat
    BY <1>2 DEF TypeOK
  <2>3. QED
    BY <1>2, <1>3, <2>1, <2>2 DEF TypeOK
<1>6. WaitingOnce'
  <2>1. ASSUME NEW n \in 1..(Len(backlog) - 1)
        PROVE  tpc'[backlog'[n]] = "none" /\ cpc'[backlog'[n]] # "start"
    <3>1. n + 1 \in DOMAIN backlog /\ 1 \in DOMAIN backlog /\ n + 1 # 1
      BY <1>3
    <3>2. backlog[n + 1] # c
      BY <1>3, <3>1 DEF WaitingOnce
    <3>3. backlog[n + 1] \in Clients /\ tpc[backlog[n + 1]] = "none" /\ cpc[backlog[n + 1]] # "start"
      BY <1>3, <3>1 DEF WaitingOnce
    <3>4. tpc'[backlog[n + 1]] = "none"
      BY <1>1, <3>2, <3>3 DEF TypeOK
    <3>5. QED
      BY <1>2, <1>3, <3>3, <3>4
  <2>2. ASSUME NEW m \in 1..(Len(backlog) - 1), NEW n \in 1..(Len(backlog) - 1),
               backlog'[m] = backlog'[n]
        PROVE  m = n
    <3>1. m + 1 \in DOMAIN backlog /\ n + 1 \in DOMAIN backlog
      BY <1>3
    <3>2. m + 1 = n + 1
      BY <1>3, <2>2, <3>1 DEF WaitingOnce
    <3>3. QED
      BY <3>2
  <2>3. \A d \in Clients : cpc'[d] = "start" => tpc'[d] = "none"
    BY <1>1, <1>2, <1>4 DEF WaitingOnce, TypeOK
  <2>4. QED
    BY <1>3, <2>1, <2>2, <2>3 DEF WaitingOnce
<1>7. Accounted'
  <2>1. Held' = Held \cup {c} /\ c \notin Held
    BY <1>1, <1>3, <1>4 DEF Held, TypeOK
  <2>2. IsFiniteSet(Held) /\ Cardinality(Held) \in Nat
    BY FS_CardinalityType DEF Accounted
  <2>3. IsFiniteSet(Held \cup {c}) /\ Cardinality(Held \cup {c}) = Cardinality(Held) + 1
    BY <2>1, <2>2, FS_AddElement
  <2>4. fds' = 1 + opened' + (Cardinality(Held) + 1)
    BY <1>2, <2>2 DEF Accounted, TypeOK
  <2>5. QED
    BY <2>1, <2>3, <2>4 DEF Accounted
<1>8. Phases'
  <2>1. \A d \in Clients \ {c} : Same(d)
    BY <1>1, <1>2 DEF Same, TypeOK
  <2>2. tpc'[c] \in {"recv", "lost"}
    BY <1>1, <1>3 DEF TypeOK
  <2>3. (cut[c] \/ Phase(c))'
    BY <1>2, <1>3, <1>4, <2>2
       DEF Phases, Phase, BetweenLines, LineUnderWay, InExecution, AnswerUnderWay, Left,
           LeftReset, NothingUnderWay, NotAtWork
  <2>4. QED
    BY <1>3, <2>1, <2>3, PhasesKept
<1>9. KilledOnlyAfterCut'
  BY <1>2 DEF KilledOnlyAfterCut
<1>10. QED
  BY <1>5, <1>6, <1>7, <1>8, <1>9

-----------------------------------------------------------------------------
(* The threads                                                             *)

\* A thread's step that leaves the queue and the clients alone, and its descriptor
\* in use; popen may have taken one more.
LEMMA ThreadKept ==
    ASSUME IInv, TypeOK', NEW c \in Clients, NEW to, to \notin {"none", "done"},
           tpc[c] \notin {"none", "done"}, tpc' = [tpc EXCEPT ![c] = to],
           UNCHANGED <<backlog, cpc>>,
           \/ UNCHANGED <<fds, opened>>
           \/ fds' = fds + 1 /\ opened' = opened + 1,
           KilledOnlyAfterCut',
           \A d \in Clients \ {c} : Same(d), (cut[c] \/ Phase(c))'
    PROVE  IInv'
<1> USE DEF IInv
<1>1. WaitingOnce'
  BY WaitingKept
<1>2. Accounted'
  BY AccountKept
<1>3. Phases'
  BY PhasesKept
<1>4. QED
  BY <1>1, <1>2, <1>3

LEMMA ReceiveIInv ==
    ASSUME IInv, NEW c \in Clients, Receive(c)
    PROVE  IInv'
<1> USE DEF IInv
<1>1. PICK k \in 1..Len(c2s[c]) :
          /\ cur' = [cur EXCEPT ![c] = c2s[c][k].line]
          /\ cut' = [cut EXCEPT ![c] = @ \/ ~IsWhole(SubSeq(c2s[c], 1, k))]
          /\ c2s' = [c2s EXCEPT ![c] = SubSeq(@, k + 1, Len(@))]
  BY DEF Receive
<1>2. /\ tpc[c] = "recv" /\ tpc' = [tpc EXCEPT ![c] = "execute"]
      /\ UNCHANGED <<alive, fds, opened, backlog, s2c, peer, cpc, sent, size, heard>>
  BY DEF Receive, clientVars
<1>3. c2s[c] \in Seq(Piece) /\ k \in 1..Len(c2s[c])
  BY DEF TypeOK
<1>4. TypeOK'
  <2>1. SubSeq(c2s[c], k + 1, Len(c2s[c])) \in Seq(Piece) /\ c2s[c][k].line \in Nat
    BY <1>3, ReadLeaves
  <2>2. c2s' \in [Clients -> Seq(Piece)] /\ cur' \in [Clients -> Nat]
    BY <1>1, <2>1 DEF TypeOK
  <2>3. cut' \in [Clients -> BOOLEAN]
    BY <1>1, CutType DEF TypeOK
  <2>4. QED
    BY <1>2, <2>2, <2>3 DEF TypeOK
<1>5. /\ cut'[c] = (cut[c] \/ ~IsWhole(SubSeq(c2s[c], 1, k)))
      /\ \A d \in Clients \ {c} : cut'[d] = cut[d]
  BY <1>1, CutType
<1>6. \A d \in Clients \ {c} : Same(d)
  BY <1>1, <1>2, <1>5 DEF Same, TypeOK
<1>7. KilledOnlyAfterCut'
  BY <1>2, <1>5 DEF KilledOnlyAfterCut
<1>8. (cut[c] \/ Phase(c))'
  <2>1. SUFFICES ASSUME ~cut[c], IsWhole(SubSeq(c2s[c], 1, k)) PROVE Phase(c)'
    BY <1>5
  <2>2. c2s[c] # <<>>
    BY <1>3
  <2>3. LineUnderWay(c) \/ Left(c)
    BY <2>1, <2>2
       DEF Phases, Phase, BetweenLines, InExecution, AnswerUnderWay, LeftReset,
           NothingUnderWay
  <2>4. tpc'[c] = "execute" /\ c2s'[c] = SubSeq(c2s[c], k + 1, Len(c2s[c]))
        /\ cur'[c] = c2s[c][k].line
    BY <1>1, <1>2 DEF TypeOK
  <2>5. CASE LineUnderWay(c)
    <3>1. PICK line \in Nat, n \in Nat : line = sent[c] /\ c2s[c] = Pieces(line, n)
      BY <2>5 DEF LineUnderWay, TypeOK
    <3>2. SubSeq(c2s[c], k + 1, Len(c2s[c])) = <<>> /\ c2s[c][k].line = line
      <4>1. SubSeq(c2s[c], k + 1, Len(c2s[c])) = <<>>
        BY <1>3, <2>1, <3>1, WholeIsAll
      <4>2. Pieces(line, n)[k].line = line
        <5>1. k \in 1..Len(Pieces(line, n))
          BY <1>3, <3>1
        <5> QED BY <5>1, PieceOf
      <4>3. QED
        BY <3>1, <4>1, <4>2
    <3>3. c2s'[c] = <<>> /\ cur'[c] = sent[c]
      BY <2>4, <3>1, <3>2
    <3>4. InExecution(c)'
      BY <1>2, <2>4, <2>5, <3>3 DEF InExecution, LineUnderWay, NothingUnderWay
    <3>5. QED
      BY <3>4 DEF Phase
  <2>6. CASE Left(c)
    <3>1. PICK line, n \in Nat : c2s[c] = Pieces(line, n)
      BY <2>6 DEF Left
    <3>2. c2s'[c] = <<>>
      BY <1>3, <2>1, <2>4, <3>1, WholeIsAll
    <3>3. c2s'[c] = Pieces(0, 0)
      BY <3>2, PiecesType
    <3>4. Left(c)'
      BY <1>2, <2>4, <2>6, <3>2, <3>3 DEF Left
    <3>5. QED
      BY <3>4 DEF Phase
  <2>7. QED
    BY <2>3, <2>5, <2>6
<1>9. QED
  BY <1>2, <1>4, <1>6, <1>7, <1>8, ThreadKept

LEMMA ExcuteUses ==
    ASSUME TypeOK, Excute
    PROVE  /\ fds' \in Nat /\ opened' \in Nat
           /\ \/ UNCHANGED <<fds, opened>>
              \/ fds' = fds + 1 /\ opened' = opened + 1
BY DEF TypeOK, Excute, Popen

LEMMA AnswerIInv ==
    ASSUME IInv, NEW c \in Clients, Answer(c)
    PROVE  IInv'
<1> USE CommandAssumption DEF IInv
<1>1. PICK n \in 1..MaxPieces : s2c' = [s2c EXCEPT ![c] = @ \o Pieces(cur[c], n)]
  BY DEF Answer
<1>2. /\ tpc[c] = "execute" /\ peer[c] = "open" /\ tpc' = [tpc EXCEPT ![c] = "recv"]
      /\ UNCHANGED <<alive, backlog, cur, c2s, peer, cut, cpc, sent, size, heard>>
  BY DEF Answer, clientVars
<1>3. /\ fds' \in Nat /\ opened' \in Nat
      /\ \/ UNCHANGED <<fds, opened>>
         \/ fds' = fds + 1 /\ opened' = opened + 1
  BY ExcuteUses DEF Answer
<1>4. /\ cur[c] \in Nat /\ n \in Nat /\ s2c[c] \in Seq(Piece)
      /\ Pieces(cur[c], n) \in Seq(Piece)
  <2>1. cur[c] \in Nat /\ n \in Nat /\ s2c[c] \in Seq(Piece)
    BY DEF TypeOK
  <2>2. QED
    BY <2>1, PiecesType
<1>5. TypeOK'
  <2>1. s2c[c] \o Pieces(cur[c], n) \in Seq(Piece)
    BY <1>4
  <2>2. QED
    BY <1>1, <1>2, <1>3, <2>1 DEF TypeOK
<1>6. \A d \in Clients \ {c} : Same(d)
  BY <1>1, <1>2 DEF Same, TypeOK
<1>7. (cut[c] \/ Phase(c))'
  <2>1. SUFFICES ASSUME ~cut[c] PROVE AnswerUnderWay(c)'
    BY <1>2 DEF Phase
  <2>2. InExecution(c)
    BY <1>2, <2>1
       DEF Phases, Phase, BetweenLines, LineUnderWay, AnswerUnderWay, Left, LeftReset,
           NotAtWork
  <2>3. s2c'[c] = Pieces(sent[c], n)
    BY <1>1, <1>4, <2>2, ConcatEmptySeq DEF InExecution, NothingUnderWay, TypeOK
  <2>4. tpc'[c] = "recv"
    BY <1>2 DEF TypeOK
  <2>5. QED
    BY <1>2, <1>4, <2>2, <2>3, <2>4
       DEF AnswerUnderWay, InExecution, NothingUnderWay, NotAtWork
<1>8. KilledOnlyAfterCut'
  BY <1>2 DEF KilledOnlyAfterCut
<1>9. QED
  BY <1>2, <1>3, <1>5, <1>6, <1>7, <1>8, ThreadKept

LEMMA AnswerNobodyIInv ==
    ASSUME IInv, NEW c \in Clients, AnswerNobody(c)
    PROVE  IInv'
<1> USE DEF IInv
<1>1. /\ tpc[c] = "execute" /\ peer[c] # "open" /\ tpc' = [tpc EXCEPT ![c] = "recv"]
      /\ UNCHANGED <<backlog, cur, c2s, s2c, cut, cpc, sent, size, heard>>
  BY DEF AnswerNobody, clientVars
<1>2. /\ fds' \in Nat /\ opened' \in Nat
      /\ \/ UNCHANGED <<fds, opened>>
         \/ fds' = fds + 1 /\ opened' = opened + 1
  BY ExcuteUses DEF AnswerNobody
<1>3. \/ peer[c] = "closed" /\ alive' = alive
         /\ peer' \in {[peer EXCEPT ![c] = "closed"], [peer EXCEPT ![c] = "reset"]}
      \/ peer[c] = "reset" /\ alive' \in BOOLEAN /\ peer' = peer
  BY DEF AnswerNobody
<1>4. TypeOK'
  <2>1. peer' \in [Clients -> {"open", "closed", "reset"}] /\ alive' \in BOOLEAN
    BY <1>3 DEF TypeOK
  <2>2. QED
    BY <1>1, <1>2, <2>1 DEF TypeOK
<1>5. \A d \in Clients \ {c} : Same(d)
  <2>1. \A d \in Clients \ {c} : peer'[d] = peer[d]
    BY <1>3 DEF TypeOK
  <2>2. QED
    BY <1>1, <2>1 DEF Same, TypeOK
<1>6. ~cut[c] => Left(c) /\ peer[c] = "closed"
  BY <1>1 DEF Phases, Phase, BetweenLines, LineUnderWay, InExecution, AnswerUnderWay,
              Left, LeftReset
<1>7. (cut[c] \/ Phase(c))'
  <2>1. SUFFICES ASSUME ~cut[c] PROVE Phase(c)'
    BY <1>1
  <2>2. Left(c) /\ tpc'[c] = "recv" /\ peer'[c] \in {"closed", "reset"} /\ c2s[c] = <<>>
    BY <1>1, <1>3, <1>6, <2>1 DEF Left, TypeOK
  <2>3. CASE peer'[c] = "closed"
    <3>1. Left(c)'
      BY <1>1, <2>2, <2>3 DEF Left
    <3>2. QED
      BY <3>1 DEF Phase
  <2>4. CASE peer'[c] = "reset"
    <3>1. LeftReset(c)'
      BY <1>1, <2>2, <2>4 DEF Left, LeftReset
    <3>2. QED
      BY <3>1 DEF Phase
  <2>5. QED
    BY <2>2, <2>3, <2>4
<1>8. KilledOnlyAfterCut'
  <2>1. CASE cut[c]
    BY <1>1, <2>1 DEF KilledOnlyAfterCut
  <2>2. CASE ~cut[c]
    BY <1>1, <1>3, <1>6, <2>2 DEF KilledOnlyAfterCut
  <2>3. QED
    BY <2>1, <2>2
<1>9. QED
  BY <1>1, <1>2, <1>4, <1>5, <1>7, <1>8, ThreadKept

LEMMA EndOfFileIInv ==
    ASSUME IInv, NEW c \in Clients, EndOfFile(c)
    PROVE  IInv'
<1> USE DEF IInv
<1>1. /\ tpc[c] = "recv" /\ c2s[c] = <<>> /\ peer[c] # "open"
      /\ tpc' = [tpc EXCEPT ![c] = "close"]
      /\ UNCHANGED <<alive, fds, opened, cur, backlog, c2s, s2c, peer, cut, cpc, sent,
                     size, heard>>
  BY DEF EndOfFile, streamVars, clientVars
<1>2. TypeOK' /\ KilledOnlyAfterCut'
  BY <1>1 DEF TypeOK, KilledOnlyAfterCut
<1>3. \A d \in Clients \ {c} : Same(d)
  BY <1>1 DEF Same, TypeOK
<1>4. (cut[c] \/ Phase(c))'
  <2>1. SUFFICES ASSUME ~cut[c] PROVE Phase(c)'
    BY <1>1
  <2>2. tpc'[c] = "close" /\ (Left(c) \/ LeftReset(c))
    BY <1>1, <2>1
       DEF Phases, Phase, BetweenLines, LineUnderWay, InExecution, AnswerUnderWay, TypeOK
  <2>3. Left(c)' \/ LeftReset(c)'
    BY <1>1, <2>2 DEF Left, LeftReset
  <2>4. QED
    BY <2>3 DEF Phase
<1>5. QED
  BY <1>1, <1>2, <1>3, <1>4, ThreadKept

LEMMA FinishIInv ==
    ASSUME IInv, NEW c \in Clients, Finish(c)
    PROVE  IInv'
<1> USE DEF IInv
<1>1. /\ tpc[c] = "close" /\ fds' = fds - 1 /\ tpc' = [tpc EXCEPT ![c] = "done"]
      /\ UNCHANGED <<alive, opened, cur, backlog, c2s, s2c, peer, cut, cpc, sent, size,
                     heard>>
  BY DEF Finish, streamVars, clientVars
<1>2. Accounted' /\ fds' \in Nat
  <2>1. Held' = Held \ {c} /\ c \in Held
    BY <1>1 DEF Held, TypeOK
  <2>2. IsFiniteSet(Held) /\ Cardinality(Held) \in Nat
    BY FS_CardinalityType DEF Accounted
  <2>3. IsFiniteSet(Held \ {c}) /\ Cardinality(Held \ {c}) = Cardinality(Held) - 1
    BY <2>1, <2>2, FS_RemoveElement
  <2>4. Cardinality(Held \ {c}) \in Nat
    BY <2>3, FS_CardinalityType
  <2>5. fds = 1 + opened + Cardinality(Held) /\ opened \in Nat
    BY DEF Accounted, TypeOK
  <2>6. fds' = 1 + opened' + Cardinality(Held \ {c}) /\ fds' \in Nat
    BY <1>1, <2>2, <2>3, <2>4, <2>5
  <2>7. QED
    BY <2>1, <2>3, <2>6 DEF Accounted
<1>3. TypeOK' /\ KilledOnlyAfterCut'
  BY <1>1, <1>2 DEF TypeOK, KilledOnlyAfterCut
<1>4. \A d \in Clients \ {c} : Same(d)
  BY <1>1 DEF Same, TypeOK
<1>5. (cut[c] \/ Phase(c))'
  <2>1. SUFFICES ASSUME ~cut[c] PROVE Phase(c)'
    BY <1>1
  <2>2. tpc'[c] = "done" /\ (Left(c) \/ LeftReset(c))
    BY <1>1, <2>1
       DEF Phases, Phase, BetweenLines, LineUnderWay, InExecution, AnswerUnderWay,
           NotAtWork, TypeOK
  <2>3. Left(c)' \/ LeftReset(c)'
    BY <1>1, <2>2 DEF Left, LeftReset
  <2>4. QED
    BY <2>3 DEF Phase
<1>6. WaitingOnce'
  BY <1>1, WaitingKept
<1>7. Phases'
  BY <1>4, <1>5, PhasesKept
<1>8. QED
  BY <1>2, <1>3, <1>6, <1>7

-----------------------------------------------------------------------------
LEMMA NextIInv ==
    ASSUME IInv, [Next]_vars
    PROVE  IInv'
<1>1. CASE UNCHANGED vars
  BY <1>1
     DEF vars, threadVars, streamVars, clientVars, IInv, TypeOK, WaitingOnce, Accounted,
         Held, Phases, Phase, BetweenLines, LineUnderWay, InExecution, AnswerUnderWay,
         Left, LeftReset, NothingUnderWay, NotAtWork, KilledOnlyAfterCut
<1>2. CASE Next
  BY <1>2, AcceptIInv, ReceiveIInv, AnswerIInv, AnswerNobodyIInv, EndOfFileIInv,
     FinishIInv, ConnectIInv, WriteLineIInv, ReadAnswerIInv, KillClientIInv
     DEF Next, ThreadStep, ClientStep
<1>3. QED
  BY <1>1, <1>2

LEMMA Invariance == FairSpec => []IInv
<1>1. Init => IInv
  BY InitIInv
<1>2. IInv /\ [Next]_vars => IInv'
  BY NextIInv
<1>3. QED
  BY <1>1, <1>2, PTL DEF FairSpec, Spec

\* Every descriptor the server uses is the listening one, a connection's that is still
\* served or lost its thread, or a stream popen left open: no path through Loop,
\* Execute and Excute closes a connection twice or forgets one (TcpServer.hpp:104).
THEOREM DescriptorsAlwaysAccounted == FairSpec => []DescriptorsAccounted
<1>1. IInv => DescriptorsAccounted
  BY DEF IInv, Accounted, Held, DescriptorsAccounted
<1>2. QED
  BY <1>1, Invariance, PTL

\* However many clients, lines and pieces there are: a client at its prompt has heard
\* of its last line and nothing else is under way, as long as no recv and no read has
\* returned more or less than one line or answer (Command.hpp:62-69).
THEOREM AlwaysInStep == FairSpec => []InStep
<1>1. IInv => InStep
  BY DEF IInv, Phases, Phase, BetweenLines, LineUnderWay, InExecution, AnswerUnderWay,
         Left, LeftReset, NothingUnderWay, InStep
<1>2. QED
  BY <1>1, Invariance, PTL

\* SIGPIPE can kill the server only after some read has cut a line or an answer: until
\* then a client that is killed leaves at most one command behind (Command.hpp:69).
THEOREM AlwaysKilledOnlyAfterCut == FairSpec => []KilledOnlyAfterCut
<1>1. IInv => KilledOnlyAfterCut
  BY DEF IInv
<1>2. QED
  BY <1>1, Invariance, PTL

=============================================================================
