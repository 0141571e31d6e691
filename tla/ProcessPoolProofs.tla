-------------------------- MODULE ProcessPoolProofs --------------------------
(***************************************************************************)
(* Theorems about the process pool of 2.ProcessPool, for any number of     *)
(* channels, commands and failures: commands reach the child they were     *)
(* sent to, once and in order; they are spread evenly; a child quits only  *)
(* when it has done all that was sent; write ends are private to parent    *)
(* and child; and main leaves no child behind.                             *)
(***************************************************************************)
EXTENDS ProcessPool, SequenceTheorems, TLAPS

ParentPlaces == {"pipe", "fork", "record", "control", "close", "wait", "done", "killed"}
ChildPlaces == {"unborn", "closing", "read", "execute", "quit", "exited"}
Tasks == 0..TaskNum-1

Types ==
    /\ ppc \in ParentPlaces
    /\ i \in 1..Num+1 /\ next \in 1..Num /\ left \in Nat /\ channels \in 0..Num
    /\ reaped \in SUBSET Children
    /\ writers \in [Children -> SUBSET Processes]
    /\ readers \in [Children -> SUBSET Processes]
    /\ pipe \in [Children -> Seq(Tasks)]
    /\ sent \in [Children -> Seq(Tasks)]
    /\ cpc \in [Children -> ChildPlaces]
    /\ toClose \in [Children -> SUBSET Children]
    /\ command \in [Children -> Tasks \cup {NoCommand}]
    /\ executed \in [Children -> Seq(Tasks)]

\* Still in createProcessPool.
Creating == ppc \in {"pipe", "fork", "record"}

\* The channels recorded are those of the rounds of the loop that are over.
Phases ==
    /\ Creating => channels = i - 1 /\ next = 1
    /\ ppc \in {"fork", "record", "wait"} => i <= Num
    /\ ppc \in {"control", "close", "wait", "done"} => channels = Num
    /\ ppc = "control" => i = Num + 1
    /\ ppc = "done" => i = Num + 1

\* Pipes and children come in the order of their numbers, and the parent gives up no
\* write end before the clean-up.
Ends ==
    /\ \A k \in Children :
        /\ Creating /\ (k > i \/ (k = i /\ ppc = "pipe")) => writers[k] = {}
        /\ Creating /\ (k > i \/ (k = i /\ ppc # "record")) => cpc[k] = "unborn"
        /\ (Creating \/ ppc = "control") /\ (k < i \/ (k = i /\ ppc # "pipe"))
              => Parent \in writers[k]
    /\ WriteEndsPrivate

\* A child has a command exactly while it executes one.
Flow ==
    /\ \A k \in Children : cpc[k] = "execute" <=> command[k] # NoCommand
    /\ CommandsInOrder
    /\ QuitOnlyWhenDone

\* The clean-up has reaped the children of the channels it has passed.
Passed ==
    ppc \in {"close", "wait", "done"} =>
        \A k \in Children : k < i => cpc[k] = "unborn" \/ k \in reaped

\* All channels have had the same number of commands, and those before the next one
\* one more.
Turns ==
    /\ ppc # "killed" =>
        \E q \in Nat : \A k \in Children :
            Len(sent[k]) = q + (IF k < next THEN 1 ELSE 0)
    /\ \A k, j \in Children : Len(sent[k]) <= Len(sent[j]) + 1

IInv == Types /\ Phases /\ Ends /\ Flow /\ Passed /\ Turns

USE DEF Children, Processes

-----------------------------------------------------------------------------
(* Sequences, the counter and the end of the parent                        *)

LEMMA HeadThenTail ==
    ASSUME NEW S, NEW s \in Seq(S), s # <<>>
    PROVE  s = <<Head(s)>> \o Tail(s)
<1>1. Head(s) \in S /\ Tail(s) \in Seq(S) /\ Len(Tail(s)) = Len(s) - 1
  BY HeadTailProperties
<1>2. Len(s) \in Nat /\ Len(s) > 0
  OBVIOUS
<1>3. SubSeq(s, 1, Len(s)) = <<s[1]>> \o SubSeq(s, 2, Len(s))
  BY <1>2, SubSeqRecursiveFirst
<1>4. QED
  BY <1>2, <1>3, SubSeqFull, TailIsSubSeq

\* A command read is the first of the pipe.
LEMMA TakeFront ==
    ASSUME NEW S, NEW a \in Seq(S), NEW c \in Seq(S), NEW d \in Seq(S), NEW e \in S,
           c = <<e>> \o d
    PROVE  a \o <<>> \o c = a \o <<e>> \o d
<1>1. a \o <<>> = a /\ <<e>> \in Seq(S)
  BY ConcatEmptySeq
<1>2. QED
  BY ONLY <1>1, ConcatAssociative, c = <<e>> \o d

\* A command executed goes behind those executed before.
LEMMA PutAway ==
    ASSUME NEW S, NEW a \in Seq(S), NEW c \in Seq(S), NEW e \in S
    PROVE  a \o <<e>> \o c = Append(a, e) \o <<>> \o c
<1>1. Append(a, e) \in Seq(S) /\ Append(a, e) = a \o <<e>>
  BY AppendIsConcat
<1>2. Append(a, e) \o <<>> = Append(a, e)
  BY ONLY <1>1, ConcatEmptySeq
<1>3. QED
  BY ONLY <1>1, <1>2

\* The counter runs over the channels and begins again.
LEMMA NextIs ==
    ASSUME NEW k \in Children
    PROVE  (k % Num) + 1 = IF k = Num THEN 1 ELSE k + 1
  BY ProcessAssumption, SMT

\* A parent that is gone leaves the children what they have.
LEMMA ParentGone ==
    ASSUME IInv, ppc' = "killed", next' \in 1..Num, left' \in Nat,
           writers' = WithoutProcess(writers, Parent),
           readers' = WithoutProcess(readers, Parent),
           UNCHANGED <<i, channels, reaped, pipe, sent, childVars>>
    PROVE  IInv'
<1> USE DEF IInv, childVars, WithoutProcess
<1>1. /\ writers' \in [Children -> SUBSET Processes]
      /\ readers' \in [Children -> SUBSET Processes]
  BY DEF Types
<1>2. Types' /\ Phases' /\ Passed' /\ Turns'
  BY <1>1 DEF Types, Phases, Passed, Turns, Creating, ParentPlaces
<1>3. Ends'
  BY ProcessAssumption DEF Types, Ends, Creating, WriteEndsPrivate
<1>4. Flow'
  BY DEF Flow, CommandsInOrder, InHand, QuitOnlyWhenDone
<1>5. QED
  BY <1>2, <1>3, <1>4

-----------------------------------------------------------------------------
(* One lemma per action                                                    *)

LEMMA CreatePipeStep == ASSUME IInv, CreatePipe PROVE IInv'
<1> USE ProcessAssumption DEF IInv, parentVars, childVars
<1>1. /\ ppc = "pipe" /\ i \in Children
      /\ UNCHANGED <<i, next, left, channels, reaped, pipe, sent, childVars>>
  BY DEF CreatePipe, Types
<1>2. writers[i] = {} /\ cpc[i] = "unborn"
  BY <1>1 DEF Ends, Creating
<1>3. CASE /\ ppc' = "fork"
           /\ writers' = [writers EXCEPT ![i] = {Parent}]
           /\ readers' = [readers EXCEPT ![i] = {Parent}]
  <2>1. /\ writers' \in [Children -> SUBSET Processes]
        /\ readers' \in [Children -> SUBSET Processes]
    BY <1>1, <1>3 DEF Types
  <2>2. Types' /\ Phases' /\ Passed' /\ Turns'
    BY <1>1, <1>3, <2>1 DEF Types, Phases, Passed, Turns, Creating, ParentPlaces
  <2>3. Ends'
    <3>1. /\ writers'[i] = {Parent} /\ \A k \in Children : k # i => writers'[k] = writers[k]
          /\ UNCHANGED <<cpc, toClose>>
      BY <1>1, <1>3 DEF Types
    <3>2. WriteEndsPrivate'
      BY <3>1 DEF Ends, WriteEndsPrivate
    <3>3. QED
      BY <1>1, <1>2, <1>3, <3>1, <3>2 DEF Types, Ends, Creating
  <2>4. Flow'
    BY <1>1, <1>2, <1>3 DEF Types, Flow, CommandsInOrder, InHand, QuitOnlyWhenDone
  <2>5. QED
    BY <2>2, <2>3, <2>4
<1>4. CASE ParentExits("killed")
  BY <1>1, <1>4, ParentGone DEF ParentExits, Types
<1>5. QED
  BY <1>3, <1>4 DEF CreatePipe

LEMMA ForkStep == ASSUME IInv, Fork PROVE IInv'
<1> USE ProcessAssumption DEF IInv, parentVars, childVars
<1>1. /\ ppc = "fork" /\ ppc' = "record" /\ i \in Children
      /\ channels = i - 1 /\ next = 1
      /\ UNCHANGED <<i, next, left, channels, reaped, pipe, sent, command, executed>>
  BY DEF Fork, Types, Phases, Creating
<1>2. /\ cpc[i] = "unborn" /\ Parent \in writers[i]
      /\ \A k \in Children : k > i => cpc[k] = "unborn" /\ writers[k] = {}
  BY <1>1 DEF Ends, Creating, Types
<1>3. CASE UNCHANGED <<writers, readers, cpc, toClose>>
  BY <1>1, <1>3 DEF Types, Phases, Ends, Flow, Passed, Turns, Creating, ParentPlaces,
                    WriteEndsPrivate, CommandsInOrder, InHand, QuitOnlyWhenDone
<1>4. CASE /\ writers' = [k \in Children |-> IF Parent \in writers[k]
                                             THEN writers[k] \cup {i} ELSE writers[k]]
           /\ readers' = [k \in Children |-> IF Parent \in readers[k]
                                             THEN readers[k] \cup {i} ELSE readers[k]]
           /\ cpc' = [cpc EXCEPT ![i] = "closing"]
           /\ toClose' = [toClose EXCEPT ![i] = 1..channels]
  <2>1. writers' \in [Children -> SUBSET Processes]
    BY <1>1, <1>4 DEF Types
  <2>2. readers' \in [Children -> SUBSET Processes]
    BY <1>1, <1>4 DEF Types
  <2>3. /\ cpc' \in [Children -> ChildPlaces]
        /\ toClose' \in [Children -> SUBSET Children]
    <3>1. 1..channels \in SUBSET Children
      BY <1>1, ProcessAssumption
    <3>2. QED
      BY <1>1, <1>4, <3>1 DEF Types, ChildPlaces
  <2>4. Types' /\ Phases' /\ Passed' /\ Turns'
    BY <1>1, <2>1, <2>2, <2>3 DEF Types, Phases, Passed, Turns, Creating, ParentPlaces
  <2>5. Ends'
    <3>1. ASSUME NEW k \in Children, NEW j \in Children, j \in writers'[k]
          PROVE  cpc'[j] = "closing" /\ (j = k \/ k \in toClose'[j])
      <4>1. CASE j # i
        BY <1>1, <1>4, <3>1, <4>1 DEF Types, Ends, WriteEndsPrivate
      <4>2. CASE j = i /\ k > i
        BY <1>1, <1>2, <1>4, <3>1, <4>2 DEF Types
      <4>3. CASE j = i /\ k <= i
        BY <1>1, <1>4, <4>3 DEF Types
      <4>4. QED
        BY <4>1, <4>2, <4>3, <1>1
    <3>2. ASSUME NEW k \in Children
          PROVE  /\ k > i => writers'[k] = {} /\ cpc'[k] = "unborn"
                 /\ k <= i => Parent \in writers'[k]
      BY <1>1, <1>2, <1>4 DEF Types, Ends, Creating
    <3>3. QED
      BY <1>1, <3>1, <3>2 DEF Ends, Creating, WriteEndsPrivate
  <2>6. Flow'
    <3>1. cpc[i] = "unborn"
      BY <1>1 DEF Ends, Creating
    <3>2. ASSUME NEW k \in Children
          PROVE  /\ cpc'[k] = "execute" <=> cpc[k] = "execute"
                 /\ cpc'[k] \in {"quit", "exited"} => cpc[k] \in {"quit", "exited"}
                 /\ Parent \in writers'[k] => Parent \in writers[k]
      BY <1>1, <1>4, <3>1, ProcessAssumption DEF Types
    <3>3. QED
      BY <1>1, <3>2 DEF Flow, CommandsInOrder, InHand, QuitOnlyWhenDone
  <2>7. QED
    BY <2>4, <2>5, <2>6
<1>5. QED
  BY <1>3, <1>4 DEF Fork

LEMMA RecordChannelStep == ASSUME IInv, RecordChannel PROVE IInv'
<1> USE ProcessAssumption DEF IInv, parentVars, childVars
<1>1. /\ ppc = "record" /\ ppc' = "pipe" /\ i \in Children /\ channels = i - 1 /\ next = 1
      /\ channels' = channels + 1 /\ i' = i + 1
      /\ UNCHANGED <<next, left, reaped, writers, pipe, sent, childVars>>
  BY DEF RecordChannel, Types, Phases, Creating
<1>2. Types'
  <2>1. readers' \in [Children -> SUBSET Processes]
    BY DEF RecordChannel, Types
  <2>2. /\ ppc' \in ParentPlaces /\ i' \in 1..Num+1 /\ next' \in 1..Num /\ left' \in Nat
        /\ channels' \in 0..Num /\ reaped' \in SUBSET Children
    BY <1>1 DEF Types, ParentPlaces
  <2>3. QED
    BY <1>1, <2>1, <2>2 DEF Types
<1>3. Phases' /\ Passed' /\ Turns'
  BY <1>1 DEF Types, Phases, Passed, Turns, Creating
<1>4. Ends'
  BY <1>1 DEF Types, Ends, Creating, WriteEndsPrivate
<1>5. Flow'
  BY <1>1 DEF Types, Flow, CommandsInOrder, InHand, QuitOnlyWhenDone
<1>6. QED
  BY <1>2, <1>3, <1>4, <1>5

LEMMA StartControlStep == ASSUME IInv, StartControl PROVE IInv'
<1> USE ProcessAssumption DEF IInv, parentVars, childVars
<1>1. Types'
  BY DEF Types, Phases, StartControl, ParentPlaces, ChildPlaces
<1>2. Phases'
  BY DEF Types, Phases, Creating, StartControl
<1>3. Ends'
  BY DEF Types, Phases, Ends, Creating, WriteEndsPrivate, StartControl
<1>4. Flow'
  BY DEF Types, Phases, Ends, Flow, Creating, CommandsInOrder, InHand, QuitOnlyWhenDone,
           StartControl
<1>5. Passed'
  BY DEF Types, Phases, Passed, StartControl
<1>6. Turns'
  BY DEF Types, Phases, Turns, StartControl
<1>7. QED
  BY <1>1, <1>2, <1>3, <1>4, <1>5, <1>6

LEMMA SendTaskCommandStep == ASSUME IInv, SendTaskCommand PROVE IInv'
<1> USE ProcessAssumption DEF IInv, parentVars, childVars
<1>1. /\ ppc = "control" /\ channels = Num /\ i = Num + 1 /\ left' \in Nat
      /\ next \in Children
      /\ UNCHANGED <<i, channels, reaped, childVars>>
  BY DEF SendTaskCommand, Types, Phases
<1>2. next' = IF next = Num THEN 1 ELSE next + 1
  BY <1>1, NextIs DEF SendTaskCommand, NextChannel
<1>3. next' \in 1..Num
  BY <1>1, <1>2
<1>4. CASE ParentExits("killed") /\ UNCHANGED <<pipe, sent>>
  BY <1>1, <1>3, <1>4, ParentGone DEF ParentExits, Types
<1>5. CASE \E cmd \in Commands :
             /\ pipe' = [pipe EXCEPT ![next] = Append(@, cmd)]
             /\ sent' = [sent EXCEPT ![next] = Append(@, cmd)]
             /\ UNCHANGED <<ppc, writers, readers>>
  <2>1. PICK cmd \in Tasks :
             /\ pipe' = [pipe EXCEPT ![next] = Append(@, cmd)]
             /\ sent' = [sent EXCEPT ![next] = Append(@, cmd)]
             /\ UNCHANGED <<ppc, writers, readers>>
    BY <1>5 DEF Tasks
  <2>2. /\ pipe[next] \in Seq(Tasks) /\ sent[next] \in Seq(Tasks)
        /\ Append(pipe[next], cmd) \in Seq(Tasks) /\ Append(sent[next], cmd) \in Seq(Tasks)
        /\ Len(Append(sent[next], cmd)) = Len(sent[next]) + 1
    BY <1>1 DEF Types
  <2>3. /\ pipe' \in [Children -> Seq(Tasks)] /\ sent' \in [Children -> Seq(Tasks)]
    BY <1>1, <2>1, <2>2 DEF Types
  <2>4. Types' /\ Phases' /\ Passed'
    BY <1>1, <1>3, <2>1, <2>3 DEF Types, Phases, Passed, Creating, ParentPlaces
  <2>5. Ends' /\ Parent \in writers[next]
    BY <1>1, <2>1 DEF Types, Phases, Ends, Creating, WriteEndsPrivate
  <2>6. CommandsInOrder'
    <3>1. Append(sent[next], cmd)
            = executed[next] \o InHand(next) \o Append(pipe[next], cmd)
      <4>1. /\ executed[next] \in Seq(Tasks) /\ InHand(next) \in Seq(Tasks)
        BY <1>1 DEF Types, InHand
      <4>2. sent[next] = executed[next] \o InHand(next) \o pipe[next]
        BY <1>1 DEF Flow, CommandsInOrder
      <4>3. /\ cmd \in Tasks /\ <<cmd>> \in Seq(Tasks) /\ pipe[next] \in Seq(Tasks)
            /\ executed[next] \o InHand(next) \in Seq(Tasks)
        BY <2>2, <4>1
      <4>4. /\ Append(sent[next], cmd) = sent[next] \o <<cmd>>
            /\ Append(pipe[next], cmd) = pipe[next] \o <<cmd>>
        BY ONLY <2>2, <4>3, AppendIsConcat
      <4>5. \A s \in Seq(Tasks) :
               (s \o pipe[next]) \o <<cmd>> = s \o (pipe[next] \o <<cmd>>)
        <5>1. \A s, t, u \in Seq(Tasks) : (s \o t) \o u = s \o (t \o u)
          BY ONLY ConcatAssociative
        <5>2. QED
          BY ONLY <4>3, <5>1
      <4>6. QED
        BY ONLY <4>2, <4>3, <4>4, <4>5
    <3>2. ASSUME NEW k \in Children
          PROVE  sent'[k] = executed'[k] \o InHand(k)' \o pipe'[k]
      <4>1. CASE k = next
        BY <1>1, <2>1, <3>1, <4>1 DEF Types, InHand
      <4>2. CASE k # next
        BY <1>1, <2>1, <4>2 DEF Types, InHand, Flow, CommandsInOrder
      <4>3. QED
        BY <4>1, <4>2
    <3>3. QED
      BY <3>2 DEF CommandsInOrder
  <2>7. QuitOnlyWhenDone'
    BY <1>1, <2>1, <2>5 DEF Types, Flow, QuitOnlyWhenDone
  <2>8. Flow'
    BY <1>1, <2>1, <2>6, <2>7 DEF Flow
  <2>9. Turns'
    <3>1. PICK q \in Nat : \A k \in Children :
                Len(sent[k]) = q + (IF k < next THEN 1 ELSE 0)
      BY <1>1 DEF Turns
    <3>2. ASSUME NEW k \in Children
          PROVE  Len(sent'[k]) = q + (IF k <= next THEN 1 ELSE 0)
      <4>1. Len(sent[k]) = q + (IF k < next THEN 1 ELSE 0)
        BY <3>1
      <4>2. CASE k = next
        <5>1. sent'[k] = Append(sent[next], cmd) /\ next \in Int
          BY <1>1, <2>1, <4>2 DEF Types
        <5>2. k <= next /\ ~(k < next)
          BY <4>2, <5>1
        <5>3. QED
          BY <2>2, <4>1, <4>2, <5>1, <5>2
      <4>3. CASE k # next
        <5>1. sent'[k] = sent[k] /\ next \in Int /\ k \in Int
          BY <1>1, <2>1, <4>3 DEF Types
        <5>2. (k <= next) <=> (k < next)
          BY <4>3, <5>1
        <5>3. QED
          BY <4>1, <5>1, <5>2
      <4>4. QED
        BY <4>2, <4>3
    <3>3. \A k, j \in Children : Len(sent'[k]) <= Len(sent'[j]) + 1
      BY <3>2
    <3>4. CASE next = Num
      <4>1. \A k \in Children : Len(sent'[k]) = (q + 1) + (IF k < next' THEN 1 ELSE 0)
        BY <1>2, <3>2, <3>4
      <4>2. q + 1 \in Nat
        OBVIOUS
      <4>3. QED
        BY <3>3, <4>1, <4>2 DEF Turns
    <3>5. CASE next # Num
      <4>1. \A k \in Children : Len(sent'[k]) = q + (IF k < next' THEN 1 ELSE 0)
        BY <1>1, <1>2, <3>2, <3>5
      <4>2. QED
        BY <3>3, <4>1 DEF Turns
    <3>6. QED
      BY <3>4, <3>5
  <2>10. QED
    BY <2>4, <2>5, <2>8, <2>9
<1>6. QED
  BY <1>4, <1>5 DEF SendTaskCommand

LEMMA StartCleanUpStep == ASSUME IInv, StartCleanUp PROVE IInv'
<1> USE ProcessAssumption DEF IInv, parentVars, childVars
<1>1. Types'
  BY DEF Types, StartCleanUp, ParentPlaces
<1>2. Phases'
  BY DEF Types, Phases, Creating, StartCleanUp
<1>3. Ends'
  BY DEF Types, Phases, Ends, Creating, WriteEndsPrivate, StartCleanUp
<1>4. Flow'
  BY DEF Types, Phases, Ends, Flow, Creating, CommandsInOrder, InHand, QuitOnlyWhenDone,
           StartCleanUp
<1>5. Passed'
  BY DEF Types, Phases, Passed, StartCleanUp
<1>6. Turns'
  BY DEF Types, Phases, Turns, StartCleanUp
<1>7. QED
  BY <1>1, <1>2, <1>3, <1>4, <1>5, <1>6

LEMMA CloseChannelStep == ASSUME IInv, CloseChannel PROVE IInv'
<1> USE ProcessAssumption DEF IInv, parentVars, childVars
<1>1. Types'
  BY DEF Types, Phases, CloseChannel, ParentPlaces, ChildPlaces
<1>2. Phases'
  BY DEF Types, Phases, Creating, CloseChannel
<1>3. Ends'
  BY DEF Types, Phases, Ends, Creating, WriteEndsPrivate, CloseChannel
<1>4. Flow'
  BY DEF Types, Phases, Ends, Flow, Creating, CommandsInOrder, InHand, QuitOnlyWhenDone,
           CloseChannel
<1>5. Passed'
  BY DEF Types, Phases, Passed, CloseChannel
<1>6. Turns'
  BY DEF Types, Phases, Turns, CloseChannel
<1>7. QED
  BY <1>1, <1>2, <1>3, <1>4, <1>5, <1>6

LEMMA WaitStep == ASSUME IInv, Wait PROVE IInv'
<1> USE ProcessAssumption DEF IInv, parentVars, childVars
<1>1. /\ ppc = "wait" /\ ppc' = "close" /\ i \in Children /\ i' = i + 1 /\ channels = Num
      /\ UNCHANGED <<next, left, channels, writers, readers, pipe, sent, childVars>>
  BY DEF Wait, Types, Phases
<1>2. /\ reaped' \in SUBSET Children /\ reaped \subseteq reaped'
      /\ cpc[i] = "unborn" \/ i \in reaped'
  <2>1. CASE cpc[i] = "unborn"
    <3>1. UNCHANGED reaped \/ \E k \in Children : reaped' = reaped \cup {k}
      BY <2>1 DEF Wait
    <3>2. QED
      BY <2>1, <3>1 DEF Types
  <2>2. CASE cpc[i] # "unborn"
    <3>1. \/ i \in reaped /\ UNCHANGED reaped
          \/ reaped' = reaped \cup {i}
      BY <1>1, <2>2 DEF Wait
    <3>2. QED
      BY <1>1, <3>1 DEF Types
  <2>3. QED
    BY <2>1, <2>2
<1>3. Types' /\ Phases'
  BY <1>1, <1>2 DEF Types, Phases, Creating, ParentPlaces
<1>4. Ends' /\ Turns'
  BY <1>1 DEF Ends, Turns, Creating, WriteEndsPrivate
<1>5. Flow'
  BY <1>1 DEF Flow, CommandsInOrder, InHand, QuitOnlyWhenDone
<1>6. Passed'
  <2> SUFFICES ASSUME NEW k \in Children, k < i + 1
               PROVE  cpc[k] = "unborn" \/ k \in reaped'
    BY <1>1 DEF Passed
  <2>1. CASE k = i
    BY <1>2, <2>1
  <2>2. CASE k < i
    BY <1>1, <1>2, <2>2 DEF Passed
  <2>3. QED
    BY <1>1, <2>1, <2>2
<1>7. QED
  BY <1>3, <1>4, <1>5, <1>6

LEMMA ReturnFromMainStep == ASSUME IInv, ReturnFromMain PROVE IInv'
<1> USE ProcessAssumption DEF IInv, parentVars, childVars
<1>1. Types'
  BY DEF Types, Phases, ReturnFromMain, ParentExits, WithoutProcess, ParentPlaces,
           ChildPlaces
<1>2. Phases'
  BY DEF Types, Phases, Creating, ReturnFromMain, ParentExits, WithoutProcess
<1>3. Ends'
  BY DEF Types, Phases, Ends, Creating, WriteEndsPrivate, ReturnFromMain, ParentExits,
           WithoutProcess
<1>4. Flow'
  BY DEF Types, Phases, Ends, Flow, Creating, CommandsInOrder, InHand, QuitOnlyWhenDone,
           ReturnFromMain, ParentExits, WithoutProcess
<1>5. Passed'
  BY DEF Types, Phases, Passed, ReturnFromMain, ParentExits, WithoutProcess
<1>6. Turns'
  BY DEF Types, Phases, Turns, ReturnFromMain, ParentExits, WithoutProcess
<1>7. QED
  BY <1>1, <1>2, <1>3, <1>4, <1>5, <1>6

LEMMA CloseInheritedStep == ASSUME IInv, NEW x \in Children, CloseInherited(x) PROVE IInv'
<1> USE ProcessAssumption DEF IInv, parentVars, childVars
<1>1. /\ cpc[x] = "closing"
      /\ UNCHANGED <<parentVars, readers, pipe, sent, cpc, command, executed>>
  BY DEF CloseInherited
<1>2. PICK j \in Children :
          /\ j \in toClose[x]
          /\ writers' = [writers EXCEPT ![j] = @ \ {x}]
          /\ toClose' = [toClose EXCEPT ![x] = @ \ {j}]
  BY DEF CloseInherited, Types
<1>3. /\ writers' \in [Children -> SUBSET Processes]
      /\ toClose' \in [Children -> SUBSET Children]
  BY <1>2 DEF Types
<1>4. Types' /\ Phases' /\ Passed' /\ Turns'
  BY <1>1, <1>3 DEF Types, Phases, Passed, Turns, Creating
<1>5. Parent # x /\ \A k \in Children : writers'[k] \subseteq writers[k]
                                        /\ (Parent \in writers'[k] <=> Parent \in writers[k])
  BY <1>2, ProcessAssumption DEF Types
<1>6. WriteEndsPrivate'
  BY <1>1, <1>2 DEF Types, Ends, WriteEndsPrivate
<1>7. Ends'
  BY <1>1, <1>5, <1>6 DEF Ends, Creating
<1>8. Flow'
  BY <1>1, <1>5 DEF Flow, CommandsInOrder, InHand, QuitOnlyWhenDone
<1>9. QED
  BY <1>4, <1>7, <1>8

LEMMA CloseOwnWriteEndStep == ASSUME IInv, NEW x \in Children,
     CloseOwnWriteEnd(x) PROVE IInv'
<1> USE ProcessAssumption DEF IInv, parentVars, childVars
<1>1. Types'
  BY DEF Types, Phases, CloseOwnWriteEnd, ParentPlaces, ChildPlaces
<1>2. Phases'
  BY DEF Types, Phases, Creating, CloseOwnWriteEnd
<1>3. Ends'
  <2>1. /\ cpc[x] = "closing" /\ toClose[x] = {} /\ UNCHANGED <<ppc, i, toClose>>
        /\ cpc'[x] = "read" /\ \A k \in Children : k # x => cpc'[k] = cpc[k]
        /\ writers'[x] = writers[x] \ {x} /\ \A k \in Children : k # x => writers'[k] = writers[k]
    BY DEF Types, CloseOwnWriteEnd
  <2>2. WriteEndsPrivate'
    BY <2>1 DEF Ends, WriteEndsPrivate
  <2>3. QED
    BY <2>1, <2>2 DEF Ends, Creating
<1>4. Flow'
  BY DEF Types, Phases, Ends, Flow, Creating, CommandsInOrder, InHand, QuitOnlyWhenDone,
           CloseOwnWriteEnd
<1>5. Passed'
  BY DEF Types, Phases, Passed, CloseOwnWriteEnd
<1>6. Turns'
  BY DEF Types, Phases, Turns, CloseOwnWriteEnd
<1>7. QED
  BY <1>1, <1>2, <1>3, <1>4, <1>5, <1>6

LEMMA ReadCommandStep == ASSUME IInv, NEW x \in Children, ReadCommand(x) PROVE IInv'
<1> USE ProcessAssumption DEF IInv, parentVars, childVars
<1>1. /\ cpc[x] = "read" /\ pipe[x] # <<>>
      /\ command' = [command EXCEPT ![x] = Head(pipe[x])]
      /\ pipe' = [pipe EXCEPT ![x] = Tail(pipe[x])]
      /\ cpc' = [cpc EXCEPT ![x] = "execute"]
      /\ UNCHANGED <<parentVars, writers, readers, sent, toClose, executed>>
  BY DEF ReadCommand
<1>2. /\ pipe[x] \in Seq(Tasks) /\ Head(pipe[x]) \in Tasks /\ Tail(pipe[x]) \in Seq(Tasks)
      /\ pipe[x] = <<Head(pipe[x])>> \o Tail(pipe[x])
  <2>1. pipe[x] \in Seq(Tasks)
    BY DEF Types
  <2>2. QED
    BY <1>1, <2>1, HeadThenTail, HeadTailProperties
<1>3. /\ command' \in [Children -> Tasks \cup {NoCommand}]
      /\ pipe' \in [Children -> Seq(Tasks)]
      /\ cpc' \in [Children -> ChildPlaces]
  BY <1>1, <1>2 DEF Types, ChildPlaces
<1>4. Types' /\ Phases' /\ Turns'
  BY <1>1, <1>3 DEF Types, Phases, Turns, Creating
<1>5. Ends' /\ Passed'
  <2>1. /\ \A k \in Children : cpc'[k] = "unborn" <=> cpc[k] = "unborn"
        /\ \A k \in Children : cpc'[k] = "closing" <=> cpc[k] = "closing"
    BY <1>1 DEF Types
  <2>2. UNCHANGED <<ppc, i, writers, reaped, toClose>>
    BY <1>1
  <2>3. Passed'
    BY <2>1, <2>2 DEF Passed
  <2>4. WriteEndsPrivate'
    BY <2>1, <2>2 DEF Ends, WriteEndsPrivate
  <2>5. Ends'
    BY <2>1, <2>2, <2>4 DEF Ends, Creating
  <2>6. QED
    BY <2>3, <2>5
<1>6. \A k \in Children : cpc'[k] = "execute" <=> command'[k] # NoCommand
  BY <1>1, <1>2 DEF Types, Flow, Tasks, NoCommand
<1>7. CommandsInOrder'
  <2>1. InHand(x) = <<>> /\ InHand(x)' = <<Head(pipe[x])>>
    BY <1>1, <1>2 DEF Types, Flow, InHand, Tasks, NoCommand
  <2>2. sent[x] = executed[x] \o <<Head(pipe[x])>> \o Tail(pipe[x])
    <3>1. sent[x] = executed[x] \o <<>> \o pipe[x] /\ executed[x] \in Seq(Tasks)
      BY <2>1 DEF Types, Flow, CommandsInOrder
    <3>2. QED
      BY ONLY <1>2, <3>1, TakeFront
  <2>3. ASSUME NEW k \in Children
        PROVE  sent'[k] = executed'[k] \o InHand(k)' \o pipe'[k]
    <3>1. CASE k = x
      BY <1>1, <2>1, <2>2, <3>1 DEF Types
    <3>2. CASE k # x
      BY <1>1, <3>2 DEF Types, InHand, Flow, CommandsInOrder
    <3>3. QED
      BY <3>1, <3>2
  <2>4. QED
    BY <2>3 DEF CommandsInOrder
<1>8. QuitOnlyWhenDone'
  BY <1>1 DEF Types, Flow, QuitOnlyWhenDone
<1>9. QED
  BY <1>4, <1>5, <1>6, <1>7, <1>8 DEF Flow

LEMMA ExcuteTaskStep == ASSUME IInv, NEW x \in Children, ExcuteTask(x) PROVE IInv'
<1> USE ProcessAssumption DEF IInv, parentVars, childVars
<1>1. /\ cpc[x] = "execute" /\ command[x] \in Tasks
      /\ executed[x] \in Seq(Tasks)
      /\ Append(executed[x], command[x]) \in Seq(Tasks)
  BY DEF ExcuteTask, Types, Flow
<1>2. /\ executed' = [executed EXCEPT ![x] = Append(executed[x], command[x])]
      /\ command' = [command EXCEPT ![x] = NoCommand]
      /\ cpc' = [cpc EXCEPT ![x] = "read"]
      /\ UNCHANGED <<parentVars, writers, readers, pipe, sent, toClose>>
  BY <1>1 DEF ExcuteTask, Tasks
<1>3. /\ command' \in [Children -> Tasks \cup {NoCommand}]
      /\ executed' \in [Children -> Seq(Tasks)]
      /\ cpc' \in [Children -> ChildPlaces]
  BY <1>1, <1>2 DEF Types, ChildPlaces
<1>4. Types' /\ Phases' /\ Turns'
  BY <1>2, <1>3 DEF Types, Phases, Turns, Creating
<1>5. Ends' /\ Passed'
  <2>1. /\ \A k \in Children : cpc'[k] = "unborn" <=> cpc[k] = "unborn"
        /\ \A k \in Children : cpc'[k] = "closing" <=> cpc[k] = "closing"
    BY <1>1, <1>2 DEF Types
  <2>2. UNCHANGED <<ppc, i, writers, reaped, toClose>>
    BY <1>2
  <2>3. Passed'
    BY <2>1, <2>2 DEF Passed
  <2>4. WriteEndsPrivate'
    BY <2>1, <2>2 DEF Ends, WriteEndsPrivate
  <2>5. Ends'
    BY <2>1, <2>2, <2>4 DEF Ends, Creating
  <2>6. QED
    BY <2>3, <2>5
<1>6. \A k \in Children : cpc'[k] = "execute" <=> command'[k] # NoCommand
  BY <1>2 DEF Types, Flow
<1>7. CommandsInOrder'
  <2>1. InHand(x) = <<command[x]>> /\ InHand(x)' = <<>>
    BY <1>1, <1>2 DEF Types, InHand, Tasks, NoCommand
  <2>2. sent[x] = Append(executed[x], command[x]) \o <<>> \o pipe[x]
    <3>1. sent[x] = executed[x] \o <<command[x]>> \o pipe[x] /\ pipe[x] \in Seq(Tasks)
      BY <2>1 DEF Types, Flow, CommandsInOrder
    <3>2. \A a, c \in Seq(Tasks) : \A e \in Tasks :
             a \o <<e>> \o c = Append(a, e) \o <<>> \o c
      BY ONLY PutAway
    <3>3. executed[x] \o <<command[x]>> \o pipe[x]
            = Append(executed[x], command[x]) \o <<>> \o pipe[x]
      BY ONLY <1>1, <3>1, <3>2, Zenon
    <3>4. QED
      BY ONLY <3>1, <3>3, Zenon
  <2>3. ASSUME NEW k \in Children
        PROVE  sent'[k] = executed'[k] \o InHand(k)' \o pipe'[k]
    <3>1. CASE k = x
      BY <1>2, <2>1, <2>2, <3>1 DEF Types
    <3>2. CASE k # x
      BY <1>2, <3>2 DEF Types, InHand, Flow, CommandsInOrder
    <3>3. QED
      BY <3>1, <3>2
  <2>4. QED
    BY <2>3 DEF CommandsInOrder
<1>8. QuitOnlyWhenDone'
  BY <1>1, <1>2 DEF Types, Flow, QuitOnlyWhenDone
<1>9. QED
  BY <1>4, <1>5, <1>6, <1>7, <1>8 DEF Flow

LEMMA ReadEndOfFileStep == ASSUME IInv, NEW x \in Children, ReadEndOfFile(x) PROVE IInv'
<1> USE ProcessAssumption DEF IInv, parentVars, childVars
<1>1. /\ cpc[x] = "read" /\ pipe[x] = <<>> /\ writers[x] = {}
      /\ cpc' = [cpc EXCEPT ![x] = "quit"]
      /\ UNCHANGED <<parentVars, writers, readers, pipe, sent, toClose, command, executed>>
  BY DEF ReadEndOfFile
<1>2. Types' /\ Phases' /\ Passed' /\ Turns'
  BY <1>1 DEF Types, Phases, Passed, Turns, Creating, ChildPlaces
<1>3. Ends'
  <2>1. WriteEndsPrivate'
    BY <1>1 DEF Types, Ends, WriteEndsPrivate
  <2>2. QED
    BY <1>1, <2>1 DEF Types, Ends, Creating
<1>4. sent[x] = executed[x]
  <2>1. InHand(x) = <<>>
    BY <1>1 DEF Types, Flow, InHand
  <2>2. sent[x] = executed[x] \o <<>> \o <<>> /\ executed[x] \in Seq(Tasks)
    BY <1>1, <2>1 DEF Types, Flow, CommandsInOrder
  <2>3. QED
    BY ONLY <2>2, ConcatEmptySeq
<1>5. QuitOnlyWhenDone'
  BY <1>1, <1>4 DEF Types, Flow, QuitOnlyWhenDone
<1>6. Flow'
  BY <1>1, <1>5 DEF Types, Flow, CommandsInOrder, InHand
<1>7. QED
  BY <1>2, <1>3, <1>6

LEMMA ExitStep == ASSUME IInv, NEW x \in Children, Exit(x) PROVE IInv'
<1> USE ProcessAssumption DEF IInv, parentVars, childVars
<1>1. Types'
  BY DEF Types, Phases, Exit, WithoutProcess, ParentPlaces, ChildPlaces
<1>2. Phases'
  BY DEF Types, Phases, Creating, Exit, WithoutProcess
<1>3. Ends'
  BY DEF Types, Phases, Ends, Creating, WriteEndsPrivate, Exit, WithoutProcess
<1>4. Flow'
  BY DEF Types, Phases, Ends, Flow, Creating, CommandsInOrder, InHand, QuitOnlyWhenDone,
           Exit, WithoutProcess
<1>5. Passed'
  BY DEF Types, Phases, Passed, Exit, WithoutProcess
<1>6. Turns'
  BY DEF Types, Phases, Turns, Exit, WithoutProcess
<1>7. QED
  BY <1>1, <1>2, <1>3, <1>4, <1>5, <1>6

-----------------------------------------------------------------------------
(* The invariant and the theorems                                          *)

LEMMA InitIInv == Init => IInv
<1> SUFFICES ASSUME Init PROVE IInv
  OBVIOUS
<1> USE ProcessAssumption DEF Init, NoCommand
<1>1. Types
  BY DEF Types, ParentPlaces, ChildPlaces
<1>2. Phases /\ Ends /\ Passed
  BY DEF Phases, Ends, Passed, Creating, WriteEndsPrivate
<1>3. Flow
  BY DEF Flow, CommandsInOrder, InHand, QuitOnlyWhenDone
<1>4. Turns
  <2>1. \A k \in Children : Len(sent[k]) = 0 + (IF k < next THEN 1 ELSE 0)
    OBVIOUS
  <2>2. QED
    BY <2>1 DEF Turns
<1>5. QED
  BY <1>1, <1>2, <1>3, <1>4 DEF IInv

LEMMA NextIInv == ASSUME IInv, [Next]_vars PROVE IInv'
<1>1. CASE ParentStep
  BY <1>1, CreatePipeStep, ForkStep, RecordChannelStep, StartControlStep,
       SendTaskCommandStep, StartCleanUpStep, CloseChannelStep, WaitStep, ReturnFromMainStep
     DEF ParentStep
<1>2. ASSUME NEW x \in Children, ChildStep(x)
      PROVE  IInv'
  BY <1>2, CloseInheritedStep, CloseOwnWriteEndStep, ReadCommandStep, ExcuteTaskStep,
       ReadEndOfFileStep, ExitStep
     DEF ChildStep
<1>3. CASE UNCHANGED vars
  <2>1. Types' /\ Phases'
    BY <1>3 DEF vars, IInv, Types, Phases, Creating
  <2>2. Ends' /\ Passed'
    BY <1>3 DEF vars, IInv, Ends, Creating, WriteEndsPrivate, Passed
  <2>3. Flow'
    BY <1>3 DEF vars, IInv, Flow, CommandsInOrder, InHand, QuitOnlyWhenDone
  <2>4. Turns'
    BY <1>3 DEF vars, IInv, Turns
  <2>5. QED
    BY <2>1, <2>2, <2>3, <2>4 DEF IInv
<1>4. QED
  BY <1>1, <1>2, <1>3 DEF Next

LEMMA Invariance == Spec => []IInv
  BY InitIInv, NextIInv, PTL DEF Spec

\* Every command is executed by the child it was written for, once and in order,
\* whatever of pipe, fork and write fails (ProcessPool.cc:185-203).
THEOREM NoCommandLost == Spec => []CommandsInOrder
<1>1. IInv => CommandsInOrder
  BY DEF IInv, Flow
<1>2. QED
  BY <1>1, Invariance, PTL

\* The commands go round the channels evenly (ProcessPool.cc:127-133).
THEOREM RoundRobin == Spec => []EvenlySpread
<1>1. IInv => EvenlySpread
  <2> SUFFICES ASSUME IInv, NEW k \in 1..channels, NEW j \in 1..channels
               PROVE  Len(sent[k]) <= Len(sent[j]) + 1
    BY DEF EvenlySpread
  <2>1. k \in Children /\ j \in Children
    BY ProcessAssumption DEF IInv, Types
  <2>2. QED
    BY <2>1 DEF IInv, Turns
<1>2. QED
  BY <1>1, Invariance, PTL

\* A child leaves its loop only when the parent has closed the channel and all work
\* is done (ProcessPool.cc:198), also after the parent has been killed.
THEOREM QuitsWhenDone == Spec => []QuitOnlyWhenDone
<1>1. IInv => QuitOnlyWhenDone
  BY DEF IInv, Flow
<1>2. QED
  BY <1>1, Invariance, PTL

\* No child at work holds a write end that it inherited (ProcessPool.cc:91-101),
\* however forks and closes interleave.
THEOREM NoInheritedWriteEnd == Spec => []WriteEndsPrivate
<1>1. IInv => WriteEndsPrivate
  BY DEF IInv, Ends
<1>2. QED
  BY <1>1, Invariance, PTL

\* main returns only after it has reaped every child it has created, although a
\* failed fork makes waitpid wait for any child (ProcessPool.cc:226).
THEOREM AllReaped == Spec => []NoChildLeft
<1>1. IInv => NoChildLeft
  BY ProcessAssumption DEF IInv, Phases, Passed, NoChildLeft
<1>2. QED
  BY <1>1, Invariance, PTL
=============================================================================
