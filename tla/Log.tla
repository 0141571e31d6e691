---------------------------------- MODULE Log ----------------------------------
(***************************************************************************)
(* The log of Log.hpp, of which every server has a copy: any thread calls  *)
(* logMessage, which asks for the time and then writes one entry, under    *)
(* glock, to where _type points by then.  Enable moves it without a lock.  *)
(*                                                                         *)
(* localtime fills a record that the whole program shares, field by field, *)
(* under a lock of the C library; the caller reads the fields without it.  *)
(* A time has two fields here, a minute and a second; any two times differ *)
(* in both, as those before and after the turn of a minute.                *)
(***************************************************************************)
EXTENDS Integers, Sequences, Functions

CONSTANTS Threads,
          MaxCalls, (* bound: entries altogether *)
          MaxTime   (* bound: the last time      *)

LogAssumption == MaxCalls \in Nat /\ MaxTime \in Nat

VARIABLES
    pc,    \* where each thread is in logMessage
    type,  \* _type
    clock, \* the time of day when it was last asked for
    tm,    \* the record of localtime
    now,   \* the time each thread has asked for
    entry, \* the entry each thread makes: its number and the time it shows
    sinks, \* the entries on the screen and in the file
    notes  \* entries lost for want of a file; threads whose tm was overwritten

vars == <<pc, type, clock, tm, now, entry, sinks, notes>>

Types == {"screen", "file"}
Fields(time) == [minute |-> time, second |-> time]

Init ==
    /\ pc = [t \in Threads |-> "idle"]
    /\ type = "screen"
    /\ clock = 0 /\ tm = Fields(0)
    /\ now = [t \in Threads |-> 0]
    /\ entry = [t \in Threads |-> [thread |-> t, number |-> 0, time |-> Fields(0)]]
    /\ sinks = [k \in Types |-> <<>>]
    /\ notes = [unopened |-> {}, disturbed |-> {}]

Goto(t, from, to) == pc[t] = from /\ pc' = [pc EXCEPT ![t] = to]
Id(e) == <<e.thread, e.number>>

-----------------------------------------------------------------------------
\* EnableScreen and EnableFILE
Enable ==
    /\ \E k \in Types : type' = k
    /\ UNCHANGED <<pc, clock, tm, now, entry, sinks, notes>>

\* logMessage, up to time(nullptr)
LogMessage(t) ==
    /\ Goto(t, "idle", "minute")
    /\ FoldFunction(LAMBDA e, n : e.number + n, 0, entry) < MaxCalls
    /\ clock' \in {clock, clock + 1} \cap (0..MaxTime)
    /\ now' = [now EXCEPT ![t] = clock']
    /\ entry' = [entry EXCEPT ![t].number = @ + 1]
    /\ notes' = [notes EXCEPT !.disturbed = @ \ {t}]
    /\ UNCHANGED <<type, tm, sinks>>

\* The threads that have a time in tm and have not read all of it.
Reading == {t \in Threads : pc[t] \in {"readminute", "readsecond"}}

\* localtime
ConvertMinute(t) ==
    /\ \A u \in Threads : pc[u] # "second"
    /\ Goto(t, "minute", "second")
    /\ tm' = [tm EXCEPT !.minute = Fields(now[t]).minute]
    /\ notes' = [notes EXCEPT !.disturbed = @ \cup (Reading \ {t})]
    /\ UNCHANGED <<type, clock, now, entry, sinks>>

ConvertSecond(t) ==
    /\ Goto(t, "second", "readminute")
    /\ tm' = [tm EXCEPT !.second = Fields(now[t]).second]
    /\ notes' = [notes EXCEPT !.disturbed = @ \cup (Reading \ {t})]
    /\ UNCHANGED <<type, clock, now, entry, sinks>>

\* The snprintf of GetCurrTime
ReadMinute(t) ==
    /\ Goto(t, "readminute", "readsecond")
    /\ entry' = [entry EXCEPT ![t].time.minute = tm.minute]
    /\ UNCHANGED <<type, clock, tm, now, sinks, notes>>

ReadSecond(t) ==
    /\ Goto(t, "readsecond", "flush")
    /\ entry' = [entry EXCEPT ![t].time.second = tm.second]
    /\ UNCHANGED <<type, clock, tm, now, sinks, notes>>

FlushLogToScreen(t) == sinks' = [sinks EXCEPT !["screen"] = Append(@, entry[t])]

\* Mutant: the file is opened without ios::app.
FlushLogToFileTruncating(t) == sinks' = [sinks EXCEPT !["file"] = <<entry[t]>>]

FlushLogToFile(t) == sinks' = [sinks EXCEPT !["file"] = Append(@, entry[t])]

\* FlushLog holds glock for all of it.
FlushLog(t) ==
    /\ Goto(t, "flush", "idle")
    /\ \/ type = "screen" /\ FlushLogToScreen(t) /\ UNCHANGED notes
       \/ type = "file" /\ FlushLogToFile(t) /\ UNCHANGED notes
       \/ /\ type = "file" /\ UNCHANGED sinks \* the file cannot be opened
          /\ notes' = [notes EXCEPT !.unopened = @ \cup {Id(entry[t])}]
    /\ UNCHANGED <<type, clock, tm, now, entry>>

-----------------------------------------------------------------------------
ThreadStep(t) ==
    \/ LogMessage(t) \/ ConvertMinute(t) \/ ConvertSecond(t)
    \/ ReadMinute(t) \/ ReadSecond(t) \/ FlushLog(t)

Next == Enable \/ \E t \in Threads : ThreadStep(t)

Spec == Init /\ [][Next]_vars

-----------------------------------------------------------------------------
(* Properties                                                              *)

Places(t, n) ==
    UNION {{<<k, p>> : p \in {q \in DOMAIN sinks[k] : Id(sinks[k][q]) = <<t, n>>}} : k \in Types}

\* An entry whose call has returned is in one place, once, whatever Enable does
\* meanwhile; it is missing only if the file could not be opened (Log.hpp:97-127).
NothingMissing ==
    \A t \in Threads : \A n \in 1..entry[t].number :
        LET returned == n < entry[t].number \/ pc[t] = "idle"
        IN  /\ \A x, y \in Places(t, n) : x = y
            /\ returned => (Places(t, n) = {}) = (<<t, n>> \in notes.unopened)

\* The entries of a thread are in the order of its calls (Log.hpp:113-127).
InOrder ==
    \A k \in Types : \A p, q \in DOMAIN sinks[k] :
        p < q /\ sinks[k][p].thread = sinks[k][q].thread
            => sinks[k][p].number < sinks[k][q].number

\* The time of an entry is that of its call unless another thread has used the
\* record of localtime before it was read (Log.hpp:46-55).
OwnTime ==
    \A t \in Threads :
        pc[t] = "flush" /\ t \notin notes.disturbed => entry[t].time = Fields(now[t])
=============================================================================
