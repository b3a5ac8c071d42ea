-------------------------------- MODULE Pinger --------------------------------
(* The pinger (core/pinger.py): a thread pings, appends a sample to a buffer *)
(* and writes the buffer to the database now and then; whoever stops it      *)
(* writes the buffer too.  The buffer is copied and cleared under one lock,  *)
(* appended to under another.                                                *)
EXTENDS Integers, Sequences, FiniteSets

CONSTANTS MaxSample,
          Interval,   \* samples after which the thread saves (5 s)
          Flushes,    \* times the closer writes the buffer: 1 in the server, 2 on the desktop
          Dump,       \* samples in emergency_ping_dump.json at the start
          MaxFaults

Sample == 1 .. MaxSample
Actor == {"loop", "closer"}

VARIABLES pending,   \* _pending_saves
          next,      \* the next sample
          since,     \* samples since the thread saved last
          running,
          thread,    \* the thread: what it is at, or "ended"
          closer,    \* stop and what follows it
          left,      \* writes the closer has still to do
          flush,     \* actor -> its _flush_saves
          lock,      \* who holds _io_lock, or "none"
          saved,     \* sample -> rows in the database
          caught,    \* samples appended between a copy and its clear
          refused,   \* samples the database did not take
          late,      \* whether the wait for the thread ran into its limit
          faults

vars == <<pending, next, since, running, thread, closer, left, flush, lock, saved,
          caught, refused, late, faults>>

TypeOK ==
    /\ pending \in Seq(Sample) /\ next \in 1 .. MaxSample + 1
    /\ since \in 0 .. MaxSample /\ running \in BOOLEAN
    /\ thread \in {"new", "none", "ping", "due", "flush", "wait", "ended"}
    /\ closer \in {"rest", "flush", "join", "close", "gone"} /\ left \in 0 .. Flushes
    /\ flush \in [Actor -> [pc : {"rest", "copy", "clear", "save"}, batch : Seq(Sample)]]
    /\ lock \in Actor \cup {"none"}
    /\ saved \in [Sample -> 0 .. 2]
    /\ caught \subseteq Sample /\ refused \subseteq Sample
    /\ late \in BOOLEAN /\ faults \in 0 .. MaxFaults

Rest == [pc |-> "rest", batch |-> <<>>]
InSeq(s) == {s[n] : n \in DOMAIN s}

Init ==
    /\ pending = <<>> /\ next = Dump + 1 /\ since = 0
    /\ running = FALSE /\ thread = "new" /\ closer = "rest" /\ left = Flushes
    /\ flush = [a \in Actor |-> Rest] /\ lock = "none"
    /\ saved = [s \in Sample |-> 0]
    /\ caught = {} /\ refused = {} /\ late = FALSE /\ faults = 0

-----------------------------------------------------------------------------
\* The constructor reads the dump into the buffer and flushes it, before it
\* has been given a way to the database: the buffer is emptied.
Recover ==
    /\ thread = "new"
    /\ thread' = "none"
    /\ UNCHANGED <<pending, next, since, running, closer, left, flush, lock, saved,
                   caught, refused, late, faults>>

Start ==
    /\ thread = "none"
    /\ running' = TRUE /\ thread' = "ping"
    /\ UNCHANGED <<pending, next, since, closer, left, flush, lock, saved, caught,
                   refused, late, faults>>

\* One ping, lost or not: a sample.  The data lock keeps nobody out of the
\* buffer.
Ping ==
    /\ thread = "ping" /\ next <= MaxSample
    /\ pending' = Append(pending, next)
    /\ caught' = IF flush["closer"].pc = "clear" THEN caught \cup {next} ELSE caught
    /\ next' = next + 1 /\ since' = since + 1
    /\ thread' = "due"
    /\ UNCHANGED <<running, closer, left, flush, lock, saved, refused, late, faults>>

\* Popen raises: no sample.
PingFails ==
    /\ thread = "ping" /\ faults < MaxFaults
    /\ faults' = faults + 1
    /\ thread' = "due"
    /\ UNCHANGED <<pending, next, since, running, closer, left, flush, lock, saved,
                   caught, refused, late>>

Due ==
    /\ thread = "due"
    /\ IF since >= Interval THEN thread' = "flush" /\ since' = 0
                            ELSE thread' = "wait" /\ UNCHANGED since
    /\ UNCHANGED <<pending, next, running, closer, left, flush, lock, saved, caught,
                   refused, late, faults>>

\* The pause is over; the flag is looked at.
Again ==
    /\ thread = "wait"
    /\ thread' = IF running THEN "ping" ELSE "ended"
    /\ UNCHANGED <<pending, next, since, running, closer, left, flush, lock, saved,
                   caught, refused, late, faults>>

-----------------------------------------------------------------------------
Flushing(a) ==
    IF a = "loop" THEN thread = "flush"
    ELSE (closer = "flush" /\ left = Flushes) \/ (closer = "close" /\ left > 0)

\* _flush_saves is over: the thread goes on, the closer counts.
Flushed(a) ==
    IF a = "loop" THEN thread' = "wait" /\ UNCHANGED left
                  ELSE left' = left - 1 /\ UNCHANGED thread

\* Nothing to save, or on to the lock ...
Enter(a) ==
    /\ Flushing(a) /\ flush[a].pc = "rest"
    /\ IF pending = <<>> THEN Flushed(a) /\ UNCHANGED flush
       ELSE flush' = [flush EXCEPT ![a].pc = "copy"] /\ UNCHANGED <<thread, left>>
    /\ UNCHANGED <<pending, next, since, running, closer, lock, saved, caught, refused,
                   late, faults>>

\* ... the buffer is copied ...
Copy(a) ==
    /\ flush[a].pc = "copy" /\ lock = "none"
    /\ lock' = a
    /\ flush' = [flush EXCEPT ![a] = [pc |-> "clear", batch |-> pending]]
    /\ UNCHANGED <<pending, next, since, running, thread, closer, left, saved, caught,
                   refused, late, faults>>

\* Mutant: only what was read is dropped, and from the wrong end.
KeptNewest(a) == SubSeq(pending, 1, Len(pending) - 1)

Kept(a) == <<>>

\* ... and cleared, whatever has come meanwhile ...
Clear(a) ==
    /\ flush[a].pc = "clear"
    /\ pending' = Kept(a)
    /\ lock' = "none"
    /\ flush' = [flush EXCEPT ![a].pc = "save"]
    /\ UNCHANGED <<next, since, running, thread, closer, left, saved, caught, refused,
                   late, faults>>

\* ... and handed to the database, whose answer nobody reads.
Save(a) ==
    /\ flush[a].pc = "save"
    /\ \/ /\ closer # "gone"
          /\ saved' = [s \in Sample |-> IF s \in InSeq(flush[a].batch) /\ saved[s] < 2
                                          THEN saved[s] + 1 ELSE saved[s]]
          /\ UNCHANGED <<refused, faults>>
       \/ /\ faults < MaxFaults
          /\ faults' = faults + 1
          /\ refused' = refused \cup InSeq(flush[a].batch)
          /\ UNCHANGED saved
    /\ flush' = [flush EXCEPT ![a] = Rest]
    /\ Flushed(a)
    /\ UNCHANGED <<pending, next, since, running, closer, lock, caught, late>>

-----------------------------------------------------------------------------
\* stop: the flag, the event; a flush ...
Stop ==
    /\ closer = "rest" /\ running
    /\ running' = FALSE /\ closer' = "flush"
    /\ UNCHANGED <<pending, next, since, thread, left, flush, lock, saved, caught,
                   refused, late, faults>>

\* ... the ping is killed, which is a sample like any other, and the thread is
\* waited for, three seconds at most.
ToJoin ==
    /\ closer = "flush" /\ left < Flushes /\ flush["closer"].pc = "rest"
    /\ closer' = "join"
    /\ UNCHANGED <<pending, next, since, running, thread, left, flush, lock, saved,
                   caught, refused, late, faults>>

Join ==
    /\ closer = "join"
    /\ \/ thread = "ended" /\ UNCHANGED <<late, faults>>
       \/ thread # "ended" /\ faults < MaxFaults /\ faults' = faults + 1 /\ late' = TRUE
    /\ closer' = "close"
    /\ UNCHANGED <<pending, next, since, running, thread, left, flush, lock, saved,
                   caught, refused>>

\* The desktop writes the buffer again; what it writes at its exit finds the
\* database closed.  Then the process is gone.
Exit ==
    /\ closer = "close" /\ left = 0 /\ flush["closer"].pc = "rest"
    /\ closer' = "gone"
    /\ UNCHANGED <<pending, next, since, running, thread, left, flush, lock, saved,
                   caught, refused, late, faults>>

Loop == Start \/ Ping \/ PingFails \/ Due \/ Again
Flush(a) == Enter(a) \/ Copy(a) \/ Clear(a) \/ Save(a)

Next ==
    /\ closer # "gone"
    /\ \/ Recover \/ Loop
       \/ \E a \in Actor : Flush(a)
       \/ Stop \/ ToJoin \/ Join \/ Exit

Spec == Init /\ [][Next]_vars

-----------------------------------------------------------------------------
Taken == {s \in Sample : Dump < s /\ s < next}
Held == InSeq(pending) \cup UNION {InSeq(flush[a].batch) : a \in Actor}

\* No sample is written twice, and none is lost but to a database that failed
\* and to an append between the copy and the clear of the one who stops the
\* pinger, which is one sample at most; after a stop that waited long enough
\* the later flushes of the desktop have written all others (pinger.py:259,
\* graceful_shutdown.py:118).
SamplesKept ==
    /\ \A s \in Sample : saved[s] <= 1
    /\ Cardinality(caught) <= 1
    /\ \A s \in Taken : \/ saved[s] = 1 \/ s \in Held \/ s \in refused
                        \/ s \in caught
    /\ closer = "gone" /\ ~late /\ Flushes > 1 => Taken \subseteq
           {s \in Sample : saved[s] = 1} \cup refused \cup caught

\* pinger.py:66, "the data are restored after a crash": they are held or saved.
DumpRestored == thread \notin {"new", "none"} => \A s \in 1 .. Dump : saved[s] = 1 \/ s \in Held

=============================================================================
