--------------------------------- MODULE Mtr ---------------------------------
(* The route probe (services.py, MTREngine): requests start and stop it with *)
(* no lock around the whole, a thread goes round the hops and looks at a     *)
(* flag and an event, the schedule changes the target.                       *)
EXTENDS Integers, FiniteSets

CONSTANTS Caller,    \* requests, each a start or a stop of its own
          Fan,       \* the caller that is schedule_loop, or 0
          Target,
          MaxLoop,   \* threads ever started
          MaxFaults

Loop == 1 .. MaxLoop

VARIABLES running, stop,   \* self.running, self._stop
          hops,            \* which start the lists of samples belong to, or 0
          aim,             \* start -> its target
          mixed,           \* starts whose lists hold samples of another target
          thread,          \* self._thread
          loop,            \* the threads: where they stand, the hops they walk
          call,            \* the requests: where they stand
          fan,             \* schedule_loop
          overlap, faults

vars == <<running, stop, hops, aim, mixed, thread, loop, call, fan, overlap, faults>>

TypeOK ==
    /\ running \in BOOLEAN /\ stop \in BOOLEAN
    /\ hops \in 0 .. MaxLoop /\ thread \in 0 .. MaxLoop
    /\ aim \in [Loop -> Target \cup {0}]
    /\ mixed \subseteq Loop
    /\ loop \in [Loop -> [pc : {"none", "top", "hop", "wait", "ended"},
                          on : 0 .. MaxLoop, target : Target \cup {0}]]
    /\ call \in [Caller -> [pc : {"rest", "stop", "join", "set", "clear", "spawn"},
                            then : {"start", "end"}, of : 0 .. MaxLoop]]
    /\ fan \in {"new", "rotate", "ended"}
    /\ overlap \in BOOLEAN /\ faults \in 0 .. MaxFaults

Init ==
    /\ running = FALSE /\ stop = FALSE /\ hops = 0 /\ thread = 0
    /\ aim = [l \in Loop |-> 0]
    /\ mixed = {}
    /\ loop = [l \in Loop |-> [pc |-> "none", on |-> 0, target |-> 0]]
    /\ call = [c \in Caller |-> [pc |-> "rest", then |-> "end", of |-> 0]]
    /\ fan = IF Fan = 0 THEN "ended" ELSE "new"
    /\ overlap = FALSE /\ faults = 0

At(c, pc) == call[c].pc = pc
Go(c, pc) == call' = [call EXCEPT ![c].pc = pc]
Alive == {l \in Loop : loop[l].pc \notin {"none", "ended"}}
state == <<running, stop, hops, aim, mixed, thread>>

-----------------------------------------------------------------------------
\* start looks at running, stop does not.
Enter(c, then) ==
    /\ At(c, "rest") /\ hops < MaxLoop
    /\ call' = [call EXCEPT ![c] = [pc |-> IF then = "end" \/ running THEN "stop" ELSE "set",
                                    then |-> then, of |-> 0]]
    /\ overlap' = (overlap \/ \E d \in Caller : ~At(d, "rest"))
    /\ UNCHANGED <<state, loop, faults>>

Request(c, then) == c # Fan /\ Enter(c, then) /\ UNCHANGED fan

\* stop: the flag, the event, then a wait for the thread there is now ...
Stop(c) ==
    /\ At(c, "stop")
    /\ running' = FALSE /\ stop' = TRUE
    /\ call' = [call EXCEPT ![c].pc = "join", ![c].of = thread]
    /\ UNCHANGED <<hops, aim, mixed, thread, loop, fan, overlap, faults>>

\* Mutant: stop does not wait.
EndedAnyway(l) == TRUE

Ended(l) == l \in Loop => loop[l].pc = "ended"

\* ... until it has ended, or for fifteen seconds.
Join(c) ==
    /\ At(c, "join")
    /\ \/ Ended(call[c].of) /\ UNCHANGED faults
       \/ ~Ended(call[c].of) /\ faults < MaxFaults /\ faults' = faults + 1
    /\ Go(c, IF call[c].then = "start" THEN "set" ELSE "rest")
    /\ UNCHANGED <<state, loop, fan, overlap>>

\* start: a target with empty lists, and the flag; the event; the thread.
Set(c) ==
    /\ At(c, "set") /\ hops < MaxLoop
    /\ hops' = hops + 1
    /\ \E t \in Target : aim' = [aim EXCEPT ![hops + 1] = t]
    /\ running' = TRUE
    /\ call' = [call EXCEPT ![c].pc = "clear", ![c].of = hops + 1]
    /\ UNCHANGED <<stop, mixed, thread, loop, fan, overlap, faults>>

Clear(c) ==
    /\ At(c, "clear")
    /\ stop' = FALSE
    /\ Go(c, "spawn")
    /\ UNCHANGED <<running, hops, aim, mixed, thread, loop, fan, overlap, faults>>

Spawn(c) ==
    /\ At(c, "spawn")
    /\ LET l == call[c].of
       IN  /\ thread' = l
           /\ loop' = [loop EXCEPT ![l] = [pc |-> "top", on |-> 0, target |-> aim[l]]]
    /\ Go(c, "rest")
    /\ UNCHANGED <<running, stop, hops, aim, mixed, fan, overlap, faults>>

-----------------------------------------------------------------------------

\* A cycle begins, with the lists there are now, or the thread ends.
On == running /\ ~stop

Top(l) ==
    /\ loop[l].pc = "top"
    /\ loop' = [loop EXCEPT ![l] = IF On THEN [@ EXCEPT !.pc = "hop", !.on = hops]
                                   ELSE [@ EXCEPT !.pc = "ended"]]
    /\ UNCHANGED <<state, call, fan, overlap, faults>>

\* A hop is pinged and its sample appended, unless running is gone.
Hop(l) ==
    /\ loop[l].pc = "hop" /\ running
    /\ mixed' = IF aim[loop[l].on] = loop[l].target THEN mixed ELSE mixed \cup {loop[l].on}
    /\ loop' = [loop EXCEPT ![l].pc = "wait"]
    /\ UNCHANGED <<running, stop, hops, aim, thread, call, fan, overlap, faults>>

HopLeft(l) ==
    /\ loop[l].pc = "hop" /\ ~running
    /\ loop' = [loop EXCEPT ![l].pc = "wait"]
    /\ UNCHANGED <<state, call, fan, overlap, faults>>

\* The event wakes the thread, or the time is over.
Wait(l) ==
    /\ loop[l].pc = "wait"
    /\ loop' = [loop EXCEPT ![l].pc = "top"]
    /\ UNCHANGED <<state, call, fan, overlap, faults>>

-----------------------------------------------------------------------------
\* schedule_loop goes round while the probe runs, which it looks at first;
\* between two targets it waits for rotate_sec or for the probe to end.
FanStep ==
    /\ fan # "ended" /\ At(Fan, "rest")
    /\ IF running THEN Enter(Fan, "start") /\ fan' = "rotate"
       ELSE fan' = "ended" /\ UNCHANGED <<state, loop, call, overlap, faults>>

CallStep(c) == Stop(c) \/ Join(c) \/ Set(c) \/ Clear(c) \/ Spawn(c)
LoopStep(l) == Top(l) \/ Hop(l) \/ HopLeft(l) \/ Wait(l)

Next ==
    \/ \E c \in Caller : Request(c, "start") \/ Request(c, "end") \/ CallStep(c)
    \/ \E l \in Loop : LoopStep(l)
    \/ FanStep

Spec == Init /\ [][Next]_vars
\* Threads run; a ping has a timeout.
Fairness == /\ \A c \in Caller : WF_vars(CallStep(c))
            /\ \A l \in Loop : WF_vars(LoopStep(l))
            /\ WF_vars(FanStep)
FairSpec == Spec /\ Fairness

-----------------------------------------------------------------------------
\* As long as requests do not overlap and no wait for a thread has run into
\* its limit, one thread probes, the lists hold samples of their own target,
\* and a probe that says it runs does so (services.py:260).
ProbesAlone ==
    ~overlap /\ faults = 0 =>
        /\ Cardinality(Alive) <= 1 /\ mixed = {}
        /\ running /\ (\A c \in Caller : At(c, "rest")) => thread \in Alive

\* Whatever overlaps: when the probe is stopped for good its threads end.
StopsForGood == <>[]~running => <>[](Alive = {})

\* config.py:74, targets: "a fan of targets for rotation": it turns.
FanTurns == Fan # 0 => <>(fan = "rotate")

=============================================================================
