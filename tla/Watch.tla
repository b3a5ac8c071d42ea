-------------------------------- MODULE Watch --------------------------------
(* The watchdog of the machines (watchdog.py): a poll of all targets by its *)
(* own thread or by a job of the server, two of which may run at once; the  *)
(* events it notes, deduplicated by key (inventory.py); and the runbooks    *)
(* that healing starts on an event (healing.py, runbooks.py).  A target is  *)
(* a name or an address, and a machine may be polled by both: its row in    *)
(* the table hosts is that of the name it reports, when it answers.  That   *)
(* the watchdog is stopped in the middle of a cycle is left out.            *)
EXTENDS Integers, Sequences

CONSTANTS Cycle,        \* poll cycles that may be under way together
          Target,       \* what is polled
          Before,       \* pairs of targets: the order of the list, as far as it is fixed
          Name,         \* names of rows: the targets, and what machines report
          Says,         \* the name that the machine of a target reports
          OfflineAfter, \* watchdog.offline_after_polls
          HealKinds,    \* kinds of events with a healing rule
          PerDay,       \* ticks of a day
          MaxTick,      \* bound on the time
          MaxCycles     \* bound on the cycles ever begun

Kinds == {"online", "offline", "nowinrm", "disk", "runbook"}
Never == -1
Nobody == "nobody"

\* dedup_hours in ticks; the keys of some kinds carry the date.
Window == [k \in Kinds |-> CASE k = "disk" -> PerDay \div 2 [] k = "nowinrm" -> 7 * PerDay
                             [] OTHER -> 1]
Dated == {"online", "offline", "runbook"}
Severe == {"offline", "disk"}      \* not LOW

VARIABLES now,      \* the time
          streak,   \* _fail_streak, of the targets
          online,   \* hosts.online, of the rows
          last,     \* the time of the last event of a kind and a target, or row
          healed,   \* _last_run of the rule of a kind, for a row
          runs,     \* history: runbooks started by a rule for a row in this tick
          cycle,    \* the cycles
          begun,    \* cycles ever begun
          downs,    \* history: polls of a target in a row without any answer
          quiet,    \* history: polls of a target in a row without data
          overlap   \* history: two cycles have overlapped

vars == <<now, streak, online, last, healed, runs, cycle, begun, downs, quiet, overlap>>
counts == <<streak, downs, quiet>>

Steps == Kinds \cup {"reset"}
Bound == OfflineAfter + 1

\* A cycle: the targets that it has still to poll, the one it is at, and what it
\* has to do for that one.
Rest == [pc |-> "rest", left |-> {}, at |-> Nobody, plan |-> <<>>]
Then(left, t, plan) ==
    CASE plan # <<>> -> [pc |-> "note", left |-> left, at |-> t, plan |-> plan]
      [] plan = <<>> /\ left # {} -> [pc |-> "poll", left |-> left, at |-> Nobody,
                                      plan |-> <<>>]
      [] OTHER -> Rest

TypeOK ==
    /\ now \in 0 .. MaxTick /\ begun \in 0 .. MaxCycles
    /\ {streak, downs, quiet} \subseteq [Target -> 0 .. Bound]
    /\ online \in [Name -> BOOLEAN] /\ overlap \in BOOLEAN
    /\ last \in [Kinds -> [Name -> Never .. MaxTick]]
    /\ healed \in [Kinds -> [Name -> Never .. MaxTick]]
    /\ runs \in [Kinds -> [Name -> Nat]]
    /\ \A c \in Cycle : /\ cycle[c].pc \in {"rest", "poll", "note", "insert",
                                            "rate", "heal"}
                        /\ cycle[c].left \subseteq Target
                        /\ cycle[c].at \in Target \cup {Nobody}
                        /\ \A i \in DOMAIN cycle[c].plan : cycle[c].plan[i] \in Steps

Init ==
    /\ now = 0 /\ begun = 0
    /\ streak = [t \in Target |-> 0]
    /\ downs = [t \in Target |-> 0] /\ quiet = [t \in Target |-> 0]
    /\ online = [n \in Name |-> FALSE]
    /\ last = [k \in Kinds |-> [n \in Name |-> Never]]
    /\ healed = [k \in Kinds |-> [n \in Name |-> Never]]
    /\ runs = [k \in Kinds |-> [n \in Name |-> 0]]
    /\ cycle = [c \in Cycle |-> Rest]
    /\ overlap = FALSE

At(c, pc) == cycle[c].pc = pc
Go(c, pc) == cycle' = [cycle EXCEPT ![c].pc = pc]
Head1(c) == Head(cycle[c].plan)
\* The first thing of the plan is done.
Done(c) == cycle' = [cycle EXCEPT ![c] = Then(@.left, @.at, Tail(@.plan))]
Resting == \A c \in Cycle : At(c, "rest")

\* poll_cycle, by the loop or by the job.
Begin(c) ==
    /\ At(c, "rest") /\ begun < MaxCycles /\ begun' = begun + 1
    /\ cycle' = [cycle EXCEPT ![c] = Then(Target, Nobody, <<>>)]
    /\ overlap' = (overlap \/ ~Resting)
    /\ UNCHANGED <<now, counts, online, last, healed, runs>>

\* _poll_host: one target after the other.
Polls(c, t) == /\ At(c, "poll") /\ t \in cycle[c].left
               /\ \A u \in cycle[c].left : <<u, t>> \notin Before
Plan(c, t, p) == cycle' = [cycle EXCEPT ![c] = Then(@.left \ {t}, t, p)]
Marks(n, on) == online' = [online EXCEPT ![n] = on]
Counted(n) == IF n < Bound THEN n + 1 ELSE n
Counts(f, t) == [f EXCEPT ![t] = Counted(@)]
Resets(f, t) == [f EXCEPT ![t] = 0]

\* The machine answers: the row of the name it reports is on; "online" when
\* polls of this target have failed, whose streak is reset, and the rules find
\* a full disk or not.
Answers(c, t) ==
    /\ Polls(c, t)
    /\ Marks(Says[t], TRUE)
    /\ downs' = Resets(downs, t) /\ quiet' = Resets(quiet, t)
    /\ \E full \in BOOLEAN :
         Plan(c, t, (IF streak[t] > 0 THEN <<"online">> ELSE <<>>) \o <<"reset">>
                    \o (IF full THEN <<"disk">> ELSE <<>>))
    /\ UNCHANGED <<now, begun, streak, last, healed, runs, overlap>>

\* No data, but a ping: alive without WinRM, in the row of the target.
Pings(c, t) ==
    /\ Polls(c, t) /\ streak[t] < Bound
    /\ streak' = Counts(streak, t)
    /\ Marks(t, TRUE)
    /\ downs' = Resets(downs, t) /\ quiet' = Counts(quiet, t)
    /\ Plan(c, t, IF streak'[t] >= OfflineAfter THEN <<"nowinrm">> ELSE <<>>)
    /\ UNCHANGED <<now, begun, last, healed, runs, overlap>>

\* No answer at all: after some polls the row of the target is off.
Down(c, t) ==
    /\ Polls(c, t) /\ streak[t] < Bound
    /\ streak' = Counts(streak, t)
    /\ downs' = Counts(downs, t) /\ quiet' = Counts(quiet, t)
    /\ IF streak'[t] >= OfflineAfter
         THEN Marks(t, FALSE) /\ Plan(c, t, <<"offline">>)
         ELSE UNCHANGED online /\ Plan(c, t, <<>>)
    /\ UNCHANGED <<now, begun, last, healed, runs, overlap>>

\* Mutant: the streak stays after an answer.
ResetNever(c) ==
    /\ At(c, "note") /\ Head1(c) = "reset"
    /\ Done(c)
    /\ UNCHANGED <<now, begun, counts, online, last, healed, runs, overlap>>

Reset(c) ==
    /\ At(c, "note") /\ Head1(c) = "reset"
    /\ streak' = Resets(streak, cycle[c].at)
    /\ Done(c)
    /\ UNCHANGED <<now, begun, online, last, healed, runs, downs, quiet, overlap>>

\* The dedup query: an event of the key, by a comparison of texts in which a
\* stamp (2024-01-02T...) of the day of the bound (2024-01-02 ...) is always
\* the later one.  The key names the target, that of a runbook the row.
Day(t) == (t + 8 * PerDay) \div PerDay
Duplicate(k, n) ==
    /\ last[k][n] # Never
    /\ k \in Dated => Day(last[k][n]) = Day(now)
    /\ Day(last[k][n]) >= Day(now - Window[k])

NoteEvent(c) ==
    /\ At(c, "note") /\ Head1(c) # "reset"
    /\ IF Duplicate(Head1(c), cycle[c].at) THEN Done(c) ELSE Go(c, "insert")
    /\ UNCHANGED <<now, begun, counts, online, last, healed, runs, overlap>>

\* The row, the alert, and healing when it has a rule for it.
Insert(c) ==
    /\ At(c, "insert")
    /\ last' = [last EXCEPT ![Head1(c)][cycle[c].at] = now]
    /\ IF Head1(c) \in HealKinds \cap Severe THEN Go(c, "rate") ELSE Done(c)
    /\ UNCHANGED <<now, begun, counts, online, healed, runs, overlap>>

\* Healing is about the row of the event: of the target that is off, of the name
\* that the machine with the full disk reports.
Row(c) == IF Head1(c) = "offline" THEN cycle[c].at ELSE Says[cycle[c].at]

\* _rate_ok reads the time of the last run ...
RateOk(c) ==
    /\ At(c, "rate")
    /\ IF healed[Head1(c)][Row(c)] = now THEN Done(c) ELSE Go(c, "heal")
    /\ UNCHANGED <<now, begun, counts, online, last, healed, runs, overlap>>

\* ... and writes it; then the runbook runs and notes an event of its own.
Heal(c) ==
    /\ At(c, "heal")
    /\ healed' = [healed EXCEPT ![Head1(c)][Row(c)] = now]
    /\ runs' = [runs EXCEPT ![Head1(c)][Row(c)] = @ + 1]
    /\ last' = IF Duplicate("runbook", Row(c)) THEN last
               ELSE [last EXCEPT !["runbook"][Row(c)] = now]
    /\ Done(c)
    /\ UNCHANGED <<now, begun, counts, online, overlap>>

\* A tick is longer than an hour and than a poll of the machines.
Tick ==
    /\ Resting /\ now < MaxTick
    /\ now' = now + 1
    /\ runs' = [k \in Kinds |-> [n \in Name |-> 0]]
    /\ UNCHANGED <<begun, counts, online, last, healed, cycle, overlap>>

Next ==
    \/ \E c \in Cycle : \/ Begin(c)
                        \/ \E t \in Target : Answers(c, t) \/ Pings(c, t) \/ Down(c, t)
                        \/ Reset(c) \/ NoteEvent(c) \/ Insert(c)
                        \/ RateOk(c) \/ Heal(c)
    \/ Tick

Spec == Init /\ [][Next]_vars

-----------------------------------------------------------------------------
\* As long as cycles do not overlap, what the watchdog tells is what the polls
\* have seen.  After OfflineAfter polls of a target without an answer an event
\* says so, and the row of the target is off unless another target, whose
\* machine reports this name, has answered.  A row that a target was reported
\* off by is on again when polls bring data, if the machine reports the name it
\* is polled by.  A rule starts its runbook once an hour for a row, by however
\* many targets the machine is polled (watchdog.py:200, watchdog.py:221,
\* healing.py:43).
WatchTells ==
    ~overlap =>
      /\ Resting =>
           \A t \in Target :
             /\ downs[t] >= OfflineAfter =>
                  /\ last["offline"][t] # Never
                  /\ online[t] => \E u \in Target \ {t} : Says[u] = t /\ quiet[u] = 0
             /\ ~online[t] /\ last["offline"][t] # Never =>
                  quiet[t] >= OfflineAfter \/ Says[t] # t
      /\ \A k \in Kinds, n \in Name : runs[k][n] <= 1

\* Not so: watchdog.py:226, "in the network again", by an event of a target whose
\* row stays off: the machine that is polled by its address writes the row of its
\* name when it is back.
BackIsOn ==
    Resting /\ ~overlap => \A t \in Target : quiet[t] = 0 /\ last["online"][t] # Never => online[t]

\* inventory.py:117: "an event, deduplicated by key in a window of hours": what
\* is suppressed has an event in the window.
DedupWindow ==
    [][\A c \in Cycle : NoteEvent(c) /\ Duplicate(Head1(c), cycle[c].at)
          => now - last[Head1(c)][cycle[c].at] < Window[Head1(c)]]_vars

=============================================================================
