-------------------------------- MODULE Duties --------------------------------
(* Reminders of the server: works that are due (planner.py), backups that are *)
(* stale (backupwatch.py) and checks of the user's own (customchecks.py).     *)
(* Each runs in a thread of its own, and requests ask for the same.           *)
EXTENDS Integers, FiniteSets

CONSTANTS Task, Every,      \* planner.tasks: task -> every_days
          Resource, Stale,  \* backupwatch.resources: resource -> interval_h
          Check,            \* python files in custom_checks
          Runner,           \* threads that check: the loop of each, a request
          PerDay,           \* moments in a day
          MaxTime

Never == -1

VARIABLES now,
          done,      \* planner_state
          due,       \* what a round of the planner has still to tell
          alert,     \* PLANNER_DUE and BACKUP_STALE: when they were told last
          about,     \* task -> when it was told last
          copy,      \* resource -> the newest file
          row,       \* backup_status.ok
          event,     \* events: resource, day and runner that wrote it
          run,       \* runner -> where it stands
          result,    \* customchecks._results: check -> the number of its run
          ran,       \* check -> runs so far
          clash      \* whether two runners have been at it at once

vars == <<now, done, due, alert, about, copy, row, event, run, result, ran, clash>>

Kind == {"due", "stale"}

TypeOK ==
    /\ now \in 0 .. MaxTime
    /\ done \in [Task -> Never .. MaxTime] /\ about \in [Task -> Never .. MaxTime]
    /\ due \subseteq Task
    /\ alert \in [Kind -> Never .. MaxTime]
    /\ copy \in [Resource -> Never .. MaxTime]
    /\ row \in [Resource -> {"none", "ok", "stale"}]
    /\ event \subseteq (Resource \X (0 .. MaxTime) \X Runner)
    /\ run \in [Runner -> [pc : {"rest", "look", "tell", "note", "read", "put"},
                           left : SUBSET (Resource \cup Check),
                           at : Resource \cup Check \cup {0}, day : Never .. MaxTime,
                           got : [Check -> Nat]]]
    /\ clash \in BOOLEAN

Rest == [pc |-> "rest", left |-> {}, at |-> 0, day |-> Never, got |-> [c \in Check |-> 0]]

Init ==
    /\ now = 0
    /\ done = [t \in Task |-> Never] /\ about = [t \in Task |-> Never] /\ due = {}
    /\ alert = [k \in Kind |-> Never]
    /\ copy = [r \in Resource |-> Never]
    /\ row = [r \in Resource |-> "none"] /\ event = {}
    /\ run = [n \in Runner |-> Rest]
    /\ result = [c \in Check |-> 0] /\ ran = [c \in Check |-> 0]
    /\ clash = FALSE

At(n, pc) == run[n].pc = pc
Day(time) == time \div PerDay
plan == <<done, due, about>>
backups == <<copy, row, event>>
checks == <<result, ran>>

\* push_alert with a limit: one alert of a type in a period, whatever about.
Limited(kind, rate) == alert[kind] # Never /\ now - alert[kind] < rate

-----------------------------------------------------------------------------
\* Never done, or no whole day left.
Overdue(t) == done[t] = Never \/ (now - done[t]) \div PerDay >= Every[t]

\* mark_done, of a task that is in the settings.
MarkDone(t) ==
    /\ done' = [done EXCEPT ![t] = now]
    /\ UNCHANGED <<now, due, alert, about, backups, run, checks, clash>>

\* check_alerts reads the tasks ...
Round ==
    /\ due = {}
    /\ due' = {t \in Task : Overdue(t)}
    /\ UNCHANGED <<now, done, alert, about, backups, run, checks, clash>>

\* ... and tells of each one that was due; the limit is of the type.
Tell(t) ==
    /\ t \in due
    /\ due' = due \ {t}
    /\ IF Limited("due", PerDay) THEN UNCHANGED <<alert, about>>
       ELSE alert' = [alert EXCEPT !["due"] = now] /\ about' = [about EXCEPT ![t] = now]
    /\ UNCHANGED <<now, done, backups, run, checks, clash>>

-----------------------------------------------------------------------------
\* A new copy appears.
Copy(r) ==
    /\ copy[r] # now
    /\ copy' = [copy EXCEPT ![r] = now]
    /\ UNCHANGED <<now, plan, alert, row, event, run, checks, clash>>

Fresh(r) == copy[r] # Never /\ now - copy[r] <= Stale[r]

\* check_once, by the loop or a job.
Begin(n) ==
    /\ At(n, "rest")
    /\ run' = [run EXCEPT ![n] = [Rest EXCEPT !.pc = "look", !.left = Resource]]
    /\ clash' = (clash \/ \E m \in Runner : ~At(m, "rest"))
    /\ UNCHANGED <<now, plan, alert, backups, checks>>

\* The resources have an order.
First(resources) == CHOOSE r \in resources : TRUE

\* A resource: its newest file and its row ...
Look(n) ==
    /\ At(n, "look") /\ run[n].left # {}
    /\ LET r == First(run[n].left)
       IN  /\ row' = [row EXCEPT ![r] = IF Fresh(r) THEN "ok" ELSE "stale"]
           /\ run' = [run EXCEPT ![n] = IF Fresh(r) THEN [run[n] EXCEPT !.left = @ \ {r}]
                        ELSE [run[n] EXCEPT !.pc = "tell", !.left = @ \ {r}, !.at = r]]
    /\ UNCHANGED <<now, plan, alert, copy, event, checks, clash>>

\* ... if it is stale the alert, one for all resources in a quarter of a day ...
TellStale(n) ==
    /\ At(n, "tell")
    /\ alert' = IF Limited("stale", 1) THEN alert ELSE [alert EXCEPT !["stale"] = now]
    /\ run' = [run EXCEPT ![n].pc = "note", ![n].day = Day(now)]
    /\ UNCHANGED <<now, plan, backups, checks, clash>>

\* Mutant: the key has the day, and no resource.
NotedSome(r, day) == \E e \in event : e[2] = day

Noted(r, day) == \E e \in event : e[1] = r /\ e[2] = day

\* ... and the event, once under the key of the resource and the day.
Note(n) ==
    /\ At(n, "note")
    /\ event' = IF Noted(run[n].at, run[n].day) THEN event
                ELSE event \cup {<<run[n].at, run[n].day, n>>}
    /\ run' = [run EXCEPT ![n].pc = "look", ![n].at = 0]
    /\ UNCHANGED <<now, plan, alert, copy, row, checks, clash>>

Finish(n) ==
    /\ At(n, "look") /\ run[n].left = {}
    /\ run' = [run EXCEPT ![n] = Rest]
    /\ UNCHANGED <<now, plan, alert, backups, checks, clash>>

-----------------------------------------------------------------------------
\* run_all: a check runs and is dated ...
RunCheck(n, c) ==
    /\ At(n, "rest") /\ ran[c] < 2
    /\ ran' = [ran EXCEPT ![c] = @ + 1]
    /\ run' = [run EXCEPT ![n] = [Rest EXCEPT !.pc = "read", !.at = c]]
    /\ clash' = (clash \/ \E m \in Runner : ~At(m, "rest"))
    /\ UNCHANGED <<now, plan, alert, backups, result>>

\* ... its results are read, without its own ...
ReadResults(n) ==
    /\ At(n, "read")
    /\ run' = [run EXCEPT ![n].pc = "put",
                          ![n].got = [result EXCEPT ![run[n].at] = ran[run[n].at]]]
    /\ UNCHANGED <<now, plan, alert, backups, checks, clash>>

\* Mutant: the other results are dropped.
MergedAlone(n) == [c \in Check |-> IF c = run[n].at THEN run[n].got[c] ELSE 0]

Merged(n) == run[n].got

\* ... and put back with its own.
PutResults(n) ==
    /\ At(n, "put")
    /\ result' = Merged(n)
    /\ run' = [run EXCEPT ![n] = Rest]
    /\ UNCHANGED <<now, plan, alert, backups, ran, clash>>

Tick ==
    /\ now < MaxTime
    /\ now' = now + 1
    /\ UNCHANGED <<plan, alert, backups, run, checks, clash>>

Next ==
    \/ Round \/ Tick
    \/ \E t \in Task : MarkDone(t) \/ Tell(t)
    \/ \E r \in Resource : Copy(r)
    \/ \E n \in Runner : \/ Begin(n) \/ Look(n) \/ TellStale(n) \/ Note(n) \/ Finish(n)
                         \/ \E c \in Check : RunCheck(n, c)
                         \/ ReadResults(n) \/ PutResults(n)

Spec == Init /\ [][Next]_vars

-----------------------------------------------------------------------------
\* A resource that its row calls stale has an event of its own, however the
\* alerts are limited, or a runner is about to write it; one a day, and each
\* check's last result is kept, as long as no two runners are at it at once
\* (backupwatch.py:53, customchecks.py:66).
DutiesDone ==
    /\ \A r \in Resource : row[r] = "stale" =>
         (\E e \in event : e[1] = r) \/ \E n \in Runner : run[n].at = r
    /\ ~clash =>
         /\ \A e, f \in event : e[1] = f[1] /\ e[2] = f[2] => e = f
         /\ \A c \in Check : result[c] = ran[c] \/ \E n \in Runner : run[n].at = c

\* planner.py:8, "overdue -> an alert": each task that a round finds overdue is
\* told of at some time.
EachDueTold == [][\A t \in Task : t \in due \ due' => about'[t] # Never]_vars

=============================================================================
