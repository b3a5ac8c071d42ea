------------------------------- MODULE Alerts -------------------------------
(* Alerts of the monitoring service (services.py): push_alert, called by     *)
(* any thread and limited per type with no lock, and the thread that sends   *)
(* an alert again when nobody has acknowledged it.                           *)
EXTENDS Integers, FiniteSets

CONSTANTS Pusher,    \* threads that report: loops, jobs, HTTP requests
          Kind,      \* alert types
          Rate,      \* Kind -> the least time between two, 0: no limit
          Timeout,   \* escalate.unack_min
          PerDay,    \* moments in a day
          MaxTime, MaxAlert, MaxFaults

Alert == 1 .. MaxAlert
Never == -1

VARIABLES now,
          mark,     \* _alert_rl
          row,      \* the table alerts: its rows are those with made # Never
          next,     \* the next id
          th,       \* where each thread stands in push_alert
          again,    \* alert -> times the escalation handed it over since the start
          esc,      \* the escalation: where it stands, and the rows it has read
          notified, \* its local set
          overlap,  \* whether two threads have been inside with one type
          faults

vars == <<now, mark, row, next, th, again, esc, notified, overlap, faults>>

TypeOK ==
    /\ now \in 0 .. MaxTime /\ next \in 1 .. MaxAlert + 1 /\ faults \in 0 .. MaxFaults
    /\ mark \in [Kind -> Never .. MaxTime]
    /\ row \in [Alert -> [kind : Kind \cup {"none"}, from : Never .. MaxTime,
                          made : Never .. MaxTime, acked : BOOLEAN]]
    /\ th \in [Pusher -> [pc : {"idle", "mark", "insert"},
                          kind : Kind \cup {"none"}, from : Never .. MaxTime]]
    /\ again \in [Alert -> 0 .. 2]
    /\ esc \in [pc : {"rest", "walk"}, batch : SUBSET Alert]
    /\ notified \subseteq Alert /\ overlap \in BOOLEAN

Idle == [pc |-> "idle", kind |-> "none", from |-> Never]
NoRow == [kind |-> "none", from |-> Never, made |-> Never, acked |-> FALSE]

Init ==
    /\ now = 0 /\ next = 1 /\ faults = 0 /\ overlap = FALSE
    /\ mark = [k \in Kind |-> Never]
    /\ row = [i \in Alert |-> NoRow]
    /\ th = [t \in Pusher |-> Idle]
    /\ again = [i \in Alert |-> 0]
    /\ esc = [pc |-> "rest", batch |-> {}]
    /\ notified = {}

Rows == {i \in Alert : row[i].made # Never}
escalation == <<again, esc, notified>>

-----------------------------------------------------------------------------
\* Mutant: the limit is not looked at.
LimitedNever(k) == FALSE

Limited(k) == Rate[k] # 0 /\ mark[k] # Never /\ now - mark[k] < Rate[k]

\* push_alert takes the time and looks at the limit ...
Check(t, k) ==
    /\ th[t].pc = "idle" /\ ~Limited(k) /\ next <= MaxAlert
    /\ th' = [th EXCEPT ![t] = [Idle EXCEPT !.pc = "mark", !.kind = k, !.from = now]]
    /\ overlap' = (overlap \/ \E u \in Pusher : th[u].kind = k)
    /\ UNCHANGED <<now, mark, row, next, escalation, faults>>

\* ... notes that time, before anything was told ...
Mark(t) ==
    /\ th[t].pc = "mark"
    /\ mark' = [mark EXCEPT ![th[t].kind] = th[t].from]
    /\ th' = [th EXCEPT ![t].pc = "insert"]
    /\ UNCHANGED <<now, row, next, escalation, overlap, faults>>

\* ... writes the row, with the time it is now, and hands it to the live list
\* and the notifications ...
Insert(t) ==
    /\ th[t].pc = "insert" /\ next <= MaxAlert
    /\ row' = [row EXCEPT ![next] = [kind |-> th[t].kind, from |-> th[t].from,
                                     made |-> now, acked |-> FALSE]]
    /\ next' = next + 1
    /\ th' = [th EXCEPT ![t] = Idle]
    /\ UNCHANGED <<now, mark, escalation, overlap, faults>>

\* ... or fails to, and nobody hears of it: the alert is shown without a row.
InsertFails(t) ==
    /\ th[t].pc = "insert" /\ faults < MaxFaults
    /\ faults' = faults + 1
    /\ th' = [th EXCEPT ![t] = Idle]
    /\ UNCHANGED <<now, mark, row, next, escalation, overlap>>

\* alerts_ack: one alert or all of them.
Acknowledge(which) ==
    /\ \E i \in which \cap Rows : ~row[i].acked
    /\ row' = [i \in Alert |-> IF i \in which \cap Rows THEN [row[i] EXCEPT !.acked = TRUE]
                               ELSE row[i]]
    /\ UNCHANGED <<now, mark, next, th, escalation, overlap, faults>>

-----------------------------------------------------------------------------
Day(time) == time \div PerDay

\* Mutant: the time is compared, and the sign of the timeout is lost.
OldAhead(i) == row[i].made <= now + Timeout

\* The comparison of two texts: the rows have a T between date and time, what
\* they are compared with has a blank, which comes before it.  A row of the
\* same day is never old.
Old(i) == Day(row[i].made) < (now - Timeout) \div PerDay

\* A round of _escalate_loop reads; it does nothing if the database fails.
EscRead ==
    /\ esc.pc = "rest"
    /\ esc' = [pc |-> "walk", batch |-> {i \in Rows : ~row[i].acked /\ Old(i)}]
    /\ UNCHANGED <<now, mark, row, next, th, again, notified, overlap, faults>>

\* Mutant: all alerts of the round count as told with the first one.
RememberAll(i) == notified \cup esc.batch

Remember(i) == notified \cup {i}

\* Row after row, in the order of the ids, whatever was acknowledged since: the
\* alert is handed to the notifications, which may take no channel of it, and
\* counts as told whatever they do (services.py:1531).
EscNotify ==
    /\ esc.pc = "walk" /\ esc.batch # {}
    /\ LET i == CHOOSE n \in esc.batch : \A m \in esc.batch : n <= m
       IN  /\ esc' = [esc EXCEPT !.batch = @ \ {i}]
           /\ IF i \in notified THEN UNCHANGED <<again, notified>>
              ELSE /\ notified' = Remember(i)
                   /\ again' = [again EXCEPT ![i] = IF @ = 2 THEN 2 ELSE @ + 1]
    /\ UNCHANGED <<now, mark, row, next, th, overlap, faults>>

\* The enqueueing raises: the alert counts as told, the rest of the round is lost.
EscNotifyFails ==
    /\ esc.pc = "walk" /\ esc.batch # {} /\ faults < MaxFaults
    /\ notified' = notified \cup {CHOOSE n \in esc.batch : \A m \in esc.batch : n <= m}
    /\ esc' = [pc |-> "rest", batch |-> {}]
    /\ faults' = faults + 1
    /\ UNCHANGED <<now, mark, row, next, th, again, overlap>>

EscDone ==
    /\ esc.pc = "walk" /\ esc.batch = {}
    /\ esc' = [esc EXCEPT !.pc = "rest"]
    /\ UNCHANGED <<now, mark, row, next, th, again, notified, overlap, faults>>

Escalate == EscRead \/ EscNotify \/ EscDone

-----------------------------------------------------------------------------
Tick ==
    /\ now < MaxTime
    /\ now' = now + 1
    /\ UNCHANGED <<mark, row, next, th, escalation, overlap, faults>>

\* A restart: the table stays, what is in memory goes.
Restart ==
    /\ faults < MaxFaults
    /\ faults' = faults + 1
    /\ mark' = [k \in Kind |-> Never]
    /\ th' = [t \in Pusher |-> Idle]
    /\ again' = [i \in Alert |-> 0]
    /\ esc' = [pc |-> "rest", batch |-> {}]
    /\ notified' = {}
    /\ UNCHANGED <<now, row, next, overlap>>

Next ==
    \/ \E t \in Pusher : \/ \E k \in Kind : Check(t, k)
                         \/ Mark(t) \/ Insert(t) \/ InsertFails(t)
    \/ \E i \in Alert : Acknowledge({i})
    \/ Acknowledge(Alert)
    \/ Escalate \/ EscNotifyFails \/ Tick \/ Restart

Spec == Init /\ [][Next]_vars
\* The thread of the escalation runs.
Fairness == WF_vars(Escalate)
FairSpec == Spec /\ Fairness

-----------------------------------------------------------------------------
\* What is told of an alert: as long as no two threads report one type at once
\* and nothing fails, two alerts of a type keep their distance; an escalation
\* is about a row that had been waiting for the whole time, and made once
\* between two starts, whoever acknowledges meanwhile (services.py:1306,
\* services.py:1517).
AlertsTold ==
    /\ ~overlap /\ faults = 0 =>
         \A i, j \in Rows : i < j /\ row[i].kind = row[j].kind
                            => row[j].from - row[i].from >= Rate[row[i].kind]
    /\ \A i \in Alert : /\ again[i] <= 1
                        /\ again[i] = 1 => i \in Rows /\ now - row[i].made >= Timeout
    /\ esc.batch \subseteq Rows

\* An alert that nobody acknowledges is handed to the notifications again when
\* its day is over; whether a channel takes it is theirs (Notifications.Enqueue).
Escalated ==
    \A i \in Alert :
        i \in Rows /\ Old(i) /\ ~row[i].acked ~> row[i].acked \/ again[i] > 0 \/ faults > 0

\* config.py:181: an alert not read for longer than unack_min is told again:
\* a round finds all of them.
EscalatedInTime ==
    [][EscRead => \A i \in Rows : ~row[i].acked /\ now - row[i].made >= Timeout
                                   => i \in esc'.batch]_vars

=============================================================================
