-------------------------------- MODULE Quota --------------------------------
(* Traffic and quotas of the server (services.py): one thread reads the      *)
(* counters of the interfaces each second, another writes the speed it finds *)
(* to the table traffic every few ticks and asks for the quotas, as requests *)
(* do; the answer is kept for a minute, the alert is limited by its type.    *)
EXTENDS Integers, FiniteSets

CONSTANTS Nic,
          Reader,      \* the tick thread and the requests that ask for the quotas
          Tick,        \* the one that is the tick thread
          Period,      \* ticks between two rows (5)
          Warn, Limit, \* quota: what is warned of, what is the limit
          CacheFor, Rate,   \* 60 s and an hour
          MaxBytes, MaxTime, MaxTicks

Never == -1

VARIABLES now,
          since,     \* when the present day began
          counter,   \* the interfaces: bytes, or Never when it is not there
          last,      \* _psutil_last
          speed,     \* snapshot: bytes in the last second
          total,     \* snapshot: bytes since the start
          moved,     \* bytes that have gone through since the start
          ticks, rows,      \* ticks so far; the sum of the table for this day
          cache,     \* the quota's answer: when, and the bytes used
          mark,      \* _alert_rl of QUOTA_DAY
          told,      \* level -> when it was told last
          ask        \* reader -> its call of usage

vars == <<now, since, counter, last, speed, total, moved, ticks, rows, cache, mark, told,
          ask>>

Level == {"warn", "full"}

TypeOK ==
    /\ now \in 0 .. MaxTime /\ since \in 0 .. MaxTime
    /\ counter \in [Nic -> Never .. MaxBytes + 1] /\ last \in [Nic -> Never .. MaxBytes + 1]
    /\ speed \in 0 .. MaxBytes /\ total \in Nat /\ moved \in Nat
    /\ ticks \in 0 .. MaxTicks /\ rows \in Nat
    /\ cache \in [at : Never .. MaxTime, used : Nat]
    /\ mark \in Never .. MaxTime
    /\ told \in [Level -> Never .. MaxTime]
    /\ ask \in [Reader -> [pc : {"rest", "sum", "alert", "keep"}, at : 0 .. MaxTime, used : Nat]]

Rest == [pc |-> "rest", at |-> 0, used |-> 0]

Init ==
    /\ now = 0 /\ since = 0
    /\ counter = [n \in Nic |-> 1] /\ last = [n \in Nic |-> Never]
    /\ speed = 0 /\ total = 0 /\ moved = 0 /\ ticks = 0 /\ rows = 0
    /\ cache = [at |-> Never, used |-> 0] /\ mark = Never
    /\ told = [l \in Level |-> Never]
    /\ ask = [r \in Reader |-> Rest]

counters == <<counter, last, speed, total, moved>>
quota == <<cache, mark, told, ask>>

-----------------------------------------------------------------------------
\* Traffic, an interface that goes, one that comes with a counter of its own.
Move(n) ==
    /\ counter[n] # Never /\ moved < MaxBytes
    /\ counter' = [counter EXCEPT ![n] = @ + 1] /\ moved' = moved + 1
    /\ UNCHANGED <<now, since, last, speed, total, ticks, rows, quota>>

Replug(n) ==
    /\ counter' = [counter EXCEPT ![n] = IF @ = Never THEN 0 ELSE Never]
    /\ UNCHANGED <<now, since, last, speed, total, moved, ticks, rows, quota>>

\* Mutant: an interface that was not there counts from nothing.
GrownFromNothing(n) ==
    IF counter[n] = Never THEN {}
    ELSE (IF last[n] = Never THEN 1 ELSE last[n] + 1) .. counter[n]

\* The bytes an interface has grown by since the last look, if it was there
\* then; one that is idle from the start is left out.
Grown(n) == IF counter[n] = Never \/ last[n] = Never THEN {} ELSE last[n] + 1 .. counter[n]
Growth == UNION {{n} \X Grown(n) : n \in Nic}

\* _traffic_loop.
Look ==
    /\ speed' = Cardinality(Growth) /\ total' = total + speed'
    /\ last' = [n \in Nic |-> IF counter[n] = 0 THEN Never ELSE counter[n]]
    /\ UNCHANGED <<now, since, counter, moved, ticks, rows, quota>>

-----------------------------------------------------------------------------
\* _tick_loop: every few ticks a row with the speed of the last second for
\* each second of the period, unless it is nothing; then the quotas.
TickOnly ==
    /\ ask[Tick].pc = "rest" /\ ticks < MaxTicks
    /\ ticks' = ticks + 1
    /\ IF ticks' % Period = 0
         THEN /\ rows' = rows + speed * Period
              /\ ask' = [ask EXCEPT ![Tick] = [Rest EXCEPT !.pc = "sum", !.at = now]]
         ELSE UNCHANGED <<rows, ask>>
    /\ UNCHANGED <<now, since, counters, cache, mark, told>>

\* usage, asked for by a request.
Ask(r) ==
    /\ r # Tick /\ ask[r].pc = "rest"
    /\ ask' = [ask EXCEPT ![r] = [Rest EXCEPT !.pc = "sum", !.at = now]]
    /\ UNCHANGED <<now, since, counters, ticks, rows, cache, mark, told>>

Cached(r) == cache.at # Never /\ ask[r].at - cache.at < CacheFor

\* The answer that is kept, or the sum of the rows of this day ...
Sum(r) ==
    /\ ask[r].pc = "sum"
    /\ ask' = [ask EXCEPT ![r] = IF Cached(r) THEN Rest
                                 ELSE [@ EXCEPT !.pc = "alert", !.used = rows]]
    /\ UNCHANGED <<now, since, counters, ticks, rows, cache, mark, told>>

LevelOf(used) == IF used >= Limit THEN {"full"} ELSE IF used >= Warn THEN {"warn"} ELSE {}

\* ... the alert of the level, one type for both of them ...
Alert(r) ==
    /\ ask[r].pc = "alert"
    /\ LET levels == IF mark # Never /\ now - mark < Rate THEN {} ELSE LevelOf(ask[r].used)
       IN  /\ told' = [l \in Level |-> IF l \in levels THEN now ELSE told[l]]
           /\ mark' = IF levels = {} THEN mark ELSE now
    /\ ask' = [ask EXCEPT ![r].pc = "keep"]
    /\ UNCHANGED <<now, since, counters, ticks, rows, cache>>

\* ... and the answer is kept, with the time the call began.
Keep(r) ==
    /\ ask[r].pc = "keep"
    /\ cache' = [at |-> ask[r].at, used |-> ask[r].used]
    /\ ask' = [ask EXCEPT ![r] = Rest]
    /\ UNCHANGED <<now, since, counters, ticks, rows, mark, told>>

\* Time goes on, to the next day perhaps: the sum starts anew.
Pass ==
    /\ now < MaxTime
    /\ now' = now + 1
    /\ UNCHANGED <<since, rows>> \/ (since' = now' /\ rows' = 0)
    /\ UNCHANGED <<counters, ticks, quota>>

Next ==
    \/ \E n \in Nic : Move(n) \/ Replug(n)
    \/ Look \/ TickOnly \/ Pass
    \/ \E r \in Reader : Ask(r) \/ Sum(r) \/ Alert(r) \/ Keep(r)

Spec == Init /\ [][Next]_vars

-----------------------------------------------------------------------------
\* What is counted has gone through, whatever comes and goes; an answer is
\* what the table held for the day, and one asked for today is never more than
\* it holds now; and a quota that an answer shows as used has been told of within the
\* last period of its alert, at one level or the other (services.py:728).
QuotaTold ==
    /\ total <= moved
    /\ cache.at >= since => cache.used <= rows
    /\ \A r \in Reader : ask[r].pc = "keep" /\ LevelOf(ask[r].used) # {}
                         => \E l \in Level : told[l] # Never /\ told[l] >= ask[r].at - Rate

\* services.py:761, "the daily limit is used up": it is told when it is seen.
LimitTold ==
    \A r \in Reader : ask[r].pc = "keep" /\ ask[r].used >= Limit => told["full"] # Never

\* The rows are what has gone through.
RowsTrue == rows <= moved

=============================================================================
