--------------------------- MODULE Notifications ---------------------------
(***************************************************************************)
(* Outgoing notifications (netpulse/notifications.py): callers of enqueue, *)
(* a pool of delivery threads, a semaphore that bounds what is in flight,  *)
(* and a SQLite row per delivery that survives a restart.                  *)
(*                                                                         *)
(* Abstracted: channels differ only by being enabled or not at the moment  *)
(* they are looked at (the configuration may be edited at any time); the   *)
(* receiver takes a message and says so, takes it and its answer is lost,  *)
(* or does not get it; titles and bodies are left out.  Rows are numbered  *)
(* in the order of their "created" stamp.                                  *)
(***************************************************************************)
EXTENDS Naturals, Sequences, FiniteSets

CONSTANTS
    Caller,       \* threads inside enqueue
    Worker,       \* threads of the pool (3 in the code)
    Channels,     \* channels enqueue looks at (3)
    Slots,        \* the semaphore's value (32)
    MaxAttempts,  \* attempts per delivery (3)
    Retained,     \* finished rows kept (2000)
    MaxId,        \* bound: rows inserted in a behaviour
    MaxFaults     \* bound: database statements that raise while it is open

Id == 1..MaxId

ASSUME ConstantAssumption ==
    /\ IsFiniteSet(Caller) /\ IsFiniteSet(Worker)
    /\ {Channels, Slots, MaxAttempts, MaxId} \subseteq Nat \ {0}
    /\ {Retained, MaxFaults} \subseteq Nat

VARIABLES
    row,       \* notification_delivery.status, "none" before the INSERT, "purged" after the DELETE
    attempts,  \* notification_delivery.attempts
    nextId,
    slots,     \* free permits of the semaphore
    stopped,   \* the stop event
    poolOpen,  \* the executor accepts work
    dbOpen,    \* the database is open
    queue,     \* the executor's work queue
    callPc, callCh, callId,      \* callers of enqueue
    workPc, workId, workAttempt, \* delivery threads
    accepted,  \* history: how often the receiver took the message
    heard,     \* history: how often the service learnt that it did
    faults

rowVars  == <<row, attempts, nextId>>
process  == <<stopped, poolOpen, dbOpen>>
callVars == <<callPc, callCh, callId>>
workVars == <<workPc, workId, workAttempt>>
vars == <<rowVars, slots, process, queue, callVars, workVars, accepted, heard, faults>>

InFlight == {"queued", "sending"}
Final    == {"sent", "failed", "interrupted"}

TypeOK ==
    /\ row \in [Id -> {"none", "purged"} \cup InFlight \cup Final]
    /\ attempts \in [Id -> 0..MaxAttempts]
    /\ nextId \in 1..(MaxId + 1)
    /\ slots \in 0..Slots
    /\ stopped \in BOOLEAN /\ poolOpen \in BOOLEAN /\ dbOpen \in BOOLEAN
    /\ queue \in Seq(Id)
    /\ callPc \in [Caller -> {"idle", "scan", "insert", "submit"}]
    /\ callCh \in [Caller -> 1..(Channels + 1)]
    /\ callId \in [Caller -> Id]
    /\ workPc \in [Worker -> {"idle", "check", "send", "record", "backoff", "release"}]
    /\ workId \in [Worker -> Id]
    /\ workAttempt \in [Worker -> 1..MaxAttempts]
    /\ accepted \in [Id -> Nat] /\ heard \in [Id -> Nat]
    /\ faults \in 0..MaxFaults

Init ==
    /\ row = [i \in Id |-> "none"]
    /\ attempts = [i \in Id |-> 0]
    /\ nextId = 1
    /\ slots = Slots
    /\ stopped = FALSE /\ poolOpen = TRUE /\ dbOpen = TRUE
    /\ queue = <<>>
    /\ callPc = [c \in Caller |-> "idle"]
    /\ callCh = [c \in Caller |-> 1]
    /\ callId = [c \in Caller |-> 1]
    /\ workPc = [w \in Worker |-> "idle"]
    /\ workId = [w \in Worker |-> 1]
    /\ workAttempt = [w \in Worker |-> 1]
    /\ accepted = [i \in Id |-> 0]
    /\ heard = [i \in Id |-> 0]
    /\ faults = 0

\* A statement on the database: it runs, ...
DbRuns == dbOpen /\ UNCHANGED faults

\* ... or raises, because stop has closed the database or SQLite fails.
DbRaises == \/ ~dbOpen /\ UNCHANGED faults
            \/ dbOpen /\ faults < MaxFaults /\ faults' = faults + 1

-----------------------------------------------------------------------------
(* enqueue                                                                 *)

Enqueue(c) ==
    /\ callPc[c] = "idle"
    /\ callPc' = [callPc EXCEPT ![c] = "scan"]
    /\ callCh' = [callCh EXCEPT ![c] = 1]
    /\ UNCHANGED <<callId, rowVars, slots, process, queue, workVars, accepted, heard, faults>>

\* The channel is disabled or the service is stopping.
SkipChannel(c) ==
    /\ callPc[c] = "scan" /\ callCh[c] <= Channels
    /\ callCh' = [callCh EXCEPT ![c] = @ + 1]
    /\ UNCHANGED <<callPc, callId, rowVars, slots, process, queue, workVars, accepted, heard, faults>>

\* No permit: the remaining channels are not tried.  Or all were looked at.
LeaveEnqueue(c) ==
    /\ callPc[c] = "scan"
    /\ callCh[c] > Channels \/ (~stopped /\ slots = 0)
    /\ callPc' = [callPc EXCEPT ![c] = "idle"]
    /\ callCh' = [callCh EXCEPT ![c] = 1]
    /\ UNCHANGED <<callId, rowVars, slots, process, queue, workVars, accepted, heard, faults>>

TakeSlot(c) ==
    /\ callPc[c] = "scan" /\ callCh[c] <= Channels /\ ~stopped
    /\ slots > 0
    /\ slots' = slots - 1
    /\ callPc' = [callPc EXCEPT ![c] = "insert"]
    /\ UNCHANGED <<callCh, callId, rowVars, process, queue, workVars, accepted, heard, faults>>

\* Mutant: finished rows are never deleted.
PurgeNothing(r) == r

\* The DELETE after every INSERT: only the newest Retained finished rows stay.
Purge(r) ==
    LET finished == {i \in Id : r[i] \in Final}
    IN  [i \in Id |-> IF i \in finished /\ Cardinality({j \in finished : j > i}) >= Retained
                      THEN "purged" ELSE r[i]]

InsertRow(c) ==
    /\ callPc[c] = "insert"
    /\ nextId \in Id
    /\ DbRuns
    /\ row' = Purge([row EXCEPT ![nextId] = "queued"])
    /\ nextId' = nextId + 1
    /\ callId' = [callId EXCEPT ![c] = nextId]
    /\ callPc' = [callPc EXCEPT ![c] = "submit"]
    /\ UNCHANGED <<attempts, callCh, slots, process, queue, workVars, accepted, heard>>

\* Mutant: the handler re-raises without giving the permit back.
EnqueueRaisesKeepsSlot(c) ==
    /\ \/ callPc[c] = "insert" /\ DbRaises
       \/ callPc[c] = "submit" /\ ~poolOpen /\ UNCHANGED faults
    /\ callPc' = [callPc EXCEPT ![c] = "idle"]
    /\ callCh' = [callCh EXCEPT ![c] = 1]
    /\ UNCHANGED <<slots, callId, rowVars, process, queue, workVars, accepted, heard>>

\* The INSERT raises, or submit raises after shutdown: the permit goes back
\* and the call fails.  In the second case the row stays "queued".
EnqueueRaises(c) ==
    /\ \/ callPc[c] = "insert" /\ DbRaises
       \/ callPc[c] = "submit" /\ ~poolOpen /\ UNCHANGED faults
    /\ slots' = slots + 1
    /\ callPc' = [callPc EXCEPT ![c] = "idle"]
    /\ callCh' = [callCh EXCEPT ![c] = 1]
    /\ UNCHANGED <<callId, rowVars, process, queue, workVars, accepted, heard>>

Submit(c) ==
    /\ callPc[c] = "submit" /\ poolOpen
    /\ queue' = Append(queue, callId[c])
    /\ callPc' = [callPc EXCEPT ![c] = "scan"]
    /\ callCh' = [callCh EXCEPT ![c] = @ + 1]
    /\ UNCHANGED <<callId, rowVars, slots, process, workVars, accepted, heard, faults>>

CallerStep(c) ==
    \/ Enqueue(c)
    \/ SkipChannel(c)
    \/ LeaveEnqueue(c)
    \/ TakeSlot(c)
    \/ InsertRow(c)
    \/ EnqueueRaises(c)
    \/ Submit(c)

-----------------------------------------------------------------------------
(* _deliver                                                                *)

Goto(w, pc) == workPc' = [workPc EXCEPT ![w] = pc]

\* Mutant: the attempt is counted once too often.
SetRowCountsTwice(i, status, n) ==
    /\ row' = [row EXCEPT ![i] = status]
    /\ attempts' = [attempts EXCEPT ![i] = n + 1]
    /\ UNCHANGED nextId

\* _status
SetRow(i, status, n) ==
    /\ row' = [row EXCEPT ![i] = status]
    /\ attempts' = [attempts EXCEPT ![i] = n]
    /\ UNCHANGED nextId

Take(w) ==
    /\ workPc[w] = "idle" /\ queue # <<>>
    /\ queue' = Tail(queue)
    /\ workId' = [workId EXCEPT ![w] = Head(queue)]
    /\ workAttempt' = [workAttempt EXCEPT ![w] = 1]
    /\ Goto(w, "check")
    /\ UNCHANGED <<rowVars, slots, process, callVars, accepted, heard, faults>>

\* Mutant: a stopping service leaves without recording it.
BeginAttemptSilent(w) ==
    /\ workPc[w] = "check"
    /\ \/ /\ stopped /\ DbRuns
          /\ Goto(w, "release")
          /\ UNCHANGED rowVars
       \/ /\ ~stopped /\ DbRuns
          /\ SetRow(workId[w], "sending", workAttempt[w])
          /\ Goto(w, "send")
    /\ UNCHANGED <<workId, workAttempt, slots, process, queue, callVars, accepted, heard>>

\* The top of the loop: a stopping service gives up, otherwise the row says so
\* before the receiver is contacted.
BeginAttempt(w) ==
    /\ workPc[w] = "check"
    /\ \/ /\ stopped /\ DbRuns
          /\ SetRow(workId[w], "interrupted", workAttempt[w] - 1)
          /\ Goto(w, "release")
       \/ /\ ~stopped /\ DbRuns
          /\ SetRow(workId[w], "sending", workAttempt[w])
          /\ Goto(w, "send")
       \/ /\ DbRaises
          /\ Goto(w, "release")
          /\ UNCHANGED rowVars
    /\ UNCHANGED <<workId, workAttempt, slots, process, queue, callVars, accepted, heard>>

\* _send returns: the receiver has the message and said so.
SendAccepted(w) ==
    /\ workPc[w] = "send"
    /\ accepted' = [accepted EXCEPT ![workId[w]] = @ + 1]
    /\ heard' = [heard EXCEPT ![workId[w]] = @ + 1]
    /\ Goto(w, "record")
    /\ UNCHANGED <<workId, workAttempt, rowVars, slots, process, queue, callVars, faults>>

\* Mutant: giving up is not recorded.
AttemptFailedUnrecorded(w) ==
    /\ Goto(w, IF workAttempt[w] < MaxAttempts THEN "backoff" ELSE "release")
    /\ UNCHANGED rowVars

\* The handler of a failed attempt: the last one is recorded as failed.
AttemptFailed(w) ==
    \/ /\ workAttempt[w] < MaxAttempts
       /\ Goto(w, "backoff")
       /\ UNCHANGED rowVars
    \/ /\ workAttempt[w] = MaxAttempts
       /\ Goto(w, "release")
       /\ \/ dbOpen /\ SetRow(workId[w], "failed", workAttempt[w])
          \/ ~dbOpen /\ UNCHANGED rowVars

\* Mutant: the loop falls through to the success path after the last failure.
SendFailsFallsThrough(w) ==
    /\ workPc[w] = "send"
    /\ IF workAttempt[w] = MaxAttempts
       THEN Goto(w, "record") /\ UNCHANGED rowVars
       ELSE AttemptFailed(w)
    /\ UNCHANGED <<workId, workAttempt, slots, process, queue, callVars, accepted, heard, faults>>

\* _send raises: nothing arrived, or the receiver took the message and its
\* answer timed out, broke off or could not be read.
SendFails(w) ==
    /\ workPc[w] = "send"
    /\ accepted' \in {accepted, [accepted EXCEPT ![workId[w]] = @ + 1]}
    /\ AttemptFailed(w)
    /\ UNCHANGED <<workId, workAttempt, slots, process, queue, callVars, heard, faults>>

\* Mutant: the thread goes on to the next attempt after a success.
RecordSentContinues(w) ==
    /\ workPc[w] = "record" /\ DbRuns
    /\ SetRow(workId[w], "sent", workAttempt[w])
    /\ IF workAttempt[w] < MaxAttempts THEN Goto(w, "backoff") ELSE Goto(w, "release")
    /\ UNCHANGED <<workId, workAttempt, slots, process, queue, callVars, accepted, heard>>

RecordSent(w) ==
    /\ workPc[w] = "record" /\ DbRuns
    /\ SetRow(workId[w], "sent", workAttempt[w])
    /\ Goto(w, "release")
    /\ UNCHANGED <<workId, workAttempt, slots, process, queue, callVars, accepted, heard>>

\* Recording the success is inside the same try as sending: when it raises,
\* the attempt counts as failed although the receiver has the message.
RecordSentRaises(w) ==
    /\ workPc[w] = "record" /\ DbRaises
    /\ AttemptFailed(w)
    /\ UNCHANGED <<workId, workAttempt, slots, process, queue, callVars, accepted, heard>>

\* stopped.wait(attempt) returns after the pause or at once on stop.
Backoff(w) ==
    /\ workPc[w] = "backoff"
    /\ workAttempt' = [workAttempt EXCEPT ![w] = @ + 1]
    /\ Goto(w, "check")
    /\ UNCHANGED <<workId, rowVars, slots, process, queue, callVars, accepted, heard, faults>>

Release(w) ==
    /\ workPc[w] = "release"
    /\ slots' = slots + 1
    /\ workPc' = [workPc EXCEPT ![w] = "idle"]
    /\ workId' = [workId EXCEPT ![w] = 1]
    /\ workAttempt' = [workAttempt EXCEPT ![w] = 1]
    /\ UNCHANGED <<rowVars, process, queue, callVars, accepted, heard, faults>>

WorkerStep(w) ==
    \/ Take(w)
    \/ BeginAttempt(w)
    \/ SendAccepted(w)
    \/ SendFails(w)
    \/ RecordSent(w)
    \/ RecordSentRaises(w)
    \/ Backoff(w)
    \/ Release(w)

-----------------------------------------------------------------------------
(* stop and restart                                                        *)

StopEvent ==
    /\ ~stopped
    /\ stopped' = TRUE
    /\ UNCHANGED <<rowVars, slots, poolOpen, dbOpen, queue, callVars, workVars, accepted, heard, faults>>

\* shutdown(wait=False): queued deliveries still run.
PoolShutdown ==
    /\ stopped /\ poolOpen
    /\ poolOpen' = FALSE
    /\ UNCHANGED <<rowVars, slots, stopped, dbOpen, queue, callVars, workVars, accepted, heard, faults>>

\* Services.stop closes the database last, without waiting for the pool.
CloseDb ==
    /\ ~poolOpen /\ dbOpen
    /\ dbOpen' = FALSE
    /\ UNCHANGED <<rowVars, slots, stopped, poolOpen, queue, callVars, workVars, accepted, heard, faults>>

\* Mutant: every row that was not delivered is put back to interrupted.
AfterRestartNotSent(s) == IF s \in InFlight \cup {"failed"} THEN "interrupted" ELSE s

\* The UPDATE in the constructor.
AfterRestart(s) == IF s \in InFlight THEN "interrupted" ELSE s

\* The process ends at any point and is started again on the same database.
Restart ==
    /\ row' = [i \in Id |-> AfterRestart(row[i])]
    /\ slots' = Slots
    /\ stopped' = FALSE /\ poolOpen' = TRUE /\ dbOpen' = TRUE
    /\ queue' = <<>>
    /\ callPc' = [c \in Caller |-> "idle"]
    /\ callCh' = [c \in Caller |-> 1]
    /\ callId' = [c \in Caller |-> 1]
    /\ workPc' = [w \in Worker |-> "idle"]
    /\ workId' = [w \in Worker |-> 1]
    /\ workAttempt' = [w \in Worker |-> 1]
    /\ UNCHANGED <<attempts, nextId, accepted, heard, faults>>

Next ==
    \/ \E c \in Caller : CallerStep(c)
    \/ \E w \in Worker : WorkerStep(w)
    \/ StopEvent
    \/ PoolShutdown
    \/ CloseDb
    \/ Restart

Spec == Init /\ [][Next]_vars

\* Pool threads run whatever is queued; a call of enqueue runs to its end
\* once it is inside (it may be called or not).
FairSpec ==
    /\ Spec
    /\ \A w \in Worker : WF_vars(WorkerStep(w))
    /\ \A c \in Caller : WF_vars(callPc[c] # "idle" /\ CallerStep(c))

-----------------------------------------------------------------------------

HoldingCallers == {c \in Caller : callPc[c] \in {"insert", "submit"}}
BusyWorkers == {w \in Worker : workPc[w] # "idle"}

\* Every permit is free or with exactly one caller, queued delivery or worker,
\* on every path through enqueue and _deliver, exceptions included.
SlotsConserved ==
    slots + Cardinality(HoldingCallers) + Len(queue) + Cardinality(BusyWorkers) = Slots

\* A receiver gets a message at most as often as its row says it was tried,
\* and never less often than the service was told, whatever fails and over
\* restarts (_deliver counts the attempt before it sends).
TriedAsTold == \A i \in Id : heard[i] <= accepted[i] /\ accepted[i] <= attempts[i]

\* As long as the database works, a message whose arrival the service learnt
\* of is never sent again: not by a retry, after a stop or by the next run
\* (_deliver, constructor).
HeardOnce ==
    faults = 0 =>
        /\ \A i \in Id : heard[i] <= 1
        /\ \A w \in Worker : workPc[w] = "send" => heard[workId[w]] = 0

\* The row tells what the service knows: "sent" was answered, and "failed" was
\* not unless recording the success failed (_deliver's inner try).
RowIsTruthful ==
    \A i \in Id : /\ row[i] = "sent" => heard[i] >= 1
                  /\ row[i] = "failed" /\ faults = 0 => heard[i] = 0

\* What does NOT hold, and no run checks: an answer lost on the way makes
\* _deliver send a message again that the receiver has, so it may have it
\* several times, and "failed" does not say that it has it not.
DeliveredOnce == faults = 0 => \A i \in Id : accepted[i] <= 1
FailedIsUndelivered == faults = 0 => \A i \in Id : row[i] = "failed" => accepted[i] = 0

\* While the service runs and its database works, an unfinished row belongs to
\* a caller about to submit it, to the queue or to one worker; a worker at the
\* receiver owns a row marked "sending".
NoOrphan ==
    (faults = 0 /\ poolOpen) =>
        \A i \in Id :
            /\ row[i] \in InFlight =>
                  \/ \E c \in Caller : callPc[c] = "submit" /\ callId[c] = i
                  \/ \E n \in DOMAIN queue : queue[n] = i
                  \/ \E w \in BusyWorkers : workId[w] = i
            /\ \A w \in Worker : workPc[w] \in {"send", "record"} => row[workId[w]] = "sending"

\* Finished rows are bounded by what is retained plus what can finish between
\* two inserts, also across restarts (the DELETE in enqueue).
HistoryBounded ==
    faults = 0 => Cardinality({i \in Id : row[i] \in Final}) <= Retained + Slots

\* The history tells what became of each notification, while nothing of the
\* database fails, and keeps no more than it should (enqueue, _deliver).
HistoryTrue == TriedAsTold /\ HeardOnce /\ RowIsTruthful /\ NoOrphan /\ HistoryBounded

\* A finished row is never touched again except to purge it.
FinalStays == [][\A i \in Id : row[i] \in Final => row'[i] \in {row[i], "purged"}]_vars

\* While the service is not stopped and its database works, every accepted
\* call's row reaches a result, and keeps it for good, over restarts too
\* (_deliver, __init__).
EveryRowFinishes ==
    /\ FinalStays
    /\ \A i \in Id : row[i] \in InFlight ~> (row[i] \notin InFlight \/ stopped \/ faults > 0)

=============================================================================
