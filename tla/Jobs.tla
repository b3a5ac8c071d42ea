-------------------------------- MODULE Jobs --------------------------------
(* Background jobs of the HTTP server (server.py): a table of jobs, a       *)
(* semaphore that bounds them and one pool of threads.  Requests submit a   *)
(* job and answer its number, or wait for it with a deadline; the security  *)
(* scan puts a watcher of its job into the same pool, outside the           *)
(* semaphore; the CVE check takes a lock that its job releases.             *)
EXTENDS Integers, FiniteSets, Sequences

CONSTANTS Request,   \* POST requests, each handled once by a thread of its own
          Kind,      \* Request -> {"async", "poll", "scan", "cve"}
          Slots,     \* JOB_SLOTS
          Workers,   \* threads of WORKERS
          Keep,      \* entries of JOBS kept by prune_jobs
          MaxFaults  \* bound on submissions refused by the pool

VARIABLES req,     \* where the handler stands, and what it answered
          jobs,    \* JOBS: the status of the job of a request
          order,   \* finished jobs, oldest first
          slots,   \* free slots
          pool,    \* WORKERS: the queue and the tasks in a thread
          worked,  \* jobs whose own work is over
          cveLock, \* checker._lock
          alert,   \* SECURITY_SCAN alerts pushed
          refusals \* faults so far

vars == <<req, jobs, order, slots, pool, worked, cveLock, alert, refusals>>

Job(r) == [what |-> "job", of |-> r]        \* wrap
Watcher(r) == [what |-> "watcher", of |-> r] \* finalize
Tasks == {Job(r) : r \in Request} \cup {Watcher(r) : r \in Request}
Queued == {pool.queue[i] : i \in DOMAIN pool.queue}
Pending(r) == Job(r) \in Queued \cup pool.busy
Listed == {r \in Request : jobs[r] # "none"}
Finished == {r \in Request : jobs[r] \in {"done", "error"}}

TypeOK ==
    /\ req \in [Request -> [pc : {"idle", "submit", "watch", "poll", "done"},
                            reply : {"none", "job", "result", "error", "busy",
                                     "full", "late"}]]
    /\ jobs \in [Request -> {"none", "running", "done", "error"}]
    /\ slots \in 0 .. Slots
    /\ pool.busy \subseteq Tasks /\ Queued \subseteq Tasks
    /\ Cardinality(pool.busy) <= Workers
    /\ cveLock \in BOOLEAN
    /\ worked \subseteq Request /\ alert \subseteq Request
    /\ refusals \in 0 .. MaxFaults

Init ==
    /\ req = [r \in Request |-> [pc |-> "idle", reply |-> "none"]]
    /\ jobs = [r \in Request |-> "none"]
    /\ order = <<>>
    /\ slots = Slots
    /\ pool = [queue |-> <<>>, busy |-> {}]
    /\ cveLock = FALSE
    /\ worked = {} /\ alert = {}
    /\ refusals = 0

At(r, pc) == req[r].pc = pc
Go(r, pc) == req' = [req EXCEPT ![r].pc = pc]
Answer(r, a) == req' = [req EXCEPT ![r] = [pc |-> "done", reply |-> a]]

\* Mutant: nobody releases the lock of the CVE check.
CveHeldOn(r) == cveLock

\* The lock of the CVE check after the end of r.
CveHeld(r) == cveLock /\ Kind[r] # "cve"

\* Mutant: the last task submitted is the first to run.
PutFirst(t) == [pool EXCEPT !.queue = <<t>> \o @]

Put(t) == [pool EXCEPT !.queue = Append(@, t)]

\* A request arrives; the CVE check takes its lock without waiting.
Arrive(r) ==
    /\ At(r, "idle")
    /\ IF Kind[r] # "cve" THEN Go(r, "submit") /\ UNCHANGED cveLock
       ELSE IF cveLock THEN Answer(r, "busy") /\ UNCHANGED cveLock
       ELSE Go(r, "submit") /\ cveLock' = TRUE
    /\ UNCHANGED <<jobs, order, slots, pool, worked, alert, refusals>>

\* prune_jobs: finished jobs that are too old, then the oldest finished ones
\* while the table is over its size.
Excess == IF Cardinality(Listed) > Keep THEN Cardinality(Listed) - Keep ELSE 0
Pruned(n) == {order[i] : i \in 1 .. n}
Prune(n) == /\ n <= Len(order)
            /\ n >= Excess \/ n = Len(order)
            /\ order' = SubSeq(order, n + 1, Len(order))

\* submit_job: the slot, the entry, the pool; a pool that refuses gives the
\* entry and the slot back, and the CVE check its lock.
Submit(r) ==
    /\ At(r, "submit") /\ slots > 0
    /\ \E n \in 0 .. Len(order) :
         /\ Prune(n)
         /\ jobs' = [q \in Request |-> IF q = r THEN "running"
                                       ELSE IF q \in Pruned(n) THEN "none" ELSE jobs[q]]
    /\ slots' = slots - 1
    /\ pool' = Put(Job(r))
    /\ IF Kind[r] \in {"async", "cve"} THEN Answer(r, "job")
       ELSE Go(r, IF Kind[r] = "scan" THEN "watch" ELSE "poll")
    /\ UNCHANGED <<worked, cveLock, alert, refusals>>

NotSubmitted(r) ==
    /\ At(r, "submit")
    /\ \/ slots = 0 /\ Answer(r, "full") /\ UNCHANGED <<jobs, order, refusals>>
       \/ /\ slots > 0 /\ refusals < MaxFaults /\ refusals' = refusals + 1
          /\ \E n \in 0 .. Len(order) :
               /\ Prune(n)
               /\ jobs' = [q \in Request |-> IF q \in Pruned(n) THEN "none" ELSE jobs[q]]
          /\ Answer(r, "error")
    /\ cveLock' = CveHeld(r)
    /\ UNCHANGED <<slots, pool, worked, alert>>

\* security_scan: finalize goes to the pool too, which may refuse it.
Watch(r) ==
    /\ At(r, "watch")
    /\ \/ /\ pool' = Put(Watcher(r))
          /\ Answer(r, "job")
          /\ UNCHANGED refusals
       \/ /\ refusals < MaxFaults /\ refusals' = refusals + 1
          /\ Answer(r, "error")
          /\ UNCHANGED pool
    /\ UNCHANGED <<jobs, order, slots, worked, cveLock, alert>>

\* lan_scan, port_scan, watchdog_poll, backup_check_now and infra_scan look at
\* the table until the job is not running: a pruned one has no status either.
Poll(r) ==
    /\ At(r, "poll") /\ jobs[r] # "running"
    /\ Answer(r, IF jobs[r] = "done" THEN "result" ELSE "error")
    /\ UNCHANGED <<jobs, order, slots, pool, worked, cveLock, alert, refusals>>

\* 504: the job stays where it is.
PollDeadline(r) ==
    /\ At(r, "poll")
    /\ Answer(r, "late")
    /\ UNCHANGED <<jobs, order, slots, pool, worked, cveLock, alert, refusals>>

-----------------------------------------------------------------------------
(* The pool.                                                                *)

\* Mutant: a thread for every task.
ThreadFreeAlways == TRUE

ThreadFree == Cardinality(pool.busy) < Workers

Take ==
    /\ pool.queue # <<>> /\ ThreadFree
    /\ pool' = [queue |-> Tail(pool.queue), busy |-> pool.busy \cup {Head(pool.queue)}]
    /\ UNCHANGED <<req, jobs, order, slots, worked, cveLock, alert, refusals>>

Leave(t) == pool' = [pool EXCEPT !.busy = @ \ {t}]

\* The work of a job ends, well or with an exception; that of the CVE check
\* releases its lock in a finally of its own ...
JobWorks(r) ==
    /\ Job(r) \in pool.busy \ {Job(q) : q \in worked}
    /\ worked' = worked \cup {r}
    /\ cveLock' = CveHeld(r)
    /\ UNCHANGED <<req, jobs, order, slots, pool, alert, refusals>>

\* ... wrap puts the outcome into the entry ...
JobTells(r) ==
    /\ r \in worked /\ jobs[r] = "running"
    /\ \E s \in {"done", "error"} : jobs' = [jobs EXCEPT ![r] = s]
    /\ order' = Append(order, r)
    /\ UNCHANGED <<req, slots, pool, worked, cveLock, alert, refusals>>

\* ... and releases the slot either way; a request may have come in between.
JobEnds(r) ==
    /\ Job(r) \in pool.busy /\ jobs[r] # "running"
    /\ slots' = slots + 1
    /\ Leave(Job(r))
    /\ UNCHANGED <<req, jobs, order, worked, cveLock, alert, refusals>>

\* finalize: the alert when the job has ended; nothing after 300 s.
WatcherReports(r) ==
    /\ Watcher(r) \in pool.busy /\ jobs[r] # "running"
    /\ alert' = alert \cup {r}
    /\ Leave(Watcher(r))
    /\ UNCHANGED <<req, jobs, order, slots, worked, cveLock, refusals>>

WatcherDeadline(r) ==
    /\ Watcher(r) \in pool.busy
    /\ Leave(Watcher(r))
    /\ UNCHANGED <<req, jobs, order, slots, worked, cveLock, alert, refusals>>

-----------------------------------------------------------------------------
Wrap(r) == JobWorks(r) \/ JobTells(r) \/ JobEnds(r)
WatcherEnds(r) == WatcherReports(r) \/ WatcherDeadline(r)
Handle(r) == Arrive(r) \/ Submit(r) \/ NotSubmitted(r) \/ Watch(r) \/ Poll(r)
             \/ PollDeadline(r)

Next == Take \/ \E r \in Request : Handle(r) \/ Wrap(r) \/ WatcherEnds(r)

Spec == Init /\ [][Next]_vars
\* A free thread of the pool takes the next task, the work of a job ends, and
\* a watcher looks at the table every two seconds.
Fairness ==
    /\ WF_vars(Take)
    /\ \A r \in Request : WF_vars(Wrap(r)) /\ WF_vars(WatcherReports(r))
FairSpec == Spec /\ Fairness

-----------------------------------------------------------------------------
\* What a request takes is given back, whatever fails: the slots that are
\* missing are the jobs queued or at work, a job is seen running until its work
\* is over and no longer than it holds its slot, the CVE lock is held for one
\* check that is about to be submitted or has not ended its work, and the table
\* stays within its bound (server.py:202, server.py:231, server.py:1575).
NothingLeaks ==
    /\ Slots - slots = Cardinality({r \in Request : Pending(r)})
    /\ \A r \in Request : /\ Pending(r) => jobs[r] = "running" \/ r \in worked
                          /\ jobs[r] = "running" => Pending(r)
    /\ Cardinality({r \in Request : Kind[r] = "cve"
                            /\ (At(r, "submit") \/ (Pending(r) /\ r \notin worked))})
         = IF cveLock THEN 1 ELSE 0
    /\ Cardinality(Listed) <= Keep + 1

\* A job that was accepted is done some time, although the watchers of scans
\* sit in threads of the pool that runs the jobs they wait for: a job stands
\* before its watcher in the queue, and no deadline is needed (server.py:973).
JobsEnd == \A r \in Request : Pending(r) ~> ~Pending(r)

\* server.py:980, the text of the alert: the scan is completed and found so
\* many threats; it is pushed for a scan that failed as well.
ScanReportTrue == \A r \in alert : jobs[r] # "error"

=============================================================================
