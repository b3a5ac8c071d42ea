--------------------------------- MODULE Hub ---------------------------------
(* Parts whose models share no variable: of the server the jobs, request    *)
(* handlers, settings, watchdog, backups and connections to the database,   *)
(* of a node its speed tests, scans and the bridge to the server.  A        *)
(* behaviour is about one of them, chosen at the start; the others stand    *)
(* still.                                                                   *)
EXTENDS Integers, FiniteSets

CONSTANTS Request,      \* requests: of the jobs, the handlers and the settings
          Kind, Slots, Workers, KeepJobs,               \* of the jobs
          Mix,          \* what the handlers are asked: names of some mixes
          Verb, User, OperatorMay,                      \* of each mix
          NoUser, RoleOf, Ip, MaxFails,                 \* of the handlers
          Writer, SaveFaults,                           \* of the settings
          Cycle, Target, Before, Name, Says,            \* of the watchdog
          OfflineAfter, HealKinds, PerDay, MaxTick, MaxCycles,
          Runner, Loop, KeepBundles, MaxDay, MaxMade,   \* of the backups
          Thread, PoolSize, Retries,                    \* of the database
          Test, Way, MaxChunks, Ahead, Host, Self, Peer, MaxPosts, \* of a node
          MaxFaults     \* bound on the faults of a part

VARIABLES which,
          req, jobs, order, slots, pool, worked, cveLock, alert, refusals,
          th, fails, block, seen, actor, effects, audit,
          live, file, lock, job, reset, bad,
          now, streak, online, last, healed, runs, cycle, begun, downs, quiet, overlap,
          day, stamp, mutex, run, dir, made, doomed, faults,
          open, free, busy, user, applied, closed, closing, dead,
          tool, phase, test, told, flow, entry, event, awake, world, targets, going,
          row, post, slips

J == INSTANCE Jobs WITH Keep <- KeepJobs
H(mix) == INSTANCE Http WITH Verb <- Verb[mix], User <- User[mix],
                             OperatorMay <- OperatorMay[mix], Nobody <- NoUser
S == INSTANCE Settings WITH Change <- Request, MaxFaults <- SaveFaults
W == INSTANCE Watch
B == INSTANCE Backup WITH Keep <- KeepBundles, lock <- mutex
D == INSTANCE DbPool WITH bad <- dead
T == INSTANCE Tools WITH busy <- going, faults <- slips

Parts == {"jobs", "settings", "watch", "backup", "database", "tools"}

\* What the code fixes of the sizes: the table keeps more finished jobs than
\* there are slots (server.py:239, server.py:47); a login may fail and a statement
\* be tried once at least; a bundle is kept at least (server.py:407); a poll is
\* needed to call a host offline; a target has a row, and so has what it reports.
JobsSized == /\ IsFiniteSet(Request)
             /\ Slots \in Nat /\ Workers \in Nat /\ KeepJobs \in Nat /\ MaxFaults \in Nat
             /\ Slots <= KeepJobs + 1
HttpSized == IsFiniteSet(Request) /\ MaxFails \in Nat \ {0}
SettingsSized == S!Free \notin Request /\ SaveFaults \in Nat
WatchSized == /\ OfflineAfter \in Nat \ {0} /\ MaxTick \in Nat /\ MaxCycles \in Nat
              /\ Target \subseteq Name /\ Says \in [Target -> Name]
BackupSized == /\ Loop \in Runner /\ B!Nobody \notin Runner
               /\ KeepBundles \in Nat \ {0} /\ MaxDay \in Nat \ {0}
               /\ MaxMade \in Nat /\ MaxFaults \in Nat
PoolSized == /\ IsFiniteSet(Thread) /\ PoolSize \in Nat /\ Retries \in Nat \ {0}
             /\ MaxFaults \in Nat
ToolsSized == /\ MaxChunks \in Nat /\ MaxPosts \in Nat /\ MaxFaults \in Nat
              /\ T!Sweeper \notin T!Member
ASSUME Sizes == /\ JobsSized /\ HttpSized /\ SettingsSized /\ WatchSized /\ BackupSized
                /\ PoolSized /\ ToolsSized /\ Mix \cap Parts = {}

jobVars == <<req, jobs, order, slots, pool, worked, cveLock, alert, refusals>>
httpVars == <<th, fails, block, seen, actor, effects, audit>>
cfgVars == <<live, file, lock, job, reset, bad>>
watchVars == <<now, streak, online, last, healed, runs, cycle, begun, downs, quiet,
               overlap>>
backupVars == <<day, stamp, mutex, run, dir, made, doomed, faults>>
dbVars == <<open, free, busy, user, applied, closed, closing, dead>>
toolVars == <<tool, phase, test, told, flow, entry, event, awake, world, targets, going,
              row, post, slips>>
vars == <<which, jobVars, httpVars, cfgVars, watchVars, backupVars, dbVars, toolVars>>

Init == /\ which \in Mix \cup Parts
        /\ J!Init /\ S!Init /\ W!Init /\ B!Init /\ D!Init /\ T!Init
        /\ \A mix \in Mix : H(mix)!Init
        /\ which # "tools" => tool = "post"

Jobbing == /\ which = "jobs" /\ J!Next
           /\ UNCHANGED <<which, httpVars, cfgVars, watchVars, backupVars, dbVars, toolVars>>
Serving == /\ \E mix \in Mix : which = mix /\ H(mix)!Next
           /\ UNCHANGED <<which, jobVars, cfgVars, watchVars, backupVars, dbVars, toolVars>>
Setting == /\ which = "settings" /\ S!Next
           /\ UNCHANGED <<which, jobVars, httpVars, watchVars, backupVars, dbVars, toolVars>>
Watching == /\ which = "watch" /\ W!Next
            /\ UNCHANGED <<which, jobVars, httpVars, cfgVars, backupVars, dbVars, toolVars>>
BackingUp == /\ which = "backup" /\ B!Next
             /\ UNCHANGED <<which, jobVars, httpVars, cfgVars, watchVars, dbVars, toolVars>>
Storing == /\ which = "database" /\ D!Next
           /\ UNCHANGED <<which, jobVars, httpVars, cfgVars, watchVars, backupVars, toolVars>>
Measuring == /\ which = "tools" /\ T!Next
             /\ UNCHANGED <<which, jobVars, httpVars, cfgVars, watchVars, backupVars, dbVars>>

Next == Jobbing \/ Serving \/ Setting \/ Watching \/ BackingUp \/ Storing \/ Measuring

Spec == Init /\ [][Next]_vars

\* The fairness of the pool and of what measures; a part that stands still has
\* nothing to do.
Running == which = "tools" /\ T!Running
FairSpec == Spec /\ J!Fairness /\ WF_toolVars(Running)

-----------------------------------------------------------------------------
\* The types of the seven parts.
TypesOK == /\ J!TypeOK /\ S!TypeOK /\ W!TypeOK /\ B!TypeOK /\ D!TypeOK /\ T!TypeOK
           /\ \A mix \in Mix : H(mix)!TypeOK

\* What is taken is given back: slots and the lock of a job (server.py:202),
\* connections to the database (core/database.py:58); nothing of a scan runs
\* when it is answered (nmap/service.py:200).
NothingLeaks == J!NothingLeaks /\ D!NoneLeaks /\ T!NoneRuns

\* Every job ends (server.py:973), and so does every test and every scan
\* (speedtest/service.py:292, nmap/service.py:282).
JobsEnd == \A q \in Request : J!Pending(q) \/ T!ToolDue ~> ~J!Pending(q) /\ ~T!ToolDue

\* The audit tells who did what (server.py:2384), the watchdog what its polls
\* have seen (watchdog.py:166), a speed test what came
\* (speedtest/service.py:224).
Reported == /\ \A mix \in Mix : which = mix => H(mix)!AuditTrue
            /\ W!WatchTells
            /\ T!ToolsSound

\* Changes of the settings under the lock are kept and refused ones have no
\* effect (services.py:1406); the newest bundles are kept, and only they
\* (server.py:405).
StateKept == S!LockedKept /\ S!RefusedHasNoEffect /\ B!BundlesKept

\* inventory.py:117: an event is deduplicated in a window of hours.
DedupWindow == W!DedupWindow

\* server.py:980: the alert of a scan says that it was completed.
ScanReportTrue == J!ScanReportTrue

\* server.py:1394: a rule answered ok is in the list that is used.
RuleKept == S!RuleKept

=============================================================================
