------------------------------- MODULE Backup -------------------------------
(* Backups of the server's data (server.py BackupManager, recovery.py): the *)
(* daily run of the loop, runs asked for by a job, one at a time; a bundle  *)
(* is staged and renamed into place; old bundles are rotated out.  The      *)
(* server may stop between any two steps.                                   *)
EXTENDS Integers, FiniteSets, Sequences

CONSTANTS Runner,    \* the loop and the jobs
          Loop,      \* the loop, a member of Runner
          Keep,      \* backup.keep
          MaxDay,    \* bound on the days
          MaxMade,   \* bound on the bundles made
          MaxFaults  \* bound on failing steps and stops of the server

VARIABLES day,     \* the day, after backup.time
          stamp,   \* .last_auto_run
          lock,    \* recovery.LOCK
          run,     \* the runners: where they stand
          dir,     \* bundles in the directory: number and day
          made,    \* bundles made so far
          doomed,  \* the bundles a rotation has listed for removal
          faults

vars == <<day, stamp, lock, run, dir, made, doomed, faults>>
Nobody == "nobody"

TypeOK ==
    /\ day \in 1 .. MaxDay /\ stamp \in 0 .. MaxDay
    /\ lock \in Runner \cup {Nobody}
    /\ run \in [Runner -> {"rest", "ready", "stage", "bundle", "stamp", "list",
                           "unlink"}]
    /\ \A b \in dir : b.nr \in 1 .. MaxMade /\ b.day \in 1 .. MaxDay
    /\ made \in 0 .. MaxMade
    /\ doomed \in [Runner -> SUBSET (1 .. MaxMade)]
    /\ faults \in 0 .. MaxFaults

Init ==
    /\ day = 1 /\ stamp = 0
    /\ lock = Nobody
    /\ run = [r \in Runner |-> "rest"]
    /\ dir = {}
    /\ made = 0
    /\ doomed = [r \in Runner |-> {}]
    /\ faults = 0

At(r, pc) == run[r] = pc
Go(r, pc) == run' = [run EXCEPT ![r] = pc]
Fault == faults < MaxFaults /\ faults' = faults + 1

\* run_backup_if_due: once a day, by the stamp; a job runs whenever asked.
Start(r) ==
    /\ At(r, "rest") /\ made < MaxMade
    /\ r = Loop => stamp # day
    /\ Go(r, "ready")
    /\ UNCHANGED <<day, stamp, lock, dir, made, doomed, faults>>

\* create: the lock without waiting; busy is an error.
Create(r) ==
    /\ At(r, "ready")
    /\ IF lock = Nobody THEN lock' = r /\ Go(r, "stage")
                        ELSE UNCHANGED lock /\ Go(r, "rest")
    /\ UNCHANGED <<day, stamp, dir, made, doomed, faults>>

\* The copies, their checks and the manifest in a directory of their own.
Stage(r) ==
    /\ At(r, "stage")
    /\ Go(r, "bundle")
    /\ UNCHANGED <<day, stamp, lock, dir, made, doomed, faults>>

\* A step of create fails: nothing is left, no stamp is written.
StageFails(r) ==
    /\ run[r] \in {"stage", "bundle"} /\ Fault
    /\ lock' = Nobody
    /\ Go(r, "rest")
    /\ UNCHANGED <<day, stamp, dir, made, doomed>>

\* The rename into the directory, and the lock.
Bundle(r) ==
    /\ At(r, "bundle") /\ made < MaxMade
    /\ made' = made + 1
    /\ dir' = dir \cup {[nr |-> made + 1, day |-> day]}
    /\ lock' = Nobody
    /\ Go(r, IF r = Loop THEN "stamp" ELSE "list")
    /\ UNCHANGED <<day, stamp, doomed, faults>>

\* The loop writes the stamp, of the day at which it looked at the clock; an
\* exception leaves the loop's round without a rotation.
Stamp ==
    /\ At(Loop, "stamp")
    /\ \/ stamp' = day /\ Go(Loop, "list") /\ UNCHANGED faults
       \/ Fault /\ Go(Loop, "rest") /\ UNCHANGED stamp
    /\ UNCHANGED <<day, lock, dir, made, doomed>>

\* rotate: the bundles by age ...

\* Mutant: one bundle less than backup.keep is kept.
OldestMore == {b.nr : b \in {x \in dir : Cardinality({y \in dir : y.nr > x.nr}) >= Keep - 1}}

Oldest == {b.nr : b \in {x \in dir : Cardinality({y \in dir : y.nr > x.nr}) >= Keep}}
List(r) ==
    /\ At(r, "list")
    /\ doomed' = [doomed EXCEPT ![r] = Oldest]
    /\ Go(r, IF Oldest = {} THEN "rest" ELSE "unlink")
    /\ UNCHANGED <<day, stamp, lock, dir, made, faults>>

\* ... then one after the other, newest of them first; one that is gone
\* already ends the rotation.
Newest(s) == CHOOSE n \in s : \A m \in s : m <= n
Unlink(r) ==
    /\ At(r, "unlink")
    /\ LET n == Newest(doomed[r])
           gone == \A b \in dir : b.nr # n
           rest == doomed[r] \ {n}
       IN /\ dir' = {b \in dir : b.nr # n}
          /\ doomed' = [doomed EXCEPT ![r] = IF gone THEN {} ELSE rest]
          /\ Go(r, IF gone \/ rest = {} THEN "rest" ELSE "unlink")
    /\ UNCHANGED <<day, stamp, lock, made, faults>>

\* The server stops and starts again: its threads are gone, the files stay.
Restart ==
    /\ Fault
    /\ run' = [r \in Runner |-> "rest"]
    /\ lock' = Nobody
    /\ doomed' = [r \in Runner |-> {}]
    /\ UNCHANGED <<day, stamp, dir, made>>

\* Midnight passes, while the loop does not hold the day it has read.
NextDay ==
    /\ day < MaxDay /\ run[Loop] = "rest"
    /\ day' = day + 1
    /\ UNCHANGED <<stamp, lock, run, dir, made, doomed, faults>>

RunStep(r) == Create(r) \/ Stage(r) \/ Bundle(r) \/ List(r) \/ Unlink(r)
              \/ (r = Loop /\ Stamp)
Next ==
    \/ \E r \in Runner : Start(r) \/ StageFails(r) \/ RunStep(r)
    \/ Restart \/ NextDay

Spec == Init /\ [][Next]_vars

-----------------------------------------------------------------------------
\* Whatever runs, rotates, fails or is cut off: the newest Keep bundles are
\* there, a day with a stamp had its bundle made, one backup is made at a time,
\* and what one rotation leaves to another is removed: when nothing is under
\* way and nothing has failed, Keep bundles are left (server.py:384,
\* server.py:405, recovery.py:72).
BundlesKept ==
    /\ \A n \in 1 .. made : n > made - Keep => \E b \in dir : b.nr = n
    /\ stamp # 0 => \E b \in dir : b.day >= stamp
    /\ \A r, q \in Runner : run[r] \in {"stage", "bundle"}
                            /\ run[q] \in {"stage", "bundle"} => r = q
    /\ (\A r \in Runner : At(r, "rest")) /\ faults = 0 => Cardinality(dir) <= Keep

=============================================================================
