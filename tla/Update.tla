------------------------------- MODULE Update -------------------------------
(* Self-update of a node (internal_modules/updater.py) and the helper       *)
(* _update.exe, a copy of the node's program that replaces it and watches   *)
(* the new version (update.py), or only restarts it after an edit of the    *)
(* configuration (config_update.py).  Files, processes and the state file   *)
(* survive or fall with a power failure between any two steps.              *)
EXTENDS Integers, FiniteSets

CONSTANTS MaxVersion,     \* versions are 1 .. MaxVersion; 1 is installed
          Broken,         \* versions that die before health_confirm_sec
          Mismatched,     \* packages whose exe is not the one of the manifest
          RequireSigned,  \* update.require_signed
          AllowDowngrade, \* update.allow_downgrade
          Callers,        \* RPC calls of apply that may be under way together
          MaxFaults       \* bound on power failures and failing steps

Versions == 1 .. MaxVersion
None == 0                 \* no such file, no such process
Torn == -1                \* a file written in part, or not a program
Images == Versions \cup {None, Torn}
MaxAttempts == 2

VARIABLES exe,      \* the program of the node
          old,      \* <exe>.old
          upd,      \* _update.exe
          staged,   \* downloaded packages: none, good or bad
          st,       \* update_state.json
          known,    \* _known: versions whose manifest was read
          node,     \* the node's process
          helper,   \* the process _update.exe
          relaunch, \* the detached cmd that starts exe after a rollback
          job,      \* calls of apply under way
          faults    \* faults so far

files == <<exe, old, upd, staged>>
vars == <<exe, old, upd, staged, st, known, node, helper, relaunch, job, faults>>

NoState == [to |-> None, from |-> None, pending |-> FALSE, bootOk |-> FALSE,
            rolledBack |-> FALSE, attempts |-> 0]
States == [to : Versions \cup {None}, from : Versions \cup {None},
           pending : BOOLEAN, bootOk : BOOLEAN, rolledBack : BOOLEAN,
           attempts : 0 .. MaxAttempts + 1]
NodeOff == [ver |-> None, pc |-> "off", confirm |-> FALSE, exiting |-> FALSE]
Booted(v) == [NodeOff EXCEPT !.ver = v, !.pc = "start"]
NoHelper == [mode |-> "none", pc |-> "off", to |-> None, child |-> FALSE]
NoJob == [pc |-> "idle", v |-> None, info |-> FALSE]

TypeOK ==
    /\ exe \in Images /\ old \in Images /\ upd \in Images
    /\ staged \in [Versions -> {"none", "good", "bad"}]
    /\ st \in States
    /\ known \subseteq Versions
    /\ node \in [ver : Versions \cup {None},
                 pc : {"off", "start", "moved", "leaving", "up"},
                 confirm : BOOLEAN, exiting : BOOLEAN]
    /\ helper \in [mode : {"none", "update", "config"},
                   pc : {"off", "wait", "move", "copy", "launch", "watch",
                         "rollback", "confirm"},
                   to : Versions \cup {None}, child : BOOLEAN]
    /\ relaunch \in BOOLEAN
    /\ job \in [Callers -> [pc : {"idle", "check", "stage", "install"},
                            v : Versions \cup {None}, info : BOOLEAN]]
    /\ faults \in 0 .. MaxFaults

Init ==
    /\ exe = 1 /\ old = None /\ upd = None
    /\ staged = [v \in Versions |-> "none"]
    /\ st = NoState
    /\ known = {}
    /\ node = NodeOff
    /\ helper = NoHelper
    /\ relaunch = FALSE
    /\ job = [c \in Callers |-> NoJob]
    /\ faults = 0

Fault == faults < MaxFaults /\ faults' = faults + 1
Unconfirmed == st.pending /\ ~st.bootOk
Running == node.ver # None
Bootable == exe \in Versions

-----------------------------------------------------------------------------
(* The node's process.                                                      *)

\* What dies with the process: its memory, and the helper's child.
Dead == /\ node' = NodeOff
        /\ known' = {}
        /\ job' = [c \in Callers |-> NoJob]
        /\ helper' = [helper EXCEPT !.child = FALSE]

\* A user or the task scheduler starts the program; nobody does while a
\* helper is at work (an assumption).  The mutex lets one instance run.
OperatorStart ==
    /\ ~Running /\ Bootable /\ ~relaunch /\ helper.mode = "none"
    /\ node' = Booted(exe)
    /\ UNCHANGED <<files, st, known, helper, relaunch, job, faults>>

\* start: nothing awaits confirmation.
StartPlain ==
    /\ node.pc = "start" /\ ~Unconfirmed
    /\ node' = [node EXCEPT !.pc = "up"]
    /\ UNCHANGED <<files, st, known, helper, relaunch, job, faults>>

\* start: one more attempt, confirmed by _confirm_boot_later.
StartConfirm ==
    /\ node.pc = "start" /\ Unconfirmed /\ st.attempts < MaxAttempts
    /\ st' = [st EXCEPT !.attempts = @ + 1]
    /\ node' = [node EXCEPT !.pc = "up", !.confirm = TRUE]
    /\ UNCHANGED <<files, known, helper, relaunch, job, faults>>

\* start: too many attempts; without a .old, or when exe cannot be renamed,
\* the node goes on as it is.
StartNoOld ==
    /\ node.pc = "start" /\ Unconfirmed /\ st.attempts >= MaxAttempts
    /\ \/ /\ old = None
          /\ st' = [st EXCEPT !.attempts = MaxAttempts + 1, !.rolledBack = TRUE]
          /\ UNCHANGED faults
       \/ /\ old # None /\ Fault
          /\ st' = [st EXCEPT !.attempts = MaxAttempts + 1]
    /\ node' = [node EXCEPT !.pc = "up"]
    /\ UNCHANGED <<files, known, helper, relaunch, job>>

\* _do_rollback, to the point where exe is renamed to .failed ...
RollbackMove ==
    /\ node.pc = "start" /\ Unconfirmed /\ st.attempts >= MaxAttempts
    /\ old # None /\ exe # None
    /\ st' = [st EXCEPT !.attempts = MaxAttempts + 1]
    /\ exe' = None
    /\ node' = [node EXCEPT !.pc = "moved"]
    /\ UNCHANGED <<old, upd, staged, known, helper, relaunch, job, faults>>

\* ... and from the copy of .old to the exit a second later, in which no call
\* is assumed to reach the node: its connectors start after the updater.
RollbackCopy ==
    /\ node.pc = "moved"
    /\ exe' = old
    /\ st' = [st EXCEPT !.rolledBack = TRUE]
    /\ relaunch' = TRUE
    /\ node' = [node EXCEPT !.pc = "leaving", !.exiting = TRUE]
    /\ UNCHANGED <<old, upd, staged, known, helper, job, faults>>

\* cmd starts exe three seconds after the copy, the exit takes one.
Relaunch ==
    /\ relaunch /\ ~node.exiting
    /\ relaunch' = FALSE
    /\ node' = IF ~Running /\ Bootable THEN Booted(exe) ELSE node
    /\ UNCHANGED <<files, st, known, helper, job, faults>>

\* _confirm_boot_later reads the state again when health_confirm_sec is over.
Confirm ==
    /\ node.pc = "up" /\ node.confirm /\ node.ver \notin Broken
    /\ st' = IF Unconfirmed THEN [st EXCEPT !.bootOk = TRUE] ELSE st
    /\ node' = [node EXCEPT !.confirm = FALSE]
    /\ UNCHANGED <<files, known, helper, relaunch, job, faults>>

\* The os._exit(0) that follows an apply, a restart or a rollback.
NodeExit ==
    /\ node.exiting
    /\ Dead
    /\ UNCHANGED <<files, st, relaunch, faults>>

\* A broken version dies by itself, any other by a fault.
NodeDies ==
    /\ Running
    /\ IF node.ver \in Broken THEN UNCHANGED faults ELSE Fault
    /\ Dead
    /\ UNCHANGED <<files, st, relaunch>>

\* RPC clear_state.
ClearState ==
    /\ node.pc = "up" /\ st # NoState
    /\ st' = NoState
    /\ UNCHANGED <<files, known, node, helper, relaunch, job, faults>>

-----------------------------------------------------------------------------
(* RPC check, download and apply: a coroutine per call, suspended while it  *)
(* asks the sources and while it waits for the file.                        *)

Allowed(v, force) == v # node.ver /\ (v > node.ver \/ AllowDowngrade \/ force)

\* apply up to its first await: info is read from _known once.
ApplyBegin(c, v, force) ==
    /\ node.pc = "up" /\ job[c].pc = "idle"
    /\ Allowed(v, force) /\ ~Unconfirmed
    /\ job' = [job EXCEPT ![c] =
                 [pc |-> IF v \in known THEN "stage" ELSE "check",
                  v |-> v, info |-> v \in known]]
    /\ UNCHANGED <<files, st, known, node, helper, relaunch, faults>>

\* check: the manifests of every source that answers.
ApplyCheck(c) ==
    /\ job[c].pc = "check"
    /\ \/ /\ known' = Versions
          /\ job' = [job EXCEPT ![c].pc = "stage"]
       \/ /\ job' = [job EXCEPT ![c] = NoJob]
          /\ UNCHANGED known
    /\ UNCHANGED <<files, st, node, helper, relaunch, faults>>

\* download, of a version not staged yet.  The hash is compared when the file
\* comes by a stream, not when files.download had it at hand (shared here).
ApplyDownload(c) ==
    /\ job[c].pc = "stage" /\ staged[job[c].v] = "none"
    /\ \E local \in BOOLEAN :
         LET v == job[c].v
             bad == v \in Mismatched
             got == local \/ ~bad
         IN /\ staged' = IF got THEN [staged EXCEPT ![v] = IF bad THEN "bad"
                                                                  ELSE "good"]
                                ELSE staged
            /\ job' = [job EXCEPT ![c] = IF got THEN [@ EXCEPT !.pc = "install"]
                                                ELSE NoJob]
    /\ known' = Versions
    /\ UNCHANGED <<exe, old, upd, st, node, helper, relaunch, faults>>

\* The checks of the staged file.  Its hash is known only by the info read at
\* the start; the signature of another file does not hold.
Verified(c) == staged[job[c].v] = "good" \/ (~job[c].info /\ ~RequireSigned)

\* The rest of apply has no await: copy to _update.exe, which fails while a
\* helper runs from it, state, helper, exit.
ApplyInstall(c) ==
    /\ \/ job[c].pc = "install"
       \/ job[c].pc = "stage" /\ staged[job[c].v] # "none"
    /\ job' = [job EXCEPT ![c] = NoJob]
    /\ IF staged[job[c].v] # "none" /\ Verified(c) /\ helper.mode = "none"
         THEN /\ st' = [NoState EXCEPT !.to = job[c].v, !.from = node.ver,
                                       !.pending = TRUE]
              /\ \/ /\ helper' = [NoHelper EXCEPT !.mode = "update",
                                     !.pc = "wait", !.to = job[c].v]
                    /\ node' = [node EXCEPT !.exiting = TRUE]
                    /\ UNCHANGED faults
                    /\ upd' = exe
                 \/ /\ Fault
                    /\ upd' = None
                    /\ UNCHANGED <<helper, node>>
         ELSE UNCHANGED <<upd, st, helper, node, faults>>
    /\ UNCHANGED <<exe, old, staged, known, relaunch>>

\* _schedule_restart of the config service.
ConfigRestart ==
    /\ node.pc = "up" /\ helper.mode = "none"
    /\ upd' = exe
    /\ helper' = [NoHelper EXCEPT !.mode = "config", !.pc = "wait"]
    /\ node' = [node EXCEPT !.exiting = TRUE]
    /\ UNCHANGED <<exe, old, staged, st, known, relaunch, job, faults>>

-----------------------------------------------------------------------------
(* The helper: updater_main and config_updater_main.                        *)

HAt(pc) == helper.pc = pc
HGo(pc) == helper' = [helper EXCEPT !.pc = pc]
HEnd == helper' = NoHelper
keep == <<staged, known, relaunch, job>>

\* Mutant: the helper does not wait for the process that started it.
HWaitNot ==
    /\ HAt("wait")
    /\ HGo(IF helper.mode = "update" THEN "move" ELSE "launch")
    /\ UNCHANGED <<files, st, known, node, relaunch, job, faults>>

\* The process that starts the helper exits in a second; one that somebody
\* started meanwhile is waited for 30 s only.
HWait ==
    /\ HAt("wait") /\ ~node.exiting
    /\ HGo(IF helper.mode = "update" THEN "move" ELSE "launch")
    /\ UNCHANGED <<files, st, known, node, relaunch, job, faults>>

\* _replace_binary: .old is removed, exe renamed to .old.
HMove ==
    /\ HAt("move")
    /\ \/ /\ staged[helper.to] # "none"
          /\ old' = exe /\ exe' = None
          /\ HGo("copy")
          /\ UNCHANGED faults
       \/ /\ staged[helper.to] = "none"
          /\ HEnd
          /\ UNCHANGED <<exe, old, faults>>
       \/ /\ Fault
          /\ old' = None
          /\ HEnd
          /\ UNCHANGED exe
    /\ UNCHANGED <<upd, st, node, keep>>

\* _replace_binary: the copy.  When it fails .old comes back, unless a part
\* of the file was written and nothing was there to compare.
HCopy ==
    /\ HAt("copy")
    /\ \/ /\ exe' = IF staged[helper.to] = "good" THEN helper.to ELSE Torn
          /\ HGo("launch")
          /\ UNCHANGED <<old, faults>>
       \/ /\ Fault
          /\ exe' = old /\ old' = None
          /\ HEnd
       \/ /\ Fault
          /\ exe' = Torn
          /\ HEnd
          /\ UNCHANGED old
    /\ UNCHANGED <<upd, st, node, keep>>

\* launch_new_version; a second instance meets the mutex and exits.
HLaunch ==
    /\ HAt("launch")
    /\ IF Bootable
         THEN /\ helper' = [helper EXCEPT !.pc = "watch", !.child = ~Running]
              /\ node' = IF Running THEN node ELSE Booted(exe)
         ELSE /\ IF helper.mode = "update" THEN HGo("rollback") ELSE HEnd
              /\ UNCHANGED node
    /\ UNCHANGED <<files, st, known, relaunch, job, faults>>

\* The new process outlived health_confirm_sec.
HWatchOver ==
    /\ HAt("watch") /\ helper.child
    /\ node.pc = "up" /\ ~node.exiting /\ node.ver \notin Broken
    /\ IF helper.mode = "update" THEN HGo("confirm") ELSE HEnd
    /\ UNCHANGED <<files, st, known, node, relaunch, job, faults>>

\* It did not: back to the old one; a restart alone is given up.
HWatchDied ==
    /\ HAt("watch") /\ ~helper.child
    /\ IF helper.mode = "update" THEN HGo("rollback") ELSE HEnd
    /\ UNCHANGED <<files, st, known, node, relaunch, job, faults>>

\* _rollback copies the helper's own file over exe; Windows may refuse that
\* while a process runs from it.
HRollback ==
    /\ HAt("rollback")
    /\ \/ /\ exe' = upd
          /\ node' = IF Running THEN node ELSE Booted(upd)
       \/ /\ Running
          /\ UNCHANGED <<exe, node>>
    /\ HEnd
    /\ UNCHANGED <<old, upd, st, keep, faults>>

\* Success: the helper's file is deleted and the state confirmed.
HConfirm ==
    /\ HAt("confirm")
    /\ upd' = None
    /\ st' = IF st = NoState THEN st ELSE [st EXCEPT !.bootOk = TRUE]
    /\ HEnd
    /\ UNCHANGED <<exe, old, node, keep, faults>>

\* The power fails, perhaps in the middle of a copy.
PowerFail ==
    /\ Fault
    /\ Running \/ helper.mode # "none"
    /\ node' = NodeOff /\ known' = {} /\ relaunch' = FALSE
    /\ job' = [c \in Callers |-> NoJob]
    /\ HEnd
    /\ exe' \in {exe} \cup IF helper.pc \in {"copy", "rollback"} \/ node.pc = "moved"
                             THEN {Torn} ELSE {}
    /\ UNCHANGED <<old, upd, staged, st>>

-----------------------------------------------------------------------------
NodeStep == StartPlain \/ StartConfirm \/ StartNoOld \/ RollbackMove
            \/ RollbackCopy \/ Relaunch \/ Confirm \/ NodeExit
            \/ (node.ver \in Broken /\ NodeDies)
HelperStep == HWait \/ HMove \/ HCopy \/ HLaunch \/ HWatchOver \/ HWatchDied
              \/ HRollback \/ HConfirm

Next ==
    \/ OperatorStart \/ NodeStep \/ NodeDies \/ ClearState \/ ConfigRestart
    \/ \E c \in Callers :
         \/ \E v \in Versions, force \in BOOLEAN : ApplyBegin(c, v, force)
         \/ ApplyCheck(c) \/ ApplyDownload(c) \/ ApplyInstall(c)
    \/ HelperStep \/ PowerFail

Spec == Init /\ [][Next]_vars
\* A process that runs goes on, and what its timers wait for comes.
Fairness == WF_vars(NodeStep) /\ WF_vars(HelperStep)
FairSpec == Spec /\ Fairness

-----------------------------------------------------------------------------
\* A version to go back to is at hand: while the helper works it is itself a
\* program that runs, and while an unconfirmed version is in place .old is
\* another program, which start can copy back (updater.py:526, update.py:117).
RollbackReady ==
    /\ helper.mode # "none" => upd \in Versions
    /\ Unconfirmed /\ ~st.rolledBack /\ exe = st.to => old \in Versions \ {st.to}

\* No fault, no dead node: when the helper is gone after an update or a
\* restart a node runs, the new version or the old one (update.py:136).
UpdateDue == helper.mode # "none"
UpdateOver == helper.mode = "none" /\ (Running \/ faults > 0)
UpdateEnds == UpdateDue ~> UpdateOver

\* The file is replaced by one process, after the one that asked for it has
\* gone (update.py:186): a helper that renames or copies never finds the node
\* it replaces at work, unless somebody started it again.
NotUnderfoot == helper.pc \in {"move", "copy"} => ~Running

\* updater.py:20: "the new version, after health_confirm_sec of healthy work,
\* sets boot_ok": the state is confirmed only while that version runs.
ConfirmsNewVersion ==
    [][~st.bootOk /\ st'.bootOk => node.ver = st.to]_vars

\* updater.py:21: after MAX_ATTEMPTS .old comes back; it comes back once, and
\* the version restored is left to run.
RollsBackOnce == [][RollbackMove => ~st.rolledBack]_vars

=============================================================================
