------------------------------ MODULE Settings ------------------------------
(* The configuration of the server: config.py loads and saves it, POST      *)
(* settings and the device form change it under onboarding.LOCK             *)
(* (services.py, onboarding.py), the IDS whitelist changes it without the   *)
(* lock (server.py).  Each request sets an item of its own in a section;    *)
(* what the file holds is what encrypt_config and decrypt_config give back. *)
EXTENDS Naturals, FiniteSets

CONSTANTS Change,     \* requests that change the configuration, each made once
          Writer,     \* Change -> {"settings", "device", "rule"}
          MaxFaults   \* bound on failing saves, crashes and unreadable files

VARIABLES live,     \* service.cfg: the changes it holds
          file,     \* config.json: the changes it holds
          lock,     \* who holds onboarding.LOCK
          job,      \* the requests: where they stand and what they will write
          reset,    \* the defaults were loaded since
          bad       \* faults so far

vars == <<live, file, lock, job, reset, bad>>
Free == "free"

Idle == [pc |-> "idle", copy |-> {}, result |-> "none"]

TypeOK ==
    /\ live \subseteq Change
    /\ file \subseteq Change
    /\ lock \in Change \cup {Free}
    /\ job \in [Change -> [pc : {"idle", "save", "update", "done"},
                           copy : SUBSET Change,
                           result : {"none", "ok", "error", "lost"}]]
    /\ reset \in BOOLEAN
    /\ bad \in 0 .. MaxFaults

Init ==
    /\ live = {} /\ file = {}
    /\ lock = Free
    /\ job = [c \in Change |-> Idle]
    /\ reset = FALSE
    /\ bad = 0

At(c, pc) == job[c].pc = pc
Answer(c, result) == job' = [job EXCEPT ![c].pc = "done", ![c].result = result]
Fault == bad < MaxFaults /\ bad' = bad + 1

\* Mutant: the copy is made without the lock.
CanLockAlways == TRUE

CanLock == lock = Free

\* apply_settings and save_device: the lock, then a deep copy with the change;
\* a device or a body that is not valid is refused before.
Begin(c) ==
    /\ At(c, "idle") /\ Writer[c] # "rule"
    /\ \/ /\ CanLock
          /\ lock' = c
          /\ job' = [job EXCEPT ![c] = [Idle EXCEPT !.pc = "save",
                                                    !.copy = live \cup {c}]]
       \/ Answer(c, "error") /\ UNCHANGED lock
    /\ UNCHANGED <<live, file, reset, bad>>

\* save_config: a file of its own, renamed over config.json.
Save(c) ==
    /\ At(c, "save") /\ Writer[c] # "rule"
    /\ file' = job[c].copy
    /\ job' = [job EXCEPT ![c].pc = "update"]
    /\ UNCHANGED <<live, lock, reset, bad>>

\* A save that fails leaves the settings as they were.
SaveFails(c) ==
    /\ At(c, "save") /\ Writer[c] # "rule" /\ Fault
    /\ Answer(c, "error")
    /\ lock' = Free
    /\ UNCHANGED <<live, file, reset>>

\* cfg.update(candidate) puts the copy in the place of every section, the
\* device form of one section only; then the lock is released.
Update(c) ==
    /\ At(c, "update")
    /\ live' = IF Writer[c] = "settings" THEN job[c].copy ELSE live \cup {c}
    /\ lock' = Free
    /\ Answer(c, "ok")
    /\ UNCHANGED <<file, reset, bad>>

\* ids_wl_add: the rule is appended to the live list at once, the copy that
\* save_config writes is taken after it ...
AddRule(c) ==
    /\ At(c, "idle") /\ Writer[c] = "rule"
    /\ live' = live \cup {c}
    /\ job' = [job EXCEPT ![c] = [Idle EXCEPT !.pc = "save", !.copy = live']]
    /\ UNCHANGED <<file, lock, reset, bad>>

\* ... and nobody looks at its result.
SaveRule(c) ==
    /\ At(c, "save") /\ Writer[c] = "rule"
    /\ \/ file' = job[c].copy /\ UNCHANGED bad
       \/ Fault /\ UNCHANGED file
    /\ Answer(c, "ok")
    /\ UNCHANGED <<live, lock, reset>>

\* The server stops, and load_config reads the file at its start: a file that
\* cannot be read gives the defaults, which are saved over it when the login
\* is on and no token is set.
Restart ==
    /\ Fault
    /\ \E damaged \in BOOLEAN, saved \in BOOLEAN :
         /\ live' = IF damaged THEN {} ELSE file
         /\ file' = IF damaged /\ saved THEN {} ELSE file
         /\ reset' = (reset \/ damaged)
    /\ lock' = Free
    /\ job' = [c \in Change |-> IF At(c, "idle") \/ At(c, "done") THEN job[c]
                                ELSE [job[c] EXCEPT !.pc = "done", !.result = "lost"]]

Next ==
    \/ \E c \in Change : \/ Begin(c) \/ Save(c) \/ SaveFails(c) \/ Update(c)
                         \/ AddRule(c) \/ SaveRule(c)
    \/ Restart

Spec == Init /\ [][Next]_vars

-----------------------------------------------------------------------------
Rules == {c \in Change : Writer[c] = "rule"}
Acked(kinds) == {c \in Change : job[c].result = "ok" /\ Writer[c] \in kinds}

\* A change made under the lock and answered ok is not undone by another: it is
\* in the running configuration, and in the file too as long as no rule was
\* added without the lock (services.py:1406, onboarding.py:42).
LockedKept ==
    ~reset => /\ (\A c \in Rules : At(c, "idle"))
                   => Acked({"settings", "device"}) \subseteq file
              /\ (\A c \in Rules : At(c, "idle")) \/ bad = 0
                   => Acked({"settings", "device"}) \subseteq live

\* A refused change has no effect that lasts (onboarding.py:53: "the current
\* settings are not changed").
RefusedHasNoEffect ==
    \A c \in Change : job[c].result = "error" => c \notin live /\ c \notin file

\* server.py:1394: a rule answered ok is in the list that is used.
RuleKept == ~reset => Acked({"rule"}) \subseteq live

=============================================================================
