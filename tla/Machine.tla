------------------------------ MODULE Machine ------------------------------
(* What a node keeps on its machine: config.yaml and the copy that the      *)
(* ConfigManager holds (config.py), the task that starts the node with the  *)
(* machine and the old key of the registry (system/service.py), the program *)
(* and its directory, and the emergency removal of all of it (purge).  The  *)
(* handlers run on one loop: what has no await in it is one step, except    *)
(* for the purge, between whose items the node or the machine may fail.     *)
EXTENDS Naturals, FiniteSets

CONSTANTS Peer, Name,
          Frozen,      \* the node is the built program, not the sources
          Enabled,     \* purge.enabled
          Choices,     \* sets of items that somebody purges
          MaxFaults, MaxCalls

VARIABLES file,      \* config.yaml
          cfg,       \* ConfigManager.cfg
          task, key, \* what starts the node by itself
          exe, work, left,   \* the program, its data, what updates left behind
          node,      \* the process
          starter,   \* the detached cmds of purges: what each deletes
          adding,    \* connect_to_node: peers whose connection is awaited
          todo,      \* items of the purge under way that are left
          asked,     \* items of the purges so far
          wiped,     \* items that a purge reported as removed
          edited,    \* config.yaml was changed or removed since it was read
          calls, faults

vars == <<file, cfg, task, key, exe, work, left, node, starter, adding, todo, asked,
          wiped, edited, calls, faults>>

\* The order of a purge; the end of the process comes last.
Order == <<"autorun_task", "autorun_registry", "config", "work_dir", "update_leftovers",
           "exe", "process">>
Items == {Order[n] : n \in DOMAIN Order}
None == "none"
NoFile == [name |-> None, peers |-> {}, full |-> FALSE]
Default == CHOOSE n \in Name : TRUE

TypeOK ==
    /\ file \in [name : Name \cup {None}, peers : SUBSET Peer, full : BOOLEAN]
    /\ cfg \in [name : Name, peers : SUBSET Peer]
    /\ task \in BOOLEAN /\ key \in BOOLEAN
    /\ exe \in {"there", "renamed", "gone"}
    /\ work \in BOOLEAN /\ left \in BOOLEAN
    /\ node \in {"off", "on", "leaving"}
    /\ starter \subseteq {"there", "renamed"}
    /\ adding \subseteq Peer
    /\ todo \subseteq Items /\ asked \subseteq Items /\ wiped \subseteq Items
    /\ edited \in BOOLEAN
    /\ calls \in 0 .. MaxCalls /\ faults \in 0 .. MaxFaults

Init ==
    /\ file \in {NoFile, [name |-> Default, peers |-> {}, full |-> FALSE]}
    /\ cfg = [name |-> Default, peers |-> {}]
    /\ task \in BOOLEAN /\ key = FALSE
    /\ exe = "there" /\ work = TRUE /\ left \in BOOLEAN
    /\ node = "off" /\ starter = {}
    /\ adding = {} /\ todo = {} /\ asked = {} /\ wiped = {} /\ edited = FALSE
    /\ calls = 0 /\ faults = 0

Fault == faults < MaxFaults /\ faults' = faults + 1
Works == UNCHANGED faults
Free == node # "off" /\ todo = {}
Called == Free /\ calls < MaxCalls /\ calls' = calls + 1

autoVars == <<task, key>>
diskVars == <<exe, work, left>>
purgeVars == <<starter, todo, asked, wiped>>

-----------------------------------------------------------------------------
\* ConfigManager.
Exists == file.name # None \/ file.full \/ file.peers # {}

\* _load: a missing file is created, missing fields are filled in, node ids are
\* brought to lower case and peers named twice merged; what changed is saved.
Loaded == [name |-> IF file.name = None THEN Default ELSE file.name, peers |-> file.peers,
           full |-> TRUE]

\* add_peer: the file is read again and written; no file is an empty one.
Added(p) == [file EXCEPT !.peers = @ \cup {p}]
AddPeer(p) ==
    IF p \in file.peers THEN UNCHANGED <<file, cfg>>
    ELSE file' = Added(p) /\ cfg' = [cfg EXCEPT !.peers = @ \cup {p}]

\* Mutant: the manager keeps the peer.
CfgKept(p) == cfg
CfgWithout(p) == [cfg EXCEPT !.peers = @ \ {p}]
DropPeer(p) ==
    IF p \notin file.peers THEN UNCHANGED <<file, cfg>>
    ELSE file' = [file EXCEPT !.peers = @ \ {p}] /\ cfg' = CfgWithout(p)

\* update: what the file says, with the change, is the new configuration.
Renamed(n) ==
    /\ file' = [file EXCEPT !.name = n]
    /\ cfg' = [name |-> n, peers |-> file.peers]

-----------------------------------------------------------------------------
\* The process.
Starts ==
    /\ node = "off" /\ node' = "on"
    /\ file' = Loaded /\ cfg' = [name |-> Loaded.name, peers |-> Loaded.peers]
    /\ adding' = {} /\ edited' = FALSE
    /\ UNCHANGED <<autoVars, diskVars, todo, asked, wiped, calls, faults>>

\* The machine starts, with no cmd left, and the task runs the program.
Boots == task /\ exe = "there" /\ starter' = {} /\ Starts
\* Somebody starts it.
ByHand == (exe = "there" \/ ~Frozen) /\ Starts /\ UNCHANGED starter

\* The process ends, wherever it is.
Stops ==
    /\ node # "off" /\ Fault /\ node' = "off" /\ adding' = {} /\ todo' = {}
    /\ UNCHANGED <<file, cfg, autoVars, diskVars, starter, asked, wiped, edited, calls>>

\* An administrator edits config.yaml of a node that runs.
HandEdits ==
    /\ node = "on" /\ Exists /\ Fault /\ edited' = TRUE
    /\ \E n \in Name, ps \in SUBSET Peer, full \in BOOLEAN :
         file' = [name |-> n, peers |-> ps, full |-> full]
    /\ UNCHANGED <<cfg, autoVars, diskVars, node, purgeVars, adding, calls>>

-----------------------------------------------------------------------------
\* system/service.py.
\* connect_to_node dials and looks twice a second, ten times, whether the peer
\* is connected; only then it is saved.
Connect(p) ==
    /\ Called /\ p \notin adding
    /\ adding' = adding \cup {p}
    /\ UNCHANGED <<file, cfg, autoVars, diskVars, node, purgeVars, edited, faults>>

Connected(p) ==
    /\ Free /\ p \in adding
    /\ adding' = adding \ {p}
    /\ AddPeer(p)
    /\ UNCHANGED <<autoVars, diskVars, node, purgeVars, edited, calls, faults>>

NotConnected(p) ==
    /\ Free /\ p \in adding
    /\ adding' = adding \ {p}
    /\ UNCHANGED <<file, cfg, autoVars, diskVars, node, purgeVars, edited, calls, faults>>

RemovePeer(p) ==
    /\ Called /\ DropPeer(p)
    /\ UNCHANGED <<autoVars, diskVars, node, purgeVars, adding, edited, faults>>

RenameNode(n) ==
    /\ Called /\ Renamed(n)
    /\ UNCHANGED <<autoVars, diskVars, node, purgeVars, adding, edited, faults>>

\* schtasks, which may fail.
AutorunEnable ==
    /\ Called
    /\ \/ task' = TRUE /\ Works
       \/ Fault /\ UNCHANGED task
    /\ wiped' = wiped \ {"autorun_task"}
    /\ UNCHANGED <<file, cfg, key, diskVars, node, starter, todo, adding, asked, edited>>

\* The task and the old key, each of which may stay.
AutorunDisable ==
    /\ Called
    /\ \/ task' = FALSE /\ key' = FALSE /\ Works
       \/ Fault /\ task' = FALSE /\ UNCHANGED key
       \/ Fault /\ key' = FALSE /\ UNCHANGED task
    /\ UNCHANGED <<file, cfg, diskVars, node, purgeVars, adding, edited>>

-----------------------------------------------------------------------------
\* purge/service.py.
\* purge: confirmed, items of the plan only.  With the program goes the process.
Purge(items) ==
    /\ Called /\ Enabled /\ items # {}
    /\ todo' = items \cup (IF "exe" \in items THEN {"process"} ELSE {})
    /\ asked' = asked \cup items
    /\ UNCHANGED <<file, cfg, autoVars, diskVars, node, starter, adding, wiped, edited,
                   faults>>

\* _exec_item: one item after the other, in the order above.  An item that
\* raises is left out, and the next one follows.
Item(i) ==
    /\ i \in todo /\ todo' = todo \ {i}
    /\ \A n, m \in DOMAIN Order : Order[n] = i /\ Order[m] \in todo => n <= m
    /\ UNCHANGED <<cfg, adding, asked, calls>>
Wiped(i) == wiped' = wiped \cup {i}

\* A task that could not be deleted is reported as deleted.
PurgeTask ==
    /\ Item("autorun_task") /\ Wiped("autorun_task")
    /\ \/ task' = FALSE /\ Works
       \/ Fault /\ UNCHANGED task
    /\ UNCHANGED <<file, key, diskVars, node, starter, edited>>

PurgeKey ==
    /\ Item("autorun_registry")
    /\ \/ key' = FALSE /\ Wiped("autorun_registry") /\ Works
       \/ Fault /\ UNCHANGED <<key, wiped>>
    /\ UNCHANGED <<file, task, diskVars, node, starter, edited>>

PurgeConfig ==
    /\ Item("config")
    /\ \/ file' = NoFile /\ edited' = TRUE /\ Wiped("config") /\ Works
       \/ Fault /\ UNCHANGED <<file, edited, wiped>>
    /\ UNCHANGED <<autoVars, diskVars, node, starter>>

\* Everything in the directory but the program: config.yaml that lies beside it
\* too.  What cannot be removed stays; a dangerous directory is refused.
PurgeWorkDir ==
    /\ Item("work_dir")
    /\ \/ UNCHANGED <<file, work, left, edited, wiped, faults>>
       \/ /\ file' = NoFile /\ work' = FALSE /\ left' = FALSE /\ edited' = TRUE
          /\ Wiped("work_dir") /\ Works
       \/ /\ Fault /\ Wiped("work_dir")
          /\ file' \in {file, NoFile} /\ work' \in {work, FALSE} /\ left' \in {left, FALSE}
          /\ edited' = (edited \/ file' # file)
    /\ UNCHANGED <<autoVars, exe, node, starter>>

PurgeLeftovers ==
    /\ Item("update_leftovers")
    /\ \/ left' = FALSE /\ Wiped("update_leftovers") /\ Works
       \/ Fault /\ UNCHANGED <<left, wiped>>
    /\ UNCHANGED <<file, autoVars, exe, work, node, starter, edited>>

\* Mutant: the program of a built node is not moved.
ProgramLeft == exe

\* A program that runs can be moved; sources are left alone.
Program == IF Frozen /\ exe = "there" THEN "renamed" ELSE exe
PurgeExe ==
    /\ Item("exe")
    /\ \/ /\ Frozen /\ exe = "there" /\ exe' = Program /\ Wiped("exe") /\ Works
       \/ Fault /\ UNCHANGED <<exe, wiped>>
       \/ ~(Frozen /\ exe = "there") /\ UNCHANGED <<exe, wiped, faults>>
    /\ UNCHANGED <<file, autoVars, work, left, node, starter, edited>>

\* _schedule_self_destruct: the cmd is told to delete the program, whatever was
\* chosen; without the cmd the node does not leave.
PurgeProcess ==
    /\ Item("process")
    /\ \/ /\ node' = "leaving" /\ Works
          /\ starter' = starter \cup {IF exe = "renamed" THEN "renamed" ELSE "there"}
       \/ Fault /\ UNCHANGED <<node, starter>>
    /\ UNCHANGED <<file, autoVars, diskVars, wiped, edited>>

PurgeStep == \/ PurgeTask \/ PurgeKey \/ PurgeConfig \/ PurgeWorkDir
             \/ PurgeLeftovers \/ PurgeExe \/ PurgeProcess

\* os._exit, three seconds after the answer.
Leaves ==
    /\ node = "leaving" /\ todo = {} /\ node' = "off" /\ adding' = {}
    /\ UNCHANGED <<file, cfg, autoVars, diskVars, purgeVars, edited, calls, faults>>

\* A cmd waits three seconds too, and a program that runs is not deleted.
StarterRuns ==
    /\ \E v \in starter :
          /\ starter' = starter \ {v}
          /\ exe' = IF exe = v /\ (node = "off" \/ ~Frozen) THEN "gone" ELSE exe
    /\ UNCHANGED <<file, cfg, autoVars, work, left, node, adding, todo, asked, wiped,
                   edited, calls, faults>>

Next ==
    \/ Boots \/ ByHand \/ Stops \/ HandEdits
    \/ \E p \in Peer : Connect(p) \/ Connected(p) \/ NotConnected(p) \/ RemovePeer(p)
    \/ \E n \in Name : RenameNode(n)
    \/ AutorunEnable \/ AutorunDisable
    \/ \E items \in Choices : Purge(items)
    \/ PurgeStep
    \/ Leaves \/ StarterRuns

Spec == Init /\ [][Next]_vars

-----------------------------------------------------------------------------
\* The configuration in memory is the one of the file, as long as the file was
\* neither edited by hand nor purged since the node read it (config.py:309); it
\* is purged with the directory too (purge/service.py:279).
ConfigAgrees ==
    node # "off" /\ ~edited
      => file.peers = cfg.peers /\ file.name = cfg.name /\ file.full

\* A built node whose program a purge has removed does not come back, wherever
\* the purge was cut off (purge/service.py:3).
StaysRemoved == Frozen /\ "exe" \in wiped => exe # "there"

\* purge/service.py:193: the choice "process" stops the node; the program is
\* deleted when it was chosen.
OnlyAsked == exe # "there" => "exe" \in asked

\* purge/service.py:318: the starter waits until the node has left, and deletes.
StarterDeletes ==
    "exe" \in wiped /\ node = "off" /\ starter = {} => exe = "gone"

\* purge/service.py:3: the configuration that was removed is gone.
ConfigGone == "config" \in wiped => ~Exists

=============================================================================
