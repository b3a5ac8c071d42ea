-------------------------------- MODULE Node --------------------------------
(* Parts of a node, whose models share no variable: the updater, the editor *)
(* of config.yaml, the downloads, the certificates, the web panel, what a   *)
(* node keeps on its machine, the loader of the services.  A behaviour is   *)
(* about one of them, chosen at the start; the others stand still.  In the  *)
(* program the editor and the machine's part both write config.yaml, and    *)
(* the updater and a purge both move the program; those meetings are left   *)
(* out, but for HandEdits of Machine, which stands for the editor's writes. *)
EXTENDS Integers

CONSTANTS MaxVersion, Broken, Mismatched, RequireSigned, AllowDowngrade,
          Callers, Mishaps,                             \* of the updater
          Edit, Body, Good, Partial, Secret, FirstText, Keep, MaxTime, \* of config.yaml
          Label, Chunks, Batch, Buff,                   \* of the downloads
          Holder, Cert, FirstCerts, Request, Kind, Site, Server, \* of the certificates
          Tab, Click, Of,                               \* of the panel
          Peer, Name, Frozen, Enabled, Choices, MaxCalls, \* of the machine
          MaxMade, Method, Methods,                     \* of the loader
          MaxFaults     \* bound on the faults of a part other than the updater

VARIABLES which,
          exe, old, upd, staged, st, known, node, helper, relaunch, job, mishaps,
          file, tmp, backups, live, saves, hold, mixed, alone, clash,
          dl, serve, gen, fwd, back, registry, pipe, broken, con, part, final, faults,
          pin, local, on, gone, loop, link, wire, asked, request, outages, held,
          host, port, guard, tab, peer, call, pending, results, barred, drops,
          disk, cfg, task, key, program, work, left, process, starter, adding, todo,
          chosen, wiped, edited, clicks, crashes,
          phase, pos, modules, reg, meth, runs, made, swap, away, overlap, late, early,
          failures

U == INSTANCE Update WITH MaxFaults <- Mishaps, faults <- mishaps
C == INSTANCE ConfigFile WITH Call <- Edit, First <- FirstText, call <- saves
T == INSTANCE Transfer WITH call <- serve
S == INSTANCE Certs WITH Node <- Holder, First <- FirstCerts, Job <- Request,
        job <- request, faults <- outages
P == INSTANCE Panel WITH Call <- Click, node <- host, faults <- drops
M == INSTANCE Machine WITH file <- disk, exe <- program, node <- process,
        asked <- chosen, calls <- clicks, faults <- crashes
L == INSTANCE Loader WITH MaxVersion <- MaxMade, Name <- Method, on <- runs,
        faults <- failures

Parts == {"update", "config", "transfer", "certs", "panel", "machine", "loader"}

\* What the code fixes of the sizes: a version is installed; the file is valid at
\* the start, one that is cut off is a text, and a backup is kept at least
\* (config/service.py:41); a batch is a chunk at least (memory.py:155); two nodes
\* of an index, whose calls are of four kinds; a call is of one tab; a node has a
\* name and a purge is of items there are (purge/service.py:35); a service is
\* loaded anew at least once.
UpdateSized == MaxVersion \in Nat \ {0} /\ Mishaps \in Nat
ConfigSized == /\ Good \subseteq Body /\ Partial \subseteq Body /\ Partial # {}
               /\ FirstText \in C!Valid /\ C!Void \notin Body
               /\ Keep \in Nat \ {0} /\ MaxTime \in Nat \ {0}
TransferSized == /\ Chunks \in Nat /\ Batch \in Nat \ {0} /\ Buff \in Nat
                 /\ MaxFaults \in Nat
CertsSized == /\ Server \in Holder /\ \A n, m \in Holder \ {Server} : n = m
              /\ FirstCerts \in [Holder -> SUBSET Cert] /\ Site \in [Request -> Holder]
              /\ \A r \in Request : Kind[r] \subseteq {"fetch", "load", "fix", "delete"}
              /\ MaxFaults \in Nat
PanelSized == Of \in [Click -> Tab] /\ MaxFaults \in Nat
MachineSized == /\ Name # {} /\ Choices \subseteq SUBSET M!Items
                /\ MaxFaults \in Nat /\ MaxCalls \in Nat
LoaderSized == MaxMade \in Nat /\ MaxMade >= 2 /\ MaxFaults \in Nat
ASSUME Sizes == /\ UpdateSized /\ ConfigSized /\ TransferSized /\ CertsSized
                /\ PanelSized /\ MachineSized /\ LoaderSized

updateVars == <<exe, old, upd, staged, st, known, node, helper, relaunch, job, mishaps>>
configVars == <<file, tmp, backups, live, saves, hold, mixed, alone, clash>>
streamVars == <<dl, serve, gen, fwd, back, registry, pipe, broken, con, part, final, faults>>
certVars == <<pin, local, on, gone, loop, link, wire, asked, request, outages, held>>
panelVars == <<host, port, guard, tab, peer, call, pending, results, barred, drops>>
machineVars == <<disk, cfg, task, key, program, work, left, process, starter, adding, todo,
                 chosen, wiped, edited, clicks, crashes>>
loaderVars == <<phase, pos, modules, reg, meth, runs, made, swap, away, overlap, late, early,
                failures>>
vars == <<which, updateVars, configVars, streamVars, certVars, panelVars,
          machineVars, loaderVars>>

Init == /\ which \in Parts
        /\ U!Init /\ C!Init /\ T!Init /\ S!Init /\ P!Init /\ M!Init /\ L!Init
        \* The parts that stand still begin in one way only.
        /\ which # "panel" => guard
        /\ which # "machine" => task /\ left /\ disk = M!NoFile
        /\ which # "loader" => made = 1

Updates == /\ which = "update" /\ U!Next
           /\ UNCHANGED <<which, configVars, streamVars, certVars, panelVars,
                          machineVars, loaderVars>>
Edits == /\ which = "config" /\ C!Next
         /\ UNCHANGED <<which, updateVars, streamVars, certVars, panelVars,
                        machineVars, loaderVars>>
Downloads == /\ which = "transfer" /\ T!Next
             /\ UNCHANGED <<which, updateVars, configVars, certVars, panelVars,
                            machineVars, loaderVars>>
Certifying == /\ which = "certs" /\ S!Next
              /\ UNCHANGED <<which, updateVars, configVars, streamVars, panelVars,
                             machineVars, loaderVars>>
Looking == /\ which = "panel" /\ P!Next
           /\ UNCHANGED <<which, updateVars, configVars, streamVars, certVars,
                          machineVars, loaderVars>>
Keeping == /\ which = "machine" /\ M!Next
           /\ UNCHANGED <<which, updateVars, configVars, streamVars, certVars,
                          panelVars, loaderVars>>
Loading == /\ which = "loader" /\ L!Next
           /\ UNCHANGED <<which, updateVars, configVars, streamVars, certVars,
                          panelVars, machineVars>>

Next == \/ Updates \/ Edits \/ Downloads \/ Certifying
        \/ Looking \/ Keeping \/ Loading

Spec == Init /\ [][Next]_vars

\* The fairness of the parts; a part that stands still is owed nothing.
FairSpec ==
    /\ Spec
    /\ WF_updateVars(which = "update" /\ U!NodeStep)
    /\ WF_updateVars(which = "update" /\ U!HelperStep)
    /\ WF_streamVars(which = "transfer" /\ T!ReaderStep)
    /\ \A l \in Label : /\ WF_streamVars(which = "transfer" /\ T!SourceStep(l))
                        /\ WF_streamVars(which = "transfer" /\ T!ConsumerStep(l))
    /\ \A n \in Holder : WF_certVars(which = "certs" /\ S!LoopStep(n))
    /\ \A n \in Holder : WF_certVars(which = "certs" /\ \E m \in Holder : S!Sync(n, m))
    /\ WF_certVars(which = "certs" /\ S!MergeAnswer)

-----------------------------------------------------------------------------
\* The types of the parts.
TypesOK == /\ U!TypeOK /\ C!TypeOK /\ T!TypeOK /\ S!TypeOK /\ P!TypeOK /\ M!TypeOK
           /\ L!TypeOK

\* What runs is what should run.  Self-update (updater.py, update.py): a program
\* to go back to is at hand and none is replaced under a running node.  The panel
\* (webpanel/service.py): the node starts and stops its own, and hears one client.
\* The services (loader.py): one instance serves, runs and is stopped.
ProgramsSafe == /\ U!RollbackReady /\ U!NotUnderfoot
                /\ P!PanelIsOwn /\ P!OneHeard
                /\ L!LoaderSound

\* What is under way, of a download l where it is about downloads, and its end.
Due(l) == CASE which = "update" -> U!UpdateDue
            [] which = "transfer" -> T!DownloadDue(l)
            [] which = "certs" -> ~S!Agrees
            [] OTHER -> FALSE
Over(l) == CASE which = "update" -> U!UpdateOver
             [] which = "transfer" -> T!DownloadOver(l)
             [] OTHER -> S!Agrees

\* config.yaml (config/service.py, config.py): it stays valid, what a save
\* replaces can be restored, the node uses what it says, and what a purge has
\* removed stays removed (purge/service.py:188).
ConfigSound == /\ C!FileRecoverable /\ C!SavedIsLive
               /\ M!ConfigAgrees /\ M!StaysRemoved

\* What is told to be there is there: a file that has its name is whole
\* (files/service.py), a certificate that is offered or reported as installed
\* (certs_index.py:148), an answer somebody waits for (rpc_client.py:195).
HeldAsTold == /\ T!FileIsWhole
              /\ S!OffersHeld /\ S!InstalledIsThere
              /\ P!NothingLeft

\* updater.py:21: after MAX_ATTEMPTS .old comes back; it comes back once.
RollsBackOnce == U!RollsBackOnce

\* memory.py:240: when the pump has ended the producer ends too.
ProducerReleased == T!ProducerReleased

=============================================================================
