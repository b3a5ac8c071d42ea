------------------------------ MODULE MCMonitor ------------------------------
(* Small instances of the parts of the monitoring service.                   *)
EXTENDS Monitor

CONSTANTS t1, t2,      \* threads and requests
          a, b         \* addresses, targets, tasks, resources, checks

MCRate == [k \in AlertKind |-> 2]

\* A backup that is stale at once and one that is not, seen by two threads;
\* works; checks, by two threads.
Only(name, set) == [mix \in Duty |-> IF mix = name THEN set ELSE {}]
MCResource == Only("backups", {a, b})
MCTask == Only("works", {a, b})
MCCustom == Only("checks", {a, b})
MCEvery == [mix \in Duty |-> [x \in {a, b} |-> 1]]
MCStale == [mix \in Duty |-> [r \in {a, b} |-> IF r = a THEN 0 ELSE 1]]
MCRunner == [mix \in Duty |-> IF mix = "works" THEN {t1} ELSE {t1, t2}]
MCMoments == [mix \in Duty |-> IF mix = "works" THEN 2 ELSE 1]
MCMaxDuty == [backups |-> 1, works |-> 4, checks |-> 0]

\* What a scan of the security window can come across.
MCItem == {[cat |-> "connections", port |-> 1], [cat |-> "connections", port |-> 2],
           [cat |-> "processes", listed |-> FALSE, temporary |-> TRUE],
           [cat |-> "hosts", local |-> FALSE, known |-> FALSE],
           [cat |-> "autorun", temporary |-> FALSE]}

\* The desktop: its training, its dialogs and badge, its end.
MCSource == [mix \in Use |-> IF mix = "leaving" THEN {"sniffer", "pinger"} ELSE {"pinger"}]
MCAi == [mix \in Use |-> mix = "training"]
MCDialogs == [mix \in Use |-> mix = "dialogs"]
MCMaxRaised == [training |-> 0, dialogs |-> 1, leaving |-> 0]
MCMaxSample == [training |-> 0, dialogs |-> 0, leaving |-> 3]
MCMaxModel == [training |-> 2, dialogs |-> 0, leaving |-> 0]

=============================================================================
