------------------------------- MODULE LanScan -------------------------------
(* The scan of the local network (services.py, LANNetworkScanner), asked for *)
(* by its loop and by jobs, one at a time; each address found is written to  *)
(* the table, and one that is new is told.                                   *)
EXTENDS Integers, FiniteSets

CONSTANTS Scanner,   \* the loop and the jobs that call scan
          Mac,
          Trusted,   \* lan.trusted_macs
          MaxFaults

VARIABLES lock,     \* who holds _scan_lock, or 0
          scanning,
          result,   \* last_result
          known,    \* known_macs
          table,    \* lan_devices
          told,     \* mac -> alerts LAN_NEW_DEVICE
          run,      \* scanner -> where it stands and what is left of its scan
          forgot,   \* whether the table was not written, or not read at a start
          faults

vars == <<lock, scanning, result, known, table, told, run, forgot, faults>>

TypeOK ==
    /\ lock \in Scanner \cup {0} /\ scanning \in BOOLEAN
    /\ result \subseteq Mac /\ known \subseteq Mac /\ table \subseteq Mac
    /\ told \in [Mac -> 0 .. 2]
    /\ run \in [Scanner -> [pc : {"rest", "probe", "row", "tell", "free"},
                            left : SUBSET Mac, mac : Mac \cup {0}, got : SUBSET Mac]]
    /\ forgot \in BOOLEAN /\ faults \in 0 .. MaxFaults

Rest == [pc |-> "rest", left |-> {}, mac |-> 0, got |-> {}]

Init ==
    /\ lock = 0 /\ scanning = FALSE
    /\ result = {} /\ known = {} /\ table = {}
    /\ told = [m \in Mac |-> 0]
    /\ run = [s \in Scanner |-> Rest]
    /\ forgot = FALSE /\ faults = 0

At(s, pc) == run[s].pc = pc
devices == <<known, table, told>>

-----------------------------------------------------------------------------
\* Mutant: the flag that the page shows serves as the lock.
FreeLate(s) == ~scanning

Free(s) == lock = 0

\* scan: refused while another one is under way.
Start(s) ==
    /\ At(s, "rest") /\ Free(s)
    /\ lock' = s
    /\ run' = [run EXCEPT ![s].pc = "probe"]
    /\ UNCHANGED <<scanning, result, devices, forgot, faults>>

\* The flag, the empty result; then who answers the pings or is in the ARP table.
Probe(s) ==
    /\ At(s, "probe")
    /\ scanning' = TRUE /\ result' = {}
    /\ \E found \in SUBSET Mac :
         run' = [run EXCEPT ![s] = [Rest EXCEPT !.pc = "row", !.left = found]]
    /\ UNCHANGED <<lock, devices, forgot, faults>>

\* An address: its row first ...
Row(s) ==
    /\ At(s, "row")
    /\ \E m \in run[s].left :
         /\ table' = table \cup {m}
         /\ run' = [run EXCEPT ![s].pc = "tell", ![s].mac = m, ![s].left = @ \ {m},
                               ![s].got = @ \cup {m}]
    /\ UNCHANGED <<lock, scanning, result, known, told, forgot, faults>>

\* ... whose failure nobody hears of ...
RowFails(s) ==
    /\ At(s, "row") /\ faults < MaxFaults
    /\ faults' = faults + 1 /\ forgot' = TRUE
    /\ \E m \in run[s].left :
         run' = [run EXCEPT ![s].pc = "tell", ![s].mac = m, ![s].left = @ \ {m},
                            ![s].got = @ \cup {m}]
    /\ UNCHANGED <<lock, scanning, result, devices>>

\* Mutant: what has a row is not new.
IsNewRow(m) == m \notin table

IsNew(m) == m \notin known
Noted(m) == known \cup {m}

\* ... then the alert, if it is new and nobody trusts it, and the set.
Tell(s) ==
    /\ At(s, "tell")
    /\ LET m == run[s].mac
       IN  /\ told' = IF IsNew(m) /\ m \notin Trusted
                        THEN [told EXCEPT ![m] = IF @ = 2 THEN 2 ELSE @ + 1] ELSE told
           /\ known' = Noted(m)
    /\ run' = [run EXCEPT ![s].pc = "row", ![s].mac = 0]
    /\ UNCHANGED <<lock, scanning, result, table, forgot, faults>>

\* The end: all addresses have their rows ...
Publish(s) ==
    /\ At(s, "row") /\ run[s].left = {}
    /\ result' = run[s].got
    /\ run' = [run EXCEPT ![s] = [Rest EXCEPT !.pc = "free"]]
    /\ UNCHANGED <<lock, scanning, devices, forgot, faults>>

\* ... or an exception before there is a first one.
Fails(s) ==
    /\ At(s, "probe") /\ faults < MaxFaults
    /\ faults' = faults + 1
    /\ run' = [run EXCEPT ![s] = [Rest EXCEPT !.pc = "free"]]
    /\ UNCHANGED <<lock, scanning, result, devices, forgot>>

\* finally: the flag, then the lock.
Release(s) ==
    /\ At(s, "free")
    /\ IF scanning THEN scanning' = FALSE /\ UNCHANGED <<lock, run>>
       ELSE lock' = 0 /\ run' = [run EXCEPT ![s] = Rest] /\ UNCHANGED scanning
    /\ UNCHANGED <<result, devices, forgot, faults>>

\* A restart reads the table; if it cannot, nothing is known.
Restart ==
    /\ faults < MaxFaults
    /\ faults' = faults + 1
    /\ lock' = 0 /\ scanning' = FALSE /\ result' = {}
    /\ run' = [s \in Scanner |-> Rest]
    /\ \/ known' = table /\ UNCHANGED forgot
       \/ known' = {} /\ forgot' = TRUE
    /\ UNCHANGED <<table, told>>

Next == \/ \E s \in Scanner : \/ Start(s) \/ Probe(s) \/ Row(s) \/ RowFails(s) \/ Tell(s)
                              \/ Publish(s) \/ Fails(s) \/ Release(s)
        \/ Restart

Spec == Init /\ [][Next]_vars

-----------------------------------------------------------------------------
\* One scan runs at a time; an address is told once, however many scans find
\* it, and over restarts too unless the table could not be written or read;
\* what is in the table has been told or is trusted, unless a restart came
\* between the row and the alert (services.py:468).
LanTold ==
    /\ \A s, t \in Scanner : ~At(s, "rest") /\ ~At(t, "rest") => s = t
    /\ ~forgot => \A m \in Mac : told[m] <= 1
    /\ faults = 0 => \A m \in table \ Trusted :
                        told[m] >= 1 \/ \E s \in Scanner : run[s].mac = m

=============================================================================
