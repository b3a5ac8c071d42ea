--------------------------------- MODULE Ids ---------------------------------
(* The process monitor (services.py, ProcessMonitor): one thread samples the *)
(* connections every two seconds, one after the other against what it knew   *)
(* before the sample, counts the ports that an address touches, and raises   *)
(* alerts, each text once as far as its list of events is looked at.         *)
EXTENDS Integers, Sequences, FiniteSets

CONSTANTS Ip, Port, Pid,
          Suspicious,  \* ports
          Threshold,   \* scan_detection_threshold
          Cutoff,      \* samples after which an endpoint is forgotten
          Pause,       \* samples between two alerts about one endpoint
          Keep, Look,  \* how long the list is (150), how much of it is read (10)
          MaxFresh

Endpoint == Ip \X Port
Key == Pid \X Endpoint
Never == -1

VARIABLES seen,    \* _seen_endpoints: samples ago, or Never
          met,     \* seen_now: the keys this sample has come to
          scan,    \* _scan_window
          last,    \* _last_alert of suspicious endpoints: samples ago, or Never
          events,  \* ids_events, the newest first
          told,    \* texts push_alert was called with
          fresh,   \* address -> connections that were new so far
          raised   \* address -> scans raised so far

vars == <<seen, met, scan, last, events, told, fresh, raised>>

Text == [type : {"scan"}, about : Ip] \cup [type : {"port"}, about : Key]

TypeOK ==
    /\ seen \in [Key -> Never .. Cutoff] /\ met \subseteq Key
    /\ last \in [Endpoint -> Never .. Pause]
    /\ scan \in [Ip -> SUBSET Port]
    /\ \A n \in DOMAIN events : events[n] \in Text
    /\ Len(events) <= Keep
    /\ told \subseteq Text
    /\ fresh \in [Ip -> 0 .. MaxFresh] /\ raised \in [Ip -> 0 .. MaxFresh]

Init ==
    /\ seen = [k \in Key |-> Never] /\ met = {} /\ last = [e \in Endpoint |-> Never]
    /\ scan = [i \in Ip |-> {}]
    /\ events = <<>> /\ told = {}
    /\ fresh = [i \in Ip |-> 0] /\ raised = [i \in Ip |-> 0]

-----------------------------------------------------------------------------
\* The ports an address has touched with new connections; nothing takes one out
\* but an alert.
Ports(e) == scan[e[1]] \cup {e[2]}
IsScan(e) == Cardinality(Ports(e)) >= Threshold

\* Mutant: the set of ports is not emptied by the alert.
ClearedNot(e) == Ports(e)

Cleared(e) == IF IsScan(e) THEN {} ELSE Ports(e)

\* A suspicious endpoint that no rule excuses, again after a pause.
IsPort(e, excused) ==
    e[2] \in Suspicious /\ ~excused /\ (last[e] = Never \/ last[e] >= Pause)

ScanText(k) == [type |-> "scan", about |-> k[2][1]]
PortText(k) == [type |-> "port", about |-> k]

\* Mutant: the event is listed first, and found.
FoundItself(list, x) == TRUE

\* list[-10:] of a list whose newest element comes first: the oldest ten.
Found(list, x) ==
    \E n \in DOMAIN list : n > Len(list) - Look /\ list[n] = x

\* Mutant: the list has no bound.
ListedAll(list, x) == <<x>> \o list

\* _raise_ids: the event is listed; it is told unless its text is found.
Listed(list, x) == SubSeq(<<x>> \o list, 1, IF Len(list) < Keep THEN Len(list) + 1 ELSE Keep)
Raise(state, x) ==
    [list |-> Listed(state.list, x),
     told |-> IF Found(state.list, x) THEN state.told ELSE state.told \cup {x}]

\* A new connection: the scan first, then the suspicious port.
Judge(k, excused) ==
    LET before == [list |-> events, told |-> told]
        scanned == IF IsScan(k[2]) THEN Raise(before, ScanText(k)) ELSE before
    IN  IF IsPort(k[2], excused) THEN Raise(scanned, PortText(k)) ELSE scanned

\* A connection of the sample that is known, in a state that does not count, of
\* this machine itself, or met while nothing is to be detected.
Passes(k) ==
    /\ met' = met \cup {k}
    /\ UNCHANGED <<seen, scan, last, events, told, fresh, raised>>

\* One that is new to the last samples, though perhaps not to this one.
Meets(k, excused) ==
    LET e == k[2]  after == Judge(k, excused)
    IN  /\ seen[k] = Never /\ fresh[e[1]] < MaxFresh
        /\ met' = met \cup {k}
        /\ scan' = [scan EXCEPT ![e[1]] = Cleared(e)]
        /\ last' = IF IsPort(e, excused) THEN [last EXCEPT ![e] = 0] ELSE last
        /\ events' = after.list
        /\ told' = after.told
        /\ fresh' = [fresh EXCEPT ![e[1]] = @ + 1]
        /\ raised' = [raised EXCEPT ![e[1]] = IF IsScan(e) THEN @ + 1 ELSE @]
        /\ UNCHANGED seen

Older(e) == IF last[e] = Never \/ last[e] = Pause THEN last[e] ELSE last[e] + 1

\* What the sample met is seen now; others are forgotten after the cut-off.
Seen(k) ==
    IF k \in met THEN 0
    ELSE IF seen[k] # Never /\ seen[k] + 1 < Cutoff THEN seen[k] + 1 ELSE Never

\* The end of the sample, and the time until the next one.
SampleEnds ==
    /\ seen' = [k \in Key |-> Seen(k)]
    /\ last' = [e \in Endpoint |-> Older(e)]
    /\ met' = {}
    /\ UNCHANGED <<scan, events, told, fresh, raised>>

Next == \/ \E k \in Key : Passes(k) \/ \E excused \in BOOLEAN : Meets(k, excused)
        \/ SampleEnds

Spec == Init /\ [][Next]_vars

-----------------------------------------------------------------------------
\* What the list says is so: each scan stands for Threshold new connections that
\* no other one counts, and no text is in the list that was never told, whatever
\* has been pushed out of it (services.py:93, _raise_ids).
IdsTells ==
    /\ \A i \in Ip : raised[i] * Threshold + Cardinality(scan[i]) <= fresh[i]
    /\ \A n \in DOMAIN events : events[n] \in told

\* Not so: that it takes an endpoint the sample has not come to before to raise a
\* scan.  Two connections of a process to one endpoint in one sample are both
\* new, so the ports that raised a scan raise the next one at once
\* (services.py:141, services.py:192).
ScansApart == [][raised' # raised => met' # met]_vars

=============================================================================
