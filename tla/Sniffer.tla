-------------------------------- MODULE Sniffer --------------------------------
(* The traffic counter (core/sniffer.py): a thread counts, packet by packet   *)
(* or by the counters of the interfaces, and writes the difference since the  *)
(* last write every few seconds; whoever stops it writes too.                 *)
EXTENDS Integers, FiniteSets

CONSTANTS MaxBytes,    \* what is counted in all
          Wrap,        \* 10^12: a counter above it starts anew
          MaxIps, KeepIps,  \* 1000 and 500: a cleaning of more leaves so many
          Ip,
          MaxLoop,     \* threads ever started
          MaxFaults

Loop == 1 .. MaxLoop
Writer == Loop \cup {0}          \* 0: whoever stops it, or writes at the exit

VARIABLES running, stopped,   \* the flag, the event
          mode,     \* thread -> what it counts: packets (real) or interfaces (psutil)
          loop,     \* thread -> where it stands
          count,    \* stats["bytes_in"]
          mark,     \* _last_saved_bytes_in
          weight,   \* stats["ips"]
          added,    \* packets added to it since the last cleaning
          write,    \* writer -> its write of the difference
          lock,     \* who holds the lock, or -1
          stopping, \* where stop is
          seen,     \* all that was counted
          saved,    \* the sum of the rows
          lost,     \* differences the database refused
          tries,    \* starts that found nothing to count with
          faults

vars == <<running, stopped, mode, loop, count, mark, weight, added, write, lock, stopping,
          seen, saved, lost, tries, faults>>

TypeOK ==
    /\ running \in BOOLEAN /\ stopped \in BOOLEAN
    /\ mode \in [Loop -> {"real", "psutil"}]
    /\ loop \in [Loop -> {"none", "count", "record", "write", "wait", "ended"}]
    /\ count \in 0 .. MaxBytes /\ mark \in 0 .. MaxBytes /\ seen \in 0 .. MaxBytes
    /\ weight \in [Ip -> Nat] /\ added \in Nat
    /\ write \in [Writer -> [pc : {"rest", "take", "row"}, bytes : 0 .. MaxBytes]]
    /\ lock \in Loop \cup {-1}
    /\ stopping \in {"rest", "write", "join"}
    /\ saved \in 0 .. MaxBytes /\ lost \in 0 .. MaxBytes
    /\ tries \in 0 .. MaxFaults /\ faults \in 0 .. MaxFaults

Rest == [pc |-> "rest", bytes |-> 0]

Init ==
    /\ running = FALSE /\ stopped = FALSE /\ mode = [l \in Loop |-> "psutil"]
    /\ loop = [l \in Loop |-> "none"]
    /\ count = 0 /\ mark = 0 /\ weight = [i \in Ip |-> 0] /\ added = 0
    /\ write = [w \in Writer |-> Rest] /\ lock = -1
    /\ stopping = "rest"
    /\ seen = 0 /\ saved = 0 /\ lost = 0 /\ tries = 0 /\ faults = 0

On == running /\ ~stopped
numbers == <<count, mark, seen>>
addresses == <<weight, added>>
Alive == {l \in Loop : loop[l] \notin {"none", "ended"}}
Ips == {i \in Ip : weight[i] > 0}

-----------------------------------------------------------------------------
\* start, once at a time: with the rights and scapy, or with psutil; with
\* neither the flag stays.
Start(l) ==
    /\ ~running /\ stopping = "rest"
    /\ loop[l] = "none" /\ \A k \in Loop : k < l => loop[k] # "none"
    /\ running' = TRUE /\ stopped' = FALSE
    /\ \/ /\ \E m \in {"real", "psutil"} : mode' = [mode EXCEPT ![l] = m]
          /\ loop' = [loop EXCEPT ![l] = "count"]
          /\ UNCHANGED tries
       \/ /\ tries < MaxFaults /\ tries' = tries + 1
          /\ UNCHANGED <<mode, loop>>
    /\ UNCHANGED <<numbers, addresses, write, lock, stopping, saved, lost, faults>>

\* _add_packet: a packet that the flags have let through before is put to its
\* address, in a section of the lock of its own.
AddPacket(l) ==
    /\ loop[l] = "count" /\ mode[l] = "real" /\ lock = -1 /\ seen < MaxBytes
    /\ \E i \in Ip : weight' = [weight EXCEPT ![i] = @ + 1]
    /\ added' = added + 1
    /\ loop' = [loop EXCEPT ![l] = "record"]
    /\ UNCHANGED <<running, stopped, mode, numbers, write, lock, stopping, saved, lost,
                   tries, faults>>

\* _cleanup_old_ips: of too many addresses those that carry most are kept,
\* whichever of equals.
Cleaned ==
    /\ added' = 0
    /\ \/ Cardinality(Ips) <= MaxIps /\ UNCHANGED weight
       \/ /\ Cardinality(Ips) > MaxIps
          /\ \E kept \in SUBSET Ips :
                /\ Cardinality(kept) = KeepIps
                /\ \A i \in kept, j \in Ips \ kept : weight[i] >= weight[j]
                /\ weight' = [i \in Ip |-> IF i \in kept THEN weight[i] ELSE 0]

\* The section ends with a cleaning when a minute has passed since the last.
SectionEnds == Cleaned \/ UNCHANGED addresses

\* _record_traffic, under the lock: the packet, or the bytes since the last look
\* at the interfaces; a write when it is due, in the same section.
Record(l) ==
    /\ loop[l] = "record" \/ (loop[l] = "count" /\ mode[l] = "psutil")
    /\ lock = -1 /\ seen < MaxBytes
    /\ count' = count + 1 /\ seen' = seen + 1
    /\ \/ loop' = [loop EXCEPT ![l] = "wait"] /\ SectionEnds /\ UNCHANGED <<write, lock>>
       \/ /\ loop' = [loop EXCEPT ![l] = "write"] /\ UNCHANGED addresses
          /\ write' = [write EXCEPT ![l].pc = "take"] /\ lock' = l
    /\ UNCHANGED <<running, stopped, mode, mark, stopping, saved, lost, tries, faults>>

\* No packet came.
CountNothing(l) ==
    /\ loop[l] = "count"
    /\ loop' = [loop EXCEPT ![l] = "wait"]
    /\ UNCHANGED <<running, stopped, mode, numbers, addresses, write, lock, stopping,
                   saved, lost, tries, faults>>

\* The flag and the event, then the next second.
Again(l) ==
    /\ loop[l] = "wait"
    /\ loop' = [loop EXCEPT ![l] = IF On THEN "count" ELSE "ended"]
    /\ UNCHANGED <<running, stopped, mode, numbers, addresses, write, lock, stopping,
                   saved, lost, tries, faults>>

-----------------------------------------------------------------------------
\* Mutant: the counter starts anew without its mark.
MarkedWrap == count

\* What has been written up to now; above the limit both start anew.
Marked == IF count > Wrap THEN 0 ELSE count

\* _save_traffic_to_db: the difference and the mark, under the lock ...
Take(w) ==
    /\ write[w].pc = "take" /\ (lock = w \/ (w = 0 /\ lock = -1))
    /\ write' = [write EXCEPT ![w] = [pc |-> "row",
                                      bytes |-> IF count < mark THEN 0 ELSE count - mark]]
    /\ mark' = Marked
    /\ count' = IF count > Wrap THEN 0 ELSE count
    /\ UNCHANGED <<running, stopped, mode, loop, addresses, seen, lock, stopping, saved,
                   lost, tries, faults>>

\* ... and the row, whose failure nobody hears of.
Row(w) ==
    /\ write[w].pc = "row"
    /\ \/ saved' = saved + write[w].bytes /\ UNCHANGED <<lost, faults>>
       \/ /\ faults < MaxFaults /\ faults' = faults + 1
          /\ lost' = lost + write[w].bytes /\ UNCHANGED saved
    /\ write' = [write EXCEPT ![w] = Rest]
    /\ lock' = IF lock = w THEN -1 ELSE lock
    /\ \/ w = 0 /\ UNCHANGED <<loop, addresses>>
       \/ w # 0 /\ loop' = [loop EXCEPT ![w] = "wait"] /\ SectionEnds
    /\ UNCHANGED <<running, stopped, mode, numbers, stopping, tries>>

\* stop: the flags, a write, the threads for three seconds each; the desktop
\* writes once more without stopping.
Stop ==
    /\ stopping = "rest" /\ write[0].pc = "rest" /\ (running \/ Alive # {})
    /\ running' = FALSE /\ stopped' = TRUE
    /\ stopping' = "write"
    /\ write' = [write EXCEPT ![0].pc = "take"]
    /\ UNCHANGED <<mode, loop, numbers, addresses, lock, saved, lost, tries, faults>>

Written ==
    /\ stopping = "write" /\ write[0].pc = "rest"
    /\ stopping' = "join"
    /\ UNCHANGED <<running, stopped, mode, loop, numbers, addresses, write, lock, saved,
                   lost, tries, faults>>

Joined ==
    /\ stopping = "join"
    /\ \/ Alive = {} /\ UNCHANGED faults
       \/ Alive # {} /\ faults < MaxFaults /\ faults' = faults + 1
    /\ stopping' = "rest"
    /\ UNCHANGED <<running, stopped, mode, loop, numbers, addresses, write, lock, saved,
                   lost, tries>>

Flush ==
    /\ stopping = "rest" /\ ~running /\ write[0].pc = "rest" /\ count # mark
    /\ write' = [write EXCEPT ![0].pc = "take"]
    /\ UNCHANGED <<running, stopped, mode, loop, numbers, addresses, lock, stopping, saved, lost,
                   tries, faults>>

Next ==
    \/ \E l \in Loop : Start(l) \/ AddPacket(l) \/ Record(l) \/ CountNothing(l) \/ Again(l)
    \/ \E w \in Writer : Take(w) \/ Row(w)
    \/ Stop \/ Written \/ Joined \/ Flush

Spec == Init /\ [][Next]_vars

-----------------------------------------------------------------------------
\* The writes under way: that of whoever stops it, and that of the thread with
\* the lock.
UnderWay == write[0].bytes + (IF lock = -1 THEN 0 ELSE write[lock].bytes)

\* Every byte counted is in one row, in one write under way or still to be
\* written, whoever writes at once and whatever starts anew; what no row has
\* is what the database refused.  The addresses exceed their bound by what was
\* added since the last cleaning at most, which may be a minute's
\* (sniffer.py:217, sniffer.py:248).
BytesCounted ==
    /\ seen = saved + lost + (count - mark) + UnderWay
    /\ \A l \in Loop \ {lock} : write[l].bytes = 0
    /\ count >= mark
    /\ Cardinality(Ips) <= MaxIps + added

\* sniffer.py:64: "the counter already runs": it does when it says so.
RunsWhenItSays == running => Alive # {}

=============================================================================
