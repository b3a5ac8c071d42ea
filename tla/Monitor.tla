------------------------------- MODULE Monitor -------------------------------
(* Parts of the monitoring service that share no state: alerts, connections, *)
(* the local network, the route probe, pings, traffic, reminders, quotas;    *)
(* and the desktop and its windows.  A behaviour is about one of them,       *)
(* chosen at the start; the others stand still.                              *)
EXTENDS Integers, FiniteSets

CONSTANTS Pusher, AlertKind, Rate, Timeout, PerDay, MaxTime, MaxAlert,  \* of the alerts
          Ip, Port, Pid, WatchedPort, Threshold, Cutoff, Pause, KeepEvents, LookBack,
          MaxFresh,                                           \* of connections
          Scanner, Mac, Trusted, MaxRefused,                  \* of the local network
          Caller, Fan, Target, MaxLoop,                       \* of the probe
          MaxPing, Gap, Flushes, Dump,                        \* of the pings
          MaxCount, Wrap, MaxIps, KeepIps, Host, MaxStart,    \* of the traffic
          Duty, Task, Every, Resource, Stale, Custom, Runner,
          Moments, MaxDuty,             \* names of some duties, and what is in each
          Nic, Reader, Ticker, Period, Warn, Limit, CacheFor, Hour,
          MaxBytes, MaxWait, MaxTicks,                        \* of the quotas
          View, MaxOpens, MaxWorkers, Server, MaxHops, Item, Bad, Psutil,
          KeepFor, MaxAge,                                    \* of the windows
          Use, Source, Ai, Dialogs, MaxRaised, MaxSample,
          MaxModel,             \* names of some uses of the desktop, and what is in each
          Each, MaxTurn,                                      \* of the desktop
          MaxFailed     \* bound on the faults of a part other than the local network

VARIABLES which,
          now, mark, row, next, th, again, esc, notified, overlap, mishaps,
          seen, met, scan, last, events, told, fresh, raised,
          lock, scanning, result, known, table, lanTold, run, forgot, lanFaults,
          running, stop, hops, aim, mixed, thread, loop, call, turn, probeOverlap,
          probeFaults,
          pending, pingNext, since, pingRunning, pingThread, closer, left, flush,
          pingLock, saved, caught, refused, late, pingFaults,
          sniffRunning, stopped, mode, sniffLoop, count, sniffMark, weight, added, write,
          sniffLock, stopping, sniffSeen, sniffSaved, lost, tries, sniffFaults,
          dutyNow, done, due, alert, about, copy, dutyRow, event, dutyRun,
          dutyResult, ran, clash,
          quotaNow, quotaSince, counter, quotaLast, speed, total, moved, ticks, rows,
          cache, quotaMark, quotaTold, ask,
          app, there, winNow, opened, win, line, shown, tracer, dnsCache, worker, started,
          failed, lateWin, early, winFaults,
          main, step, slow, aiLock, trainer, model, trained, looked, halt, unread,
          alertsRaised, badge, uiTurn, view, measure, buffered, taken, stragglers, dropped,
          store, cfg, file, works, report, said, deskFaults

A == INSTANCE Alerts WITH Kind <- AlertKind, MaxFaults <- MaxFailed, faults <- mishaps
I == INSTANCE Ids WITH Suspicious <- WatchedPort, Keep <- KeepEvents, Look <- LookBack
L == INSTANCE LanScan WITH MaxFaults <- MaxRefused, told <- lanTold, faults <- lanFaults
M == INSTANCE Mtr WITH MaxFaults <- MaxFailed, fan <- turn, overlap <- probeOverlap,
        faults <- probeFaults
P == INSTANCE Pinger WITH MaxSample <- MaxPing, Interval <- Gap, MaxFaults <- MaxFailed,
        next <- pingNext, running <- pingRunning, thread <- pingThread, lock <- pingLock,
        faults <- pingFaults
S == INSTANCE Sniffer WITH MaxBytes <- MaxCount, Ip <- Host, MaxLoop <- MaxStart,
        MaxFaults <- MaxFailed, running <- sniffRunning, loop <- sniffLoop,
        mark <- sniffMark, lock <- sniffLock, seen <- sniffSeen, saved <- sniffSaved,
        faults <- sniffFaults
D(mix) == INSTANCE Duties WITH Task <- Task[mix], Every <- Every[mix],
        Resource <- Resource[mix], Stale <- Stale[mix], Check <- Custom[mix],
        Runner <- Runner[mix], PerDay <- Moments[mix], MaxTime <- MaxDuty[mix],
        now <- dutyNow, row <- dutyRow, run <- dutyRun, result <- dutyResult
Q == INSTANCE Quota WITH Tick <- Ticker, Rate <- Hour, MaxTime <- MaxWait, now <- quotaNow,
        since <- quotaSince, last <- quotaLast, mark <- quotaMark, told <- quotaTold
N == INSTANCE Windows WITH Kind <- View, Port <- Bad, MaxTime <- MaxAge,
        MaxFaults <- MaxFailed, now <- winNow, status <- line, cache <- dnsCache,
        late <- lateWin, faults <- winFaults
K(mix) == INSTANCE Desktop WITH Source <- Source[mix], Ai <- Ai[mix],
        Dialogs <- Dialogs[mix], MaxAlert <- MaxRaised[mix], MaxSample <- MaxSample[mix],
        MaxModel <- MaxModel[mix], MaxFaults <- MaxFailed,
        lock <- aiLock, raised <- alertsRaised, turn <- uiTurn, run <- measure,
        pending <- buffered, late <- stragglers, db <- store, told <- said,
        faults <- deskFaults

Parts == {"alerts", "ids", "lan", "probe", "ping", "traffic", "quota", "windows"}

\* What the code fixes of the sizes: a type of alert is not called "none"; a scan
\* is of a port at least, and ports and network cards can be counted; a program is
\* no address; the schedule is one of the callers, if any; the closer writes the
\* buffer at least once (pinger.py:259), and the dump is of samples; fewer
\* addresses are kept than trigger the cleaning (sniffer.py:217); a check is no
\* resource; the tick thread reads the quotas; a window is opened, and its answers
\* are kept for some time; a badge is drawn now and then.
AlertsSized == /\ "none" \notin AlertKind /\ Rate \in [AlertKind -> Nat] /\ Timeout \in Nat
               /\ PerDay \in Nat \ {0} /\ MaxTime \in Nat /\ MaxAlert \in Nat
               /\ MaxFailed \in Nat
IdsSized == /\ IsFiniteSet(Port) /\ Threshold \in Nat \ {0} /\ Cutoff \in Nat
            /\ Pause \in Nat /\ KeepEvents \in Nat /\ LookBack \in Nat /\ MaxFresh \in Nat
LanScanSized == 0 \notin Mac /\ 0 \notin Scanner /\ MaxRefused \in Nat
MtrSized == MaxLoop \in Nat /\ MaxFailed \in Nat /\ (Fan = 0 \/ Fan \in Caller)
PingerSized == /\ MaxPing \in Nat /\ Gap \in Nat /\ Flushes \in Nat \ {0}
               /\ Dump \in 0 .. MaxPing /\ MaxFailed \in Nat
SnifferSized == /\ IsFiniteSet(Host) /\ MaxIps \in Nat /\ KeepIps \in Nat
                /\ KeepIps <= MaxIps /\ MaxCount \in Nat /\ Wrap \in Nat
                /\ MaxStart \in Nat /\ MaxFailed \in Nat
DutiesSized(mix) == /\ Moments[mix] \in Nat \ {0} /\ MaxDuty[mix] \in Nat
                    /\ Resource[mix] \cap Custom[mix] = {}
                    /\ 0 \notin Resource[mix] \cup Custom[mix]
QuotaSized == /\ IsFiniteSet(Nic) /\ Ticker \in Reader /\ Period \in Nat /\ Hour \in Nat
              /\ CacheFor \in Nat /\ MaxBytes \in Nat /\ MaxWait \in Nat
              /\ MaxTicks \in Nat
WindowsSized == /\ MaxOpens \in Nat \ {0} /\ MaxWorkers \in Nat /\ MaxHops \in Nat
                /\ MaxAge \in Nat /\ MaxFailed \in Nat /\ KeepFor \in Nat \ {0}
                /\ View \subseteq {"trace", "security"}
                /\ IsFiniteSet(Server) /\ IsFiniteSet(Item)
DesktopSized(mix) == /\ Source[mix] \subseteq {"sniffer", "pinger"}
                     /\ Ai[mix] \in BOOLEAN /\ Dialogs[mix] \in BOOLEAN
                     /\ Each \in Nat \ {0} /\ MaxTurn \in Nat \ {0}
                     /\ MaxRaised[mix] \in Nat /\ MaxSample[mix] \in Nat
                     /\ MaxModel[mix] \in Nat /\ MaxFailed \in Nat
ASSUME Sizes == /\ AlertsSized /\ IdsSized /\ LanScanSized /\ MtrSized /\ PingerSized
                /\ SnifferSized /\ QuotaSized /\ WindowsSized
                /\ \A mix \in Duty : DutiesSized(mix)
                /\ \A mix \in Use : DesktopSized(mix)
                /\ Duty # {} /\ Use # {}

alertVars == <<now, mark, row, next, th, again, esc, notified, overlap, mishaps>>
idsVars == <<seen, met, scan, last, events, told, fresh, raised>>
lanVars == <<lock, scanning, result, known, table, lanTold, run, forgot, lanFaults>>
probeVars == <<running, stop, hops, aim, mixed, thread, loop, call, turn, probeOverlap,
               probeFaults>>
pingVars == <<pending, pingNext, since, pingRunning, pingThread, closer, left, flush,
              pingLock, saved, caught, refused, late, pingFaults>>
sniffVars == <<sniffRunning, stopped, mode, sniffLoop, count, sniffMark, weight, added, write,
               sniffLock, stopping, sniffSeen, sniffSaved, lost, tries, sniffFaults>>
dutyVars == <<dutyNow, done, due, alert, about, copy, dutyRow, event, dutyRun, dutyResult,
              ran, clash>>
quotaVars == <<quotaNow, quotaSince, counter, quotaLast, speed, total, moved, ticks, rows,
               cache, quotaMark, quotaTold, ask>>
winVars == <<app, there, winNow, opened, win, line, shown, tracer, dnsCache, worker,
             started, failed, lateWin, early, winFaults>>
deskVars == <<main, step, slow, aiLock, trainer, model, trained, looked, halt, unread,
              alertsRaised, badge, uiTurn, view, measure, buffered, taken, stragglers,
              dropped, store, cfg, file, works, report, said, deskFaults>>
monitorVars == <<which, alertVars, idsVars, lanVars, probeVars, pingVars, sniffVars,
                 dutyVars, quotaVars, winVars, deskVars>>

\* The duty, or the use of the desktop, that a behaviour is about; when it is
\* about another part, one of them stands still.
Chosen(mixes) == IF which \in mixes THEN which ELSE CHOOSE mix \in mixes : TRUE

MonitorInit ==
    /\ which \in Parts \cup Duty \cup Use
    /\ A!Init /\ I!Init /\ L!Init /\ M!Init /\ P!Init /\ S!Init /\ Q!Init
    /\ \E mix \in Duty : mix = Chosen(Duty) /\ D(mix)!Init
    /\ N!Init
    /\ \E mix \in Use : mix = Chosen(Use) /\ K(mix)!Init
    \* The windows that stand still begin in one way only.
    /\ which # "windows" => there = Item /\ win[1].kind = CHOOSE v \in View : TRUE

Alerting == /\ which = "alerts" /\ A!Next
            /\ UNCHANGED <<which, idsVars, lanVars, probeVars, pingVars, sniffVars, dutyVars,
                           quotaVars, winVars, deskVars>>
Sampling == /\ which = "ids" /\ I!Next
            /\ UNCHANGED <<which, alertVars, lanVars, probeVars, pingVars, sniffVars,
                           dutyVars, quotaVars, winVars, deskVars>>
Scanning == /\ which = "lan" /\ L!Next
            /\ UNCHANGED <<which, alertVars, idsVars, probeVars, pingVars, sniffVars,
                           dutyVars, quotaVars, winVars, deskVars>>
Probing == /\ which = "probe" /\ M!Next
           /\ UNCHANGED <<which, alertVars, idsVars, lanVars, pingVars, sniffVars, dutyVars,
                          quotaVars, winVars, deskVars>>
Pinging == /\ which = "ping" /\ P!Next
           /\ UNCHANGED <<which, alertVars, idsVars, lanVars, probeVars, sniffVars, dutyVars,
                          quotaVars, winVars, deskVars>>
Counting == /\ which = "traffic" /\ S!Next
            /\ UNCHANGED <<which, alertVars, idsVars, lanVars, probeVars, pingVars, dutyVars,
                           quotaVars, winVars, deskVars>>
Reminding == /\ \E mix \in Duty : which = mix /\ D(mix)!Next
             /\ UNCHANGED <<which, alertVars, idsVars, lanVars, probeVars, pingVars,
                            sniffVars, quotaVars, winVars, deskVars>>
Billing == /\ which = "quota" /\ Q!Next
           /\ UNCHANGED <<which, alertVars, idsVars, lanVars, probeVars, pingVars, sniffVars,
                          dutyVars, winVars, deskVars>>
Watching == /\ which = "windows" /\ N!Next
            /\ UNCHANGED <<which, alertVars, idsVars, lanVars, probeVars, pingVars, sniffVars,
                           dutyVars, quotaVars, deskVars>>
Serving == /\ \E mix \in Use : which = mix /\ K(mix)!Next
           /\ UNCHANGED <<which, alertVars, idsVars, lanVars, probeVars, pingVars, sniffVars,
                          dutyVars, quotaVars, winVars>>

MonitorNext == \/ Alerting \/ Sampling \/ Scanning \/ Probing \/ Pinging \/ Counting
               \/ Reminding \/ Billing \/ Watching \/ Serving

MonitorSpec == MonitorInit /\ [][MonitorNext]_monitorVars

\* The threads of the escalation, of the probe, of the windows and of the
\* desktop run, in the part they belong to: one that stands still is owed
\* nothing.
MonitorFairSpec ==
    /\ MonitorSpec
    /\ WF_alertVars(which = "alerts" /\ A!Escalate)
    /\ \A c \in Caller : WF_probeVars(which = "probe" /\ M!CallStep(c))
    /\ \A l \in 1 .. MaxLoop : WF_probeVars(which = "probe" /\ M!LoopStep(l))
    /\ WF_probeVars(which = "probe" /\ M!FanStep)
    /\ \A w \in 1 .. MaxWorkers : WF_winVars(which = "windows" /\ N!WorkerStep(w))
    /\ \A mix \in Use :
          /\ WF_deskVars(which = mix /\ K(mix)!Turn)
          /\ WF_deskVars(which = mix /\ K(mix)!Leave)
          /\ \A t \in {"main", "back"} : WF_deskVars(which = mix /\ K(mix)!TrainStep(t))

-----------------------------------------------------------------------------
\* The types of the parts.
TypesOK == /\ A!TypeOK /\ I!TypeOK /\ L!TypeOK /\ M!TypeOK /\ P!TypeOK /\ S!TypeOK
           /\ Q!TypeOK /\ N!TypeOK
           /\ \A mix \in Duty : mix = Chosen(Duty) => D(mix)!TypeOK
           /\ \A mix \in Use : mix = Chosen(Use) => K(mix)!TypeOK

\* What is told (services.py:1306): alerts and events of connections are true,
\* and repeated as rarely as they should; so are those about the local network
\* and quotas.
AlertsTold == A!AlertsTold /\ I!IdsTells /\ L!LanTold /\ Q!QuotaTold

\* Works, backups and checks (planner.py:46, backupwatch.py:56,
\* customchecks.py:66): what is overdue or stale is noted, and only that.
DutiesDone == \A mix \in Duty : mix = Chosen(Duty) => D(mix)!DutiesDone

\* The desktop: a window has one worker (trace_window.py:142), an analysis one
\* model (traffic_agent.py:104), and the end writes what was measured
\* (graceful_shutdown.py:46).
DesktopTrue == /\ N!WindowsSound
               /\ \A mix \in Use : mix = Chosen(Use) => K(mix)!DesktopSound

\* One thread probes one target (services.py:260); no sample and no byte is lost
\* or written twice (core/pinger.py:259, core/sniffer.py:217); and so it is in
\* the desktop.
MeasuresTrue == M!ProbesAlone /\ P!SamplesKept /\ S!BytesCounted /\ DesktopTrue

Due == \/ which = "windows" /\ N!Busy
       \/ \E mix \in Use : which = mix /\ K(mix)!DesktopDue
Over == /\ which = "windows" => ~N!Busy
        /\ \A mix \in Use : which = mix => K(mix)!DesktopOver

\* An alert nobody reads is told again (services.py:1517); a probe that is
\* stopped for good ends (services.py:277); the buttons of a window come back
\* (trace_window.py:168), the desktop's badge agrees with its alerts and its
\* shutdown ends (graceful_shutdown.py:37).
LoopsDo == A!Escalated /\ M!StopsForGood /\ (Due ~> Over)

\* config.py:74: the schedule turns through the targets.
FanTurns == which = "probe" => M!FanTurns

\* config.py:181: an alert is told again after the timeout.
EscalatedInTime == A!EscalatedInTime

\* planner.py:8: each work that is overdue is told of.
EachDueTold == \A mix \in Duty : which = mix => D(mix)!EachDueTold

\* services.py:761: a limit that is used up is told as used up.
LimitTold == Q!LimitTold

\* pinger.py:66: the samples of the dump are restored.
DumpRestored == P!DumpRestored

=============================================================================
