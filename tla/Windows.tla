------------------------------- MODULE Windows -------------------------------
(* The windows of the desktop that work in the background: the route trace   *)
(* (ui/trace_window.py over core/tracer.py) and the security scan            *)
(* (ui/security_window.py over core/security.py).  The main thread opens,    *)
(* closes and presses buttons; a button starts a worker thread unless one    *)
(* runs.  Closing a window asks its tracer to stop.                          *)
EXTENDS Integers, Sequences, FiniteSets

CONSTANTS Kind,       \* the kinds of window there are: "trace", "security"
          MaxOpens,   \* windows opened one after another
          MaxWorkers, \* threads started in all
          Server,     \* what is traced, asked or resolved: 1 .. n
          MaxHops,
          Item,       \* what a scan can come across: records with .cat
          Port,       \* the suspicious ports of the configuration
          Psutil,     \* whether psutil is installed
          KeepFor,    \* 60 s: how long an answer of a DNS server is kept
          MaxTime,
          MaxFaults

Win == 1 .. MaxOpens
Worker == 1 .. MaxWorkers
Jobs == [trace |-> {"trace", "dns", "health", "resolve"}, security |-> {"full", "quick"}]
Plan == [full |-> <<"connections", "processes", "hosts", "autorun">>,
         quick |-> <<"connections", "hosts">>]
NoAnswer == 999
Answer == [ms : {1, 2, NoAnswer}, at : 0 .. MaxTime]

VARIABLES app,      \* "on", or "closing": the desktop shuts down
          there,    \* what a scan comes across
          now,
          opened,   \* windows opened so far; the last one is the App's
          win,      \* window -> [kind, open, busy, first]: busy is is_running
          status,   \* window -> what its status line says
          shown,    \* window -> results on display
          tracer,   \* window -> its Tracer: [running, stop, proc]
          cache,    \* window -> server -> what its Tracer remembers of it
          worker,   \* worker -> the thread
          started,  \* workers started so far
          failed,   \* window -> whether a check of the scan on display failed
          late,     \* window -> pings begun since its tracer was stopped
          early,    \* windows closed while a trace had been started, not begun
          faults

vars == <<app, there, now, opened, win, status, shown, tracer, cache, worker, started, failed,
          late, early, faults>>

Idle == [win |-> 1, job |-> "trace", pc |-> "none", server |-> 1, hop |-> 1, todo |-> {},
         got |-> {}, failed |-> FALSE]
Alive(w) == worker[w].pc # "none"
Of(i) == {w \in Worker : Alive(w) /\ worker[w].win = i}

\* What each check of the scanner takes for a threat.
Suspect(x) == x.port \in Port                            \* a connection
Hidden(x) == Psutil /\ ~x.listed /\ x.temporary           \* a process
Redirects(x) == ~x.local /\ x.known                      \* a line of the hosts file
StartsItself(x) == x.temporary                           \* an entry of the autostart
Suspicious(x) ==
    CASE x.cat = "connections" -> Suspect(x) [] x.cat = "processes" -> Hidden(x)
      [] x.cat = "hosts" -> Redirects(x) [] OTHER -> StartsItself(x)
Threats == {x \in there : Suspicious(x)}

TypeOK ==
    /\ app \in {"on", "closing"} /\ now \in 0 .. MaxTime /\ opened \in 0 .. MaxOpens
    /\ win \in [Win -> [kind : Kind, open : BOOLEAN, busy : BOOLEAN, first : BOOLEAN]]
    /\ status \in [Win -> {"idle", "busy", "done", "clean", "doubts", "threats", "error"}]
    /\ \A i \in Win : /\ tracer[i].running \in BOOLEAN /\ tracer[i].stop \in BOOLEAN
                      /\ tracer[i].proc \in Worker \cup {0}
    /\ \A w \in Worker : /\ worker[w].win \in Win /\ worker[w].hop \in 1 .. MaxHops + 1
                         /\ worker[w].server \in (1 .. 5) \cup (1 .. Cardinality(Server) + 1)
    /\ started \in 0 .. MaxWorkers /\ failed \in [Win -> BOOLEAN]
    /\ late \in [Win -> 0 .. 2] /\ early \subseteq Win /\ faults \in 0 .. MaxFaults

Init ==
    /\ app = "on" /\ now = 0 /\ opened = 0
    /\ there \in {Item, {x \in Item : ~Suspicious(x)}}
    /\ \E k \in Kind :
          win = [i \in Win |-> [kind |-> k, open |-> FALSE, busy |-> FALSE, first |-> FALSE]]
    /\ status = [i \in Win |-> "idle"] /\ shown = [i \in Win |-> {}]
    /\ tracer = [i \in Win |-> [running |-> FALSE, stop |-> FALSE, proc |-> 0]]
    /\ cache = [i \in Win |-> <<>>]
    /\ worker = [w \in Worker |-> Idle] /\ started = 0
    /\ failed = [i \in Win |-> FALSE] /\ late = [i \in Win |-> 0] /\ early = {} /\ faults = 0

-----------------------------------------------------------------------------
\* The main thread.

\* A button of the App: a new window unless the last one is still there.
Open ==
    /\ app = "on" /\ opened < MaxOpens
    /\ opened > 0 => ~win[opened].open
    /\ opened' = opened + 1
    /\ win' = [win EXCEPT ![opened + 1].open = TRUE, ![opened + 1].first = TRUE]
    /\ UNCHANGED <<app, there, now, status, shown, tracer, cache, worker, started, failed, late,
                   early, faults>>

\* run_trace, find_dns, check_health, check_dns_resolve, run_scan, quick_scan:
\* nothing while a worker runs.
FreeAlways(i) == TRUE
Free(i) == ~win[i].busy

Run(i, job, first) ==
    /\ started < MaxWorkers
    /\ Free(i)
    /\ worker' = [worker EXCEPT ![started + 1] = [Idle EXCEPT !.win = i, !.job = job,
                                                              !.pc = "begin"]]
    /\ started' = started + 1
    /\ win' = [win EXCEPT ![i].busy = TRUE, ![i].first = first]
    /\ status' = [status EXCEPT ![i] = "busy"]
    /\ shown' = [shown EXCEPT ![i] = {}]
    /\ UNCHANGED <<app, there, now, opened, tracer, cache, failed, late, early, faults>>

Press(i) == /\ win[i].open /\ app = "on"
            /\ \E job \in Jobs[win[i].kind] : Run(i, job, win[i].first)

\* Half a second after it was opened a window starts its first job, unless a
\* button was quicker.
First(i) ==
    /\ win[i].open /\ app = "on" /\ win[i].first
    /\ \/ Run(i, IF win[i].kind = "trace" THEN "trace" ELSE "full", FALSE)
       \/ /\ win[i].busy /\ win' = [win EXCEPT ![i].first = FALSE]
          /\ UNCHANGED <<app, there, now, opened, status, shown, tracer, cache, worker,
                         started, failed, late, early, faults>>

\* refresh while a worker runs: the display is cleared, nothing is started.
Refresh(i) ==
    /\ win[i].open /\ app = "on" /\ win[i].busy /\ shown[i] # {}
    /\ shown' = [shown EXCEPT ![i] = {}]
    /\ UNCHANGED <<app, there, now, opened, win, status, tracer, cache, worker, started, failed,
                   late, early, faults>>

\* Tracer.stop: the flags, and the ping under way is killed.
Stopped == [running |-> FALSE, stop |-> TRUE, proc |-> 0]

\* _on_close, and _close_toplevel of the shutdown.
Shut(I) ==
    /\ win' = [i \in Win |-> IF i \in I
                 THEN [win[i] EXCEPT !.open = FALSE, !.busy = FALSE, !.first = FALSE]
                 ELSE win[i]]
    /\ tracer' = [i \in Win |-> IF i \in I THEN Stopped ELSE tracer[i]]
    /\ early' = early \cup {i \in I : \E w \in Of(i) : worker[w].pc = "begin"}
    /\ UNCHANGED <<there, now, opened, status, shown, cache, worker, started, failed, late, faults>>

Close(i) == /\ win[i].open /\ app = "on"
            /\ Shut({i})
            /\ UNCHANGED app

\* The shutdown closes what is open; the threads end with the process.
Quit == /\ app = "on" /\ app' = "closing"
        /\ Shut({i \in Win : win[i].open})

-----------------------------------------------------------------------------
\* The workers.

Set(w, r) == worker' = [worker EXCEPT ![w] = r]

\* What the worker shows, it shows in a window that is still there.
Told(i, what, results, wrong) ==
    /\ status' = IF win[i].open THEN [status EXCEPT ![i] = what] ELSE status
    /\ shown' = IF win[i].open THEN [shown EXCEPT ![i] = results] ELSE shown
    /\ failed' = IF win[i].open THEN [failed EXCEPT ![i] = wrong] ELSE failed

\* trace_all: the flags are set for a run, whatever they were.
Begin(w) ==
    LET r == worker[w] IN
    /\ r.pc = "begin"
    /\ \/ /\ r.job = "trace"
          /\ tracer' = [tracer EXCEPT ![r.win].running = TRUE, ![r.win].stop = FALSE]
          /\ Set(w, [r EXCEPT !.pc = "server"])
       \/ /\ r.job \in {"dns", "health", "resolve"}
          /\ Set(w, [r EXCEPT !.pc = "ask", !.todo = Server])
          /\ UNCHANGED tracer
       \/ /\ r.job \in {"full", "quick"}
          /\ Set(w, [r EXCEPT !.pc = "scan"])
          /\ UNCHANGED tracer
    /\ UNCHANGED <<app, there, now, opened, win, status, shown, cache, started, failed, late, early,
                   faults>>

HaltedNever(i) == FALSE
Halted(i) == ~tracer[i].running \/ tracer[i].stop

\* The loops of trace_all (servers) and trace (hops): each looks at the flags.
TraceLoop(w) ==
    LET r == worker[w]
        last == r.server > Cardinality(Server) IN
    /\ r.job = "trace"
    /\ \/ /\ r.pc = "server"
          /\ IF last \/ Halted(r.win)
             THEN /\ tracer' = [tracer EXCEPT ![r.win].running = FALSE]
                  /\ Set(w, [r EXCEPT !.pc = "show"])
             ELSE Set(w, [r EXCEPT !.pc = "hop", !.hop = 1]) /\ UNCHANGED tracer
       \/ /\ r.pc = "hop"
          /\ IF r.hop > MaxHops \/ Halted(r.win)
             THEN Set(w, [r EXCEPT !.pc = "told"])
             ELSE Set(w, [r EXCEPT !.pc = "ping"])
          /\ UNCHANGED tracer
    /\ UNCHANGED <<app, there, now, opened, win, status, shown, cache, started, failed, late, early,
                   faults>>

\* A ping is begun, and only then known to whoever stops the tracer.
Ping(w) ==
    LET r == worker[w] IN
    /\ r.pc = "ping"
    /\ Set(w, [r EXCEPT !.pc = "known"])
    /\ late' = IF win[r.win].open \/ late[r.win] = 2 THEN late
               ELSE [late EXCEPT ![r.win] = @ + 1]
    /\ UNCHANGED <<app, there, now, opened, win, status, shown, tracer, cache, started, failed,
                   early, faults>>

Known(w) ==
    LET r == worker[w] IN
    /\ r.pc = "known"
    /\ tracer' = [tracer EXCEPT ![r.win].proc = w]
    /\ Set(w, [r EXCEPT !.pc = "wait"])
    /\ UNCHANGED <<app, there, now, opened, win, status, shown, cache, started, failed, late,
                   early, faults>>

\* The answer, the limit of two seconds, or the kill; the target ends the route.
Hop(w) ==
    LET r == worker[w] IN
    /\ r.pc = "wait"
    /\ tracer' = IF tracer[r.win].proc = w THEN [tracer EXCEPT ![r.win].proc = 0] ELSE tracer
    /\ \E arrived \in BOOLEAN :
          Set(w, [r EXCEPT !.hop = @ + 1, !.pc = IF arrived THEN "told" ELSE "hop"])
    /\ UNCHANGED <<app, there, now, opened, win, status, shown, cache, started, failed, late,
                   early, faults>>

\* The route of a server, told as progress.
Route(w) ==
    LET r == worker[w] IN
    /\ r.pc = "told"
    /\ Set(w, [r EXCEPT !.pc = "server", !.server = @ + 1, !.got = @ \cup {r.server}])
    /\ UNCHANGED <<app, there, now, opened, win, status, shown, tracer, cache, started, failed,
                   late, early, faults>>

\* An answer that is kept is used for a minute, a missing one too.
FreshEver(i, s) == s \in DOMAIN cache[i]
Fresh(i, s) == s \in DOMAIN cache[i] /\ now - cache[i][s].at < KeepFor

\* One of the servers is answered for, and the last one ends the job.
Answered(w, s, got) ==
    LET left == worker[w].todo \ {s} IN
    Set(w, [worker[w] EXCEPT !.todo = left, !.got = got,
                             !.pc = IF left = {} THEN "show" ELSE "ask"])

Remembered(f, s, known) == [q \in DOMAIN f \cup {s} |-> IF q = s THEN known ELSE f[q]]

\* find_best_dns: all are pinged side by side; nobody looks at the flags.
AskDns(w, s) ==
    LET r == worker[w]
        i == r.win IN
    /\ r.pc = "ask" /\ r.job = "dns" /\ s \in r.todo
    /\ \E ms \in {1, 2, NoAnswer} :
          LET known == IF Fresh(i, s) THEN cache[i][s] ELSE [ms |-> ms, at |-> now] IN
          /\ cache' = [cache EXCEPT ![i] = Remembered(@, s, known)]
          /\ Answered(w, s, r.got \cup {<<s, known, now>>})
    /\ UNCHANGED <<app, there, now, opened, win, status, shown, tracer, started, failed, late,
                   early, faults>>

\* check_health: a connection to each; check_dns_resolve: each name.
AskHealth(w, s) == worker[w].job = "health" /\ Answered(w, s, {})
AskResolve(w, s) == worker[w].job = "resolve" /\ Answered(w, s, {})
Ask(w, s) ==
    /\ worker[w].pc = "ask" /\ s \in worker[w].todo
    /\ AskHealth(w, s) \/ AskResolve(w, s)
    /\ UNCHANGED <<app, there, now, opened, win, status, shown, tracer, cache, started,
                   failed, late, early, faults>>

\* as_completed gives up after fifteen seconds: an exception, not a result.
AskedTooLong(w) ==
    LET r == worker[w] IN
    /\ r.pc = "ask" /\ r.job = "dns" /\ faults < MaxFaults
    /\ faults' = faults + 1
    /\ Set(w, [r EXCEPT !.pc = "end"])
    /\ Told(r.win, "error", shown[r.win], failed[r.win])
    /\ UNCHANGED <<app, there, now, opened, win, tracer, cache, started, late, early>>

\* One check is over, and the last one ends the scan.
Checked(w, found, wrong) ==
    Set(w, [worker[w] EXCEPT !.server = @ + 1, !.got = @ \cup found, !.failed = @ \/ wrong,
               !.pc = IF worker[w].server = Len(Plan[worker[w].job]) THEN "show" ELSE "scan"])

\* A check that fails logs it and returns what it has so far.
Detect(w) ==
    LET here == {x \in Threats : x.cat = Plan[worker[w].job][worker[w].server]} IN
    /\ worker[w].pc = "scan"
    /\ \/ Checked(w, here, FALSE) /\ UNCHANGED faults
       \/ /\ faults < MaxFaults /\ faults' = faults + 1
          /\ \E part \in {{}} \cup {{x} : x \in here} : Checked(w, part, TRUE)
    /\ UNCHANGED <<app, there, now, opened, win, status, shown, tracer, cache, started,
                   failed, late, early>>

\* The quickest of those that answered, or nothing.
Best(got) ==
    LET ok == {p \in got : p[2].ms < NoAnswer} IN
    {p \in ok : \A q \in ok : p[2].ms <= q[2].ms}

Verdict(n) == IF n = 0 THEN "clean" ELSE IF n < 3 THEN "doubts" ELSE "threats"

\* The results, in a window that is still there.
ShowDns(r) == IF Best(r.got) = {} THEN Told(r.win, "done", {}, FALSE)
              ELSE \E p \in Best(r.got) : Told(r.win, "done", {p}, FALSE)
ShowHealth(r) == Told(r.win, "done", {}, FALSE)
ShowResolve(r) == Told(r.win, "done", {}, FALSE)
ShowTrace(r) == Told(r.win, "done", {}, FALSE)
ShowScan(r) == Told(r.win, Verdict(Cardinality(r.got)), r.got, r.failed)

Show(w) ==
    LET r == worker[w] IN
    /\ r.pc = "show"
    /\ Set(w, [r EXCEPT !.pc = "end"])
    /\ CASE r.job = "dns" -> ShowDns(r) [] r.job = "health" -> ShowHealth(r)
         [] r.job = "resolve" -> ShowResolve(r) [] r.job = "trace" -> ShowTrace(r)
         [] OTHER -> ShowScan(r)
    /\ UNCHANGED <<app, there, now, opened, win, tracer, cache, started, late, early, faults>>

\* finally: the button is free again.
FreedIfShown(i) == IF shown[i] = {} THEN win ELSE [win EXCEPT ![i].busy = FALSE]
Freed(i) == [win EXCEPT ![i].busy = FALSE]
End(w) ==
    LET r == worker[w] IN
    /\ r.pc = "end"
    /\ Set(w, Idle)
    /\ win' = Freed(r.win)
    /\ UNCHANGED <<app, there, now, opened, status, shown, tracer, cache, started, failed, late,
                   early, faults>>

WorkerStep(w) ==
    \/ Begin(w) \/ TraceLoop(w) \/ Ping(w) \/ Known(w) \/ Hop(w) \/ Route(w)
    \/ (\E s \in Server : AskDns(w, s) \/ Ask(w, s)) \/ Detect(w) \/ Show(w) \/ End(w)

\* Half a minute, as far as answers are kept.
Tick == /\ now < MaxTime /\ now' = now + 1
        /\ \E i \in Win : cache[i] # <<>>
        /\ UNCHANGED <<app, there, opened, win, status, shown, tracer, cache, worker, started,
                       failed, late, early, faults>>

Next ==
    \/ Open \/ Quit \/ Tick
    \/ \E i \in Win : Press(i) \/ First(i) \/ Refresh(i) \/ Close(i)
    \/ \E w \in Worker : WorkerStep(w) \/ AskedTooLong(w)

\* The threads run; each ping, connection and command has a limit.
FairSpec == /\ Init /\ [][Next]_vars
            /\ \A w \in Worker : WF_vars(WorkerStep(w))

-----------------------------------------------------------------------------
\* A window that is there has one worker at most, and its buttons are blocked
\* exactly as long as that one lives (trace_window.py:142, security_window.py:146).
OneWorker == \A i \in Win : win[i].open =>
    /\ Cardinality(Of(i)) <= 1
    /\ win[i].busy <=> Of(i) # {}

\* When a window is closed, its trace begins one more ping at most; unless the
\* worker had been started and had not come to trace_all (tracer.py:212).
StopsSoon == \A i \in Win : late[i] <= 1 \/ i \in early

\* What a scan shows is there; where no check failed, "clean" means that the
\* connections and the hosts file are (security.py:313).
ScanTrue == \A i \in Win : win[i].kind = "security" =>
    /\ shown[i] \subseteq Threats
    /\ status[i] \in {"doubts", "threats"} => Threats # {}
    /\ status[i] = "clean" /\ ~failed[i] => \A x \in Threats : x.cat \notin {"connections", "hosts"}

\* The DNS server a search is about to show answered, less than a minute before
\* it was asked for, and no other of the search was quicker (tracer.py:122).
BestTrue == \A w \in Worker : worker[w].pc = "show" /\ worker[w].job = "dns" =>
    \A p \in Best(worker[w].got) :
        /\ p[2].ms < NoAnswer /\ p[3] - p[2].at < KeepFor
        /\ \A q \in worker[w].got : p[2].ms <= q[2].ms

\* A button that started a job is free again (trace_window.py:168).
Busy == \E i \in Win : win[i].open /\ win[i].busy
ButtonsBack == Busy ~> ~Busy

\* The windows.
WindowsSound == OneWorker /\ StopsSoon /\ ScanTrue /\ BestTrue

\* security_window.py:212, "no threats found": there are none.  The checks
\* swallow their errors, and the window says so all the same.
AllClearTrue == \A i \in Win :
    status[i] = "clean" => \A x \in Threats : x.cat \notin {"connections", "hosts"}

\* trace_window.py:42: a window that is closed stops its trace.  One that has
\* been started and not begun sets the flags again.
StopHonoured == \A i \in Win : late[i] <= 1

=============================================================================
