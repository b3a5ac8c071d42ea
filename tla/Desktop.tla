------------------------------- MODULE Desktop -------------------------------
(* The desktop program around its windows: the start (main.py), the loop of  *)
(* the main window with its badge and the analysis of each sample            *)
(* (ui/main_window.py, ai/), the training of the model by three callers, the *)
(* settings (ui/settings_window.py) and the shutdown                         *)
(* (ui/widgets/graceful_shutdown.py).  Everything but the background         *)
(* training, the measuring and the export runs on the main thread.           *)
EXTENDS Integers, Sequences

CONSTANTS Source,     \* what is measured: "sniffer", "pinger"
          Ai,         \* whether the configuration has the analysis on at the start
          Each,       \* a badge is drawn each Each-th turn of the loop (5)
          MaxTurn,    \* 2 * Each turns, counted round
          MaxAlert,   \* alerts raised while the program runs
          MaxSample,  \* samples measured
          MaxModel,   \* trainings
          Dialogs,    \* whether settings are saved and reports exported
          MaxFaults

Trainer == {"main", "back"}
Steps == <<"ui", "ai", "sniffer", "sniffer ends", "pinger", "pinger ends", "flush",
           "windows", "database">>

VARIABLES main,      \* "start", "train", "window", "closing", "forced", "clean", "gone"
          step,      \* steps of the shutdown done
          slow,      \* the ten seconds of the shutdown are over
          lock,      \* the lock of the traffic agent: a trainer, or "none"
          trainer,   \* trainer -> what it is at
          model,     \* the parts of the model: each the training it is from
          trained,   \* trainings so far
          looked,    \* the parts the last analysis worked with
          halt,      \* the background training was told to stop
          unread,    \* alerts nobody acknowledged
          raised,    \* alerts raised
          badge,     \* the number on the button
          turn,      \* turns of the loop, round
          view,      \* the window of alerts: "none" or what it lists as unread
          run,       \* source -> "off", "on", "told" to stop, "ended"
          pending,   \* source -> samples not yet in the database
          taken,     \* samples measured
          late,      \* sources whose thread did not end in three seconds
          dropped,   \* source -> samples the closed database did not take
          db,        \* "open", "closed"
          cfg, file, \* whether the analysis is on: in memory, on disk
          works,     \* whether the agents work
          report,    \* the export: what it is at
          told,      \* what a message box has said
          faults

aiVars == <<lock, trainer, model, trained, looked, halt>>
badgeVars == <<unread, raised, badge, turn, view>>
bufferVars == <<run, pending, taken, late, dropped, db>>
cfgVars == <<cfg, file, works, report, told>>
vars == <<main, step, slow, lock, trainer, model, trained, looked, halt, unread, raised,
          badge, turn, view, run, pending, taken, late, dropped, db, cfg, file, works,
          report, told, faults>>

Parts == {"model", "scaler", "features"}

TypeOK ==
    /\ main \in {"start", "train", "window", "closing", "forced", "clean", "gone"}
    /\ step \in 0 .. Len(Steps) /\ slow \in BOOLEAN
    /\ lock \in Trainer \cup {"none"}
    /\ trainer \in [Trainer -> {"rest", "wait", "fit", "model", "scaler", "features", "gone"}]
    /\ model \in [Parts -> 0 .. MaxModel] /\ looked \in [Parts -> 0 .. MaxModel]
    /\ trained \in 0 .. MaxModel /\ halt \in BOOLEAN
    /\ raised \in 0 .. MaxAlert /\ unread \in 0 .. MaxAlert /\ badge \in 0 .. MaxAlert
    /\ turn \in 0 .. MaxTurn - 1 /\ view \in -1 .. MaxAlert
    /\ run \in [Source -> {"off", "on", "told", "ended"}]
    /\ pending \in [Source -> 0 .. MaxSample] /\ taken \in 0 .. MaxSample
    /\ late \subseteq Source /\ dropped \in [Source -> 0 .. MaxSample]
    /\ db \in {"open", "closed"}
    /\ cfg \in BOOLEAN /\ file \in BOOLEAN /\ works \in BOOLEAN
    /\ report \in {"none", "read", "write", "told", "failed"}
    /\ told \in {"none", "applied", "saved", "short", "trained", "failed"}
    /\ faults \in 0 .. MaxFaults

Zero == [s \in Source |-> 0]

Init ==
    /\ main = "start" /\ step = 0 /\ slow = FALSE
    /\ lock = "none" /\ trainer = [t \in Trainer |-> "rest"] /\ trained = 0
    /\ model = [p \in Parts |-> 0] /\ looked = [p \in Parts |-> 0] /\ halt = FALSE
    /\ unread = 0 /\ raised = 0 /\ badge = 0 /\ turn = 0 /\ view = -1
    /\ run = [s \in Source |-> "off"] /\ pending = Zero /\ taken = 0
    /\ late = {} /\ dropped = Zero /\ db = "open"
    /\ cfg = Ai /\ file = Ai /\ works = Ai /\ report = "none" /\ told = "none" /\ faults = 0

-----------------------------------------------------------------------------
\* The start.

\* Database, sniffer, pinger; with the analysis on, the background training,
\* then a first training by the main thread itself.
Start ==
    /\ main = "start"
    /\ main' = IF Ai THEN "train" ELSE "window"
    /\ trainer' = [t \in Trainer |-> IF Ai THEN "wait" ELSE "gone"]
    /\ UNCHANGED <<step, slow, lock, model, trained, looked, halt, badgeVars, bufferVars,
                   cfgVars, faults>>

\* The main window, once the first training is over.
Window ==
    /\ main = "train" /\ trainer["main"] = "rest"
    /\ main' = "window"
    /\ UNCHANGED <<step, slow, aiVars, badgeVars, bufferVars, cfgVars, faults>>

\* Half a second later: the sniffer and the pinger.
StartMonitoring ==
    /\ main = "window" /\ run = [s \in Source |-> "off"]
    /\ run' = [s \in Source |-> "on"]
    /\ UNCHANGED <<main, step, slow, aiVars, badgeVars, pending, taken, late, dropped, db,
                   cfgVars, faults>>

-----------------------------------------------------------------------------
\* The training: at the start, in the background, and by the button of the
\* dashboard (which never gets so far, see Retrain).

LockedNot(t) == TRUE
Locked(t) == lock = "none"

\* The rows of the last two hours, joined by the second: fewer than ten, and
\* nothing is trained.
TrainNot(t) ==
    /\ trainer[t] = "wait" /\ trainer' = [trainer EXCEPT ![t] = "rest"]
    /\ UNCHANGED <<main, step, slow, lock, model, trained, looked, halt, badgeVars,
                   bufferVars, cfgVars, faults>>

Train(t) ==
    /\ trainer[t] = "wait" /\ trained < MaxModel /\ works /\ Locked(t)
    /\ lock' = t /\ trained' = trained + 1
    /\ trainer' = [trainer EXCEPT ![t] = "fit"]
    /\ UNCHANGED <<main, step, slow, model, looked, halt, badgeVars, bufferVars, cfgVars,
                   faults>>

\* The model, its scaler and the features it was trained on: three assignments.
Then == [fit |-> "model", model |-> "scaler", scaler |-> "features"]
Assign(t) ==
    /\ trainer[t] \in DOMAIN Then
    /\ trainer' = [trainer EXCEPT ![t] = Then[trainer[t]]]
    /\ model' = [model EXCEPT ![Then[trainer[t]]] = trained]
    /\ UNCHANGED <<main, step, slow, lock, trained, looked, halt, badgeVars, bufferVars,
                   cfgVars, faults>>

Trained(t) ==
    /\ trainer[t] = "features"
    /\ trainer' = [trainer EXCEPT ![t] = "rest"] /\ lock' = "none"
    /\ UNCHANGED <<main, step, slow, model, trained, looked, halt, badgeVars, bufferVars,
                   cfgVars, faults>>

\* The background loop: the next round, or its end.
Background ==
    /\ trainer["back"] = "rest" /\ main \notin {"start", "gone"}
    /\ trainer' = [trainer EXCEPT !["back"] = IF halt THEN "gone" ELSE "wait"]
    /\ halt \/ trained < MaxModel
    /\ UNCHANGED <<main, step, slow, lock, model, trained, looked, halt, badgeVars,
                   bufferVars, cfgVars, faults>>

\* _retrain_model: a column that the table does not have; the database
\* answers nothing, which is read as too few rows.
Retrain ==
    /\ main = "window" /\ trained > 0 /\ told # "short"
    /\ told' = "short"
    /\ UNCHANGED <<main, step, slow, aiVars, badgeVars, bufferVars, cfg, file, works, report,
                   faults>>

-----------------------------------------------------------------------------
\* The loop of the main window.

\* _update_alerts_badge: what the database counts; nothing when it fails.
Count(ok) == IF ok THEN unread ELSE 0

\* analyze: under the lock, with the parts there are.
Analyse == (works => Locked("main")) /\ looked' = IF works THEN model ELSE looked

\* _update_ui: the analysis of the last sample, and each fifth turn the badge.
Turn ==
    /\ main = "window"
    /\ Analyse
    /\ turn' = (turn + 1) % MaxTurn
    /\ \/ (turn + 1) % Each # 0 /\ UNCHANGED <<badge, faults>>
       \/ (turn + 1) % Each = 0 /\ badge' = Count(TRUE) /\ UNCHANGED faults
       \/ /\ (turn + 1) % Each = 0 /\ faults < MaxFaults /\ faults' = faults + 1
          /\ badge' = Count(FALSE)
    /\ UNCHANGED <<main, step, slow, lock, trainer, model, trained, halt, unread, raised,
                   view, bufferVars, cfgVars>>

\* An alert of the pinger: a row.
Alert ==
    /\ "pinger" \in Source /\ run["pinger"] = "on" /\ raised < MaxAlert /\ db = "open"
    /\ raised' = raised + 1 /\ unread' = unread + 1
    /\ UNCHANGED <<main, step, slow, aiVars, badge, turn, view, bufferVars, cfgVars, faults>>

\* The window of alerts: its list and the badge are of the same count.
Drawn == view' = unread' /\ badge' = unread'

OpenAlerts ==
    /\ main = "window" /\ (view # unread \/ badge # unread)
    /\ UNCHANGED unread /\ Drawn
    /\ UNCHANGED <<main, step, slow, aiVars, raised, turn, bufferVars, cfgVars, faults>>

CloseAlerts ==
    /\ main = "window" /\ view # -1 /\ view' = -1
    /\ UNCHANGED <<main, step, slow, aiVars, unread, raised, badge, turn, bufferVars,
                   cfgVars, faults>>

\* _ack_all: every alert, those that came after the list was drawn as well.
AckAll ==
    /\ main = "window" /\ view # -1 /\ unread > 0
    /\ unread' = 0 /\ Drawn
    /\ UNCHANGED <<main, step, slow, aiVars, raised, turn, bufferVars, cfgVars, faults>>

\* _save_and_apply: memory, the file, the agents if there are any; the message
\* is the same when the file could not be written or there are none.
Save ==
    /\ main = "window" /\ Dialogs
    /\ cfg' = ~cfg /\ works' = (Ai /\ cfg') /\ told' = "applied"
    /\ \/ file' = cfg' /\ UNCHANGED faults
       \/ faults < MaxFaults /\ faults' = faults + 1 /\ UNCHANGED file
    /\ UNCHANGED <<main, step, slow, aiVars, badgeVars, bufferVars, report>>

\* _export_report: a thread reads twice and writes; it may be at it when the
\* program closes, and an empty answer is written as "no data".
Export ==
    /\ Dialogs /\ main \in {"window", "closing"}
    /\ \/ main = "window" /\ report = "none" /\ report' = "read" /\ UNCHANGED <<told, faults>>
       \/ report = "read" /\ report' = "write" /\ UNCHANGED <<told, faults>>
       \/ report = "write" /\ main = "window" /\ report' = "told" /\ told' = "saved" /\ UNCHANGED faults
       \/ /\ report = "write" /\ main = "window" /\ faults < MaxFaults /\ faults' = faults + 1
          /\ report' = "failed" /\ told' = "failed"
    /\ UNCHANGED <<main, step, slow, aiVars, badgeVars, bufferVars, cfg, file, works>>

-----------------------------------------------------------------------------
\* The measuring.

Sample(s) ==
    /\ run[s] \in {"on", "told"} /\ taken < MaxSample
    /\ taken' = taken + 1
    /\ pending' = [pending EXCEPT ![s] = @ + 1]
    /\ UNCHANGED <<main, step, slow, aiVars, badgeVars, run, late, dropped, db, cfgVars, faults>>

\* A thread that was told to stop ends after its sample.
Ends(s) ==
    /\ run[s] = "told" /\ run' = [run EXCEPT ![s] = "ended"]
    /\ UNCHANGED <<main, step, slow, aiVars, badgeVars, pending, taken, late, dropped, db,
                   cfgVars, faults>>

\* The buffers of S are emptied into the database; a closed one takes nothing.
Flush(S) ==
    /\ pending' = [s \in Source |-> IF s \in S THEN 0 ELSE pending[s]]
    /\ dropped' = [s \in Source |-> IF s \in S /\ db = "closed" THEN dropped[s] + pending[s]
                                    ELSE dropped[s]]
    /\ UNCHANGED <<taken, late, db>>

\* The samples are written now and then while the threads run.
Write(s) ==
    /\ run[s] = "on" /\ pending[s] > 0
    /\ Flush({s})
    /\ UNCHANGED <<main, step, slow, aiVars, badgeVars, run, cfgVars, faults>>

-----------------------------------------------------------------------------
\* The shutdown, on the main thread.

Close ==
    /\ main = "window"
    /\ main' = "closing"
    /\ UNCHANGED <<step, slow, aiVars, badgeVars, bufferVars, cfgVars, faults>>

\* The steps in their order.
OrderClosedFirst == <<"ui", "ai", "sniffer", "sniffer ends", "pinger", "pinger ends",
                      "windows", "database", "flush">>
Order == Steps

Stop(s) == run' = [run EXCEPT ![s] = IF @ = "on" THEN "told" ELSE @]

\* Ten seconds have gone: three waits of three seconds may take nine.
Slow ==
    /\ main = "closing" /\ ~slow /\ step >= 2 /\ faults < MaxFaults
    /\ slow' = TRUE /\ faults' = faults + 1
    /\ UNCHANGED <<main, step, aiVars, badgeVars, bufferVars, cfgVars>>

\* To stop a source: it is told, what there is is written, and its thread is
\* waited for, but not longer than three seconds.
Awaited(s) ==
    /\ late' = late \cup {x \in {s} \cap Source : run[x] = "told"}
    /\ UNCHANGED <<run, pending, taken, dropped, db>>

StopUi == UNCHANGED <<aiVars, bufferVars>>
StopAi == halt' = TRUE /\ UNCHANGED <<lock, trainer, model, trained, looked, bufferVars>>
StopSource(s) == Stop(s) /\ Flush({s}) /\ UNCHANGED aiVars
FlushAll == Flush(Source) /\ UNCHANGED <<aiVars, run>>
CloseWindows == UNCHANGED <<aiVars, bufferVars>>
CloseDatabase == db' = "closed" /\ UNCHANGED <<aiVars, run, pending, taken, late, dropped>>

Shutdown ==
    /\ main = "closing" /\ ~slow /\ step < Len(Order)
    /\ step' = step + 1
    /\ LET what == Order[step + 1] IN
       \/ what = "ui" /\ StopUi
       \/ what = "ai" /\ StopAi
       \/ what \in {"sniffer", "pinger"} /\ StopSource(what)
       \/ what = "sniffer ends" /\ Awaited("sniffer") /\ UNCHANGED aiVars
       \/ what = "pinger ends" /\ Awaited("pinger") /\ UNCHANGED aiVars
       \/ what = "flush" /\ FlushAll
       \/ what = "windows" /\ CloseWindows
       \/ what = "database" /\ CloseDatabase
    /\ UNCHANGED <<main, slow, badgeVars, cfgVars, faults>>

\* All steps in time: the exit, and its hook finds the database closed.
Clean ==
    /\ main = "closing" /\ step = Len(Order) /\ ~slow
    /\ main' = "gone"
    /\ Flush(Source)
    /\ UNCHANGED <<step, slow, aiVars, badgeVars, run, cfgVars, faults>>

\* Out of time: the buffers once more, then the process is cut off.
CutOff ==
    /\ \/ main = "closing" /\ slow /\ main' = "forced" /\ Flush(Source)
       \/ main = "forced" /\ main' = "gone" /\ UNCHANGED <<pending, taken, late, dropped, db>>
    /\ UNCHANGED <<step, slow, aiVars, badgeVars, run, cfgVars, faults>>

\* Everything stops with the process.
Live == main # "gone"
TrainStep(t) == Live /\ (Train(t) \/ TrainNot(t) \/ Assign(t) \/ Trained(t))
Leave == Shutdown \/ Clean \/ CutOff

Next ==
    \/ Start \/ Window \/ StartMonitoring \/ Retrain \/ Turn \/ OpenAlerts \/ CloseAlerts
    \/ AckAll \/ Save \/ Export \/ Close \/ Slow \/ Leave
    \/ \E t \in Trainer : TrainStep(t)
    \/ Live /\ (Background \/ Alert \/ \E s \in Source : Sample(s) \/ Ends(s) \/ Write(s))

\* The loop turns, trainings end, the shutdown goes on.
FairSpec == /\ Init /\ [][Next]_vars
            /\ WF_vars(Turn) /\ WF_vars(Leave)
            /\ \A t \in Trainer : WF_vars(TrainStep(t))

-----------------------------------------------------------------------------
\* An analysis works with a model, a scaler and features of one training
\* (traffic_agent.py:104).
ModelWhole == \A p, q \in Parts : looked[p] = looked[q]

\* Whatever way the program ends, the closed database refuses only samples of a
\* thread that did not end in time; one that ends cleanly leaves no other in a
\* buffer (graceful_shutdown.py:46).
ExitKeeps == \A s \in Source :
    /\ dropped[s] > 0 => s \in late
    /\ main = "gone" /\ ~slow /\ pending[s] > 0 => s \in late

\* The desktop.
DesktopSound == ModelWhole /\ ExitKeeps

\* The badge comes to agree with the alerts (main_window.py:578), and a
\* shutdown that began ends (graceful_shutdown.py:37).
DesktopDue == main = "closing" \/ (main = "window" /\ badge # unread)
DesktopOver == main = "gone" \/ (main = "window" /\ badge = unread)
LoopServes == DesktopDue ~> DesktopOver

\* ai_dashboard_window.py:284, "the model is trained again": a retraining is
\* told as done or failed, never as short of rows.
Retrains == told # "short"

\* settings_window.py:212, "saved and applied": the file has it.
SavedIsTold == told = "applied" => file = cfg

\* settings_window.py:212: it is applied.  Analysis that was off at the start
\* stays off.
AppliedIsTold == told = "applied" => works = cfg

\* main.py:115, the emergency save: what is in a buffer at the exit is saved.
SavedAtExit == dropped = Zero

=============================================================================
