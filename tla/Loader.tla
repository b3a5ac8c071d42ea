------------------------------- MODULE Loader -------------------------------
(* The services of a node: loader.py imports them, manager.py registers     *)
(* their methods, context.py starts and stops them in their order, and a    *)
(* watcher thread loads a file again when it changes.  One service and its  *)
(* versions; the modules before it are one module, Core.                    *)
EXTENDS Naturals, Sequences, FiniteSets, SequencesExt

CONSTANTS MaxVersion,
          Name,        \* names of methods
          Methods,     \* [1 .. MaxVersion -> SUBSET Name]
          MaxFaults

VARIABLES phase,    \* of the context
          pos,      \* the module whose turn it is in startup and shutdown
          modules,  \* AppContext._modules
          reg,      \* the registered instance
          meth,     \* [Name -> the instance whose method is served]
          on,       \* [version -> how many of its starts are not stopped]
          made,     \* versions made so far
          swap,     \* [version -> its _swap_async]
          away,     \* a call to the service of the same name on another node
          overlap,  \* two swaps, or a swap and startup or shutdown, overlapped
          late,     \* an instance was activated when startup was over
          early,    \* one was activated over another, before the loop was known
          faults

vars == <<phase, pos, modules, reg, meth, on, made, swap, away, overlap, late, early, faults>>

Version == 1 .. MaxVersion
Core == 0
Never == 0
NoSwap == [pc |-> "none", old |-> Never]

TypeOK ==
    /\ phase \in {"boot", "starting", "up", "stopping", "down"}
    /\ modules \in Seq(Version \cup {Core}) /\ Len(modules) <= MaxVersion + 1
    /\ pos \in 0 .. MaxVersion + 2
    /\ reg \in Version \cup {Never}
    /\ meth \in [Name -> Version \cup {Never}]
    /\ on \in [Version -> 0 .. 2]
    /\ made \in 0 .. MaxVersion
    /\ swap \in [Version -> [pc : {"none", "queued", "stopped", "done"},
                             old : Version \cup {Never}]]
    /\ away \in {"idle", "waits", "answered", "cut"}
    /\ overlap \in BOOLEAN /\ late \in BOOLEAN /\ early \in BOOLEAN
    /\ faults \in 0 .. MaxFaults

Nobody == [n \in Name |-> Never]
Queued(old) == [pc |-> "queued", old |-> old]

\* register_method for each of them: what is there under another name stays.
Registered(table, v) == [n \in Name |-> IF n \in Methods[v] THEN v ELSE table[n]]

\* Mutant: replace_service that registers over the old methods.
ReplacedOnto(v) == Registered(meth, v)
Replaced(v) == Registered(Nobody, v)

\* After the scans, in main: nothing yet, the service of the program, or one
\* beside it as well, which the loader takes for a new version of the first.
Init ==
    /\ phase = "boot" /\ pos = 1
    /\ made \in 0 .. 2
    /\ modules = IF made = 0 THEN <<Core>> ELSE <<Core, 1>>
    /\ reg = IF made = 0 THEN Never ELSE 1
    /\ meth = IF made = 0 THEN Nobody ELSE Registered(Nobody, 1)
    /\ on = [v \in Version |-> 0]
    /\ swap = [v \in Version |-> IF made = 2 /\ v = 2 THEN Queued(1) ELSE NoSwap]
    /\ away = "idle"
    /\ overlap = FALSE /\ late = FALSE /\ early = FALSE /\ faults = 0

Fault == faults < MaxFaults /\ faults' = faults + 1
Works == UNCHANGED faults

Unfinished == {v \in Version : swap[v].pc \in {"queued", "stopped"}}

ctxVars == <<phase, pos>>
tableVars == <<reg, meth>>
ghostVars == <<overlap, late, early>>

-----------------------------------------------------------------------------
\* AppContext.
Run(m) == on' = IF m = Core THEN on ELSE [on EXCEPT ![m] = @ + 1]
Halt(m) == on' = IF m = Core THEN on ELSE [on EXCEPT ![m] = 0]

Startup ==
    /\ phase = "boot" /\ phase' = "starting"
    /\ UNCHANGED <<pos, modules, tableVars, on, made, swap, away, ghostVars, faults>>

\* The list is read as it is when the turn comes.
StartNext ==
    /\ phase = "starting"
    /\ IF pos > Len(modules) THEN phase' = "up" /\ UNCHANGED <<pos, on, faults>>
       ELSE \/ Run(modules[pos]) /\ pos' = pos + 1 /\ Works /\ UNCHANGED phase
            \/ Fault /\ phase' = "down" /\ UNCHANGED <<pos, on>>
    /\ UNCHANGED <<modules, tableVars, made, swap, away, ghostVars>>

Shutdown ==
    /\ phase = "up" /\ phase' = "stopping" /\ pos' = Len(modules)
    /\ UNCHANGED <<modules, tableVars, on, made, swap, away, ghostVars, faults>>

\* A module that cannot stop leaves those before it running.
StopNext ==
    /\ phase = "stopping"
    /\ IF pos = 0 THEN phase' = "down" /\ UNCHANGED <<pos, on, faults>>
       ELSE \/ Halt(modules[pos]) /\ pos' = pos - 1 /\ Works /\ UNCHANGED phase
            \/ Fault /\ phase' = "down" /\ UNCHANGED <<pos, on>>
    /\ UNCHANGED <<modules, tableVars, made, swap, away, ghostVars>>

-----------------------------------------------------------------------------
\* _activate: registered and in the list, to be started by startup.
Activate(v) ==
    /\ reg' = v /\ meth' = Registered(meth, v)
    /\ modules' = Append(modules, v)
    /\ late' = (late \/ phase \in {"up", "stopping"})
    /\ early' = (early \/ reg # Never)
    /\ UNCHANGED <<swap, overlap>>

\* _cancel_pending: what this node waits for from a service of this name.
Cut == away' = IF away = "waits" THEN "cut" ELSE away

\* The watcher: an event for a file, or two for one change of it.  A class that
\* cannot be made or has no methods costs the pending calls all the same.
Change ==
    /\ phase \in {"boot", "starting", "up", "stopping"} /\ made < MaxVersion
    /\ Cut
    /\ LET v == made + 1
       IN  /\ made' = v
           /\ IF reg = Never \/ phase = "boot" THEN Activate(v)
              ELSE /\ swap' = [swap EXCEPT ![v] = Queued(reg)]
                   /\ overlap' = (overlap \/ phase # "up" \/ Unfinished # {})
                   /\ UNCHANGED <<modules, tableVars, late, early>>
    /\ UNCHANGED <<ctxVars, on, faults>>

NotMade ==
    /\ phase \in {"boot", "starting", "up", "stopping"} /\ Fault
    /\ Cut
    /\ UNCHANGED <<ctxVars, modules, tableVars, on, made, swap, ghostVars>>

\* _swap_async, a task of its own: up to the stop of the old instance; the tasks
\* begin in their order.
\* Mutant: the old instance is not stopped.
HaltsNot(v) == UNCHANGED on
Halts(v) == Halt(swap[v].old)

SwapStops(v) ==
    /\ swap[v].pc = "queued" /\ \A w \in Unfinished : swap[w].pc = "queued" => v <= w
    /\ phase \in {"starting", "up", "stopping"}
    /\ \/ Halts(v) /\ Works
       \/ Fault /\ UNCHANGED on
    /\ swap' = [swap EXCEPT ![v].pc = "stopped"]
    /\ overlap' = (overlap \/ phase # "up" \/ Unfinished # {v})
    /\ UNCHANGED <<ctxVars, modules, tableVars, made, away, late, early>>

\* Then without an await: the list, the registry and the start.
SwapStarts(v) ==
    /\ swap[v].pc = "stopped" /\ phase \in {"starting", "up", "stopping"}
    /\ modules' = [i \in DOMAIN modules |-> IF modules[i] = swap[v].old THEN v
                                            ELSE modules[i]]
    /\ reg' = v /\ meth' = Replaced(v)
    /\ \/ Run(v) /\ Works
       \/ Fault /\ UNCHANGED on
    /\ swap' = [swap EXCEPT ![v].pc = "done"]
    /\ overlap' = (overlap \/ phase # "up" \/ Unfinished # {v})
    /\ UNCHANGED <<ctxVars, made, away, late, early>>

\* remove_service: a service that finds nothing to work with takes the name away,
\* whoever has it now; it stays in the list.
Retire(v) ==
    /\ on[v] > 0 /\ phase \in {"starting", "up"} /\ Fault
    /\ on' = [on EXCEPT ![v] = 0]
    /\ reg' = Never /\ meth' = Nobody
    /\ UNCHANGED <<ctxVars, modules, made, swap, away, ghostVars>>

\* SessionStore: a call to another node, and its answer.
CallAway ==
    /\ phase = "up" /\ away = "idle" /\ away' = "waits"
    /\ UNCHANGED <<ctxVars, modules, tableVars, on, made, swap, ghostVars, faults>>
AnswerAway ==
    /\ away = "waits" /\ away' = "answered"
    /\ UNCHANGED <<ctxVars, modules, tableVars, on, made, swap, ghostVars, faults>>

Next == \/ Startup \/ StartNext \/ Shutdown \/ StopNext
        \/ Change \/ NotMade \/ CallAway \/ AnswerAway
        \/ \E v \in Version : SwapStops(v) \/ SwapStarts(v) \/ Retire(v)

Spec == Init /\ [][Next]_vars

-----------------------------------------------------------------------------
Running == {v \in Version : on[v] > 0}
Rest == phase = "up" /\ Unfinished = {} /\ faults = 0

\* The methods that are served are those of one instance (manager.py:31), unless
\* one was activated over another before the loop was known.
ServedWhole == early \/ \A n \in Name : meth[n] \in {Never, reg}

\* When each swap had the node to itself one instance runs, it is the one whose
\* methods are served and shutdown will stop it (loader.py:101).
RunsAlone == Rest /\ ~overlap /\ ~late /\ ~early
                 => Running = {reg} \ {Never} /\ ToSet(modules) = {Core, reg}

\* After such a life nothing runs (context.py:48).
AllStopped == phase = "down" /\ faults = 0 /\ ~overlap /\ ~late => Running = {}

LoaderSound == ServedWhole /\ RunsAlone /\ AllStopped

\* loader.py:101: stop the old one, start the new one; of two events for one
\* change the first instance goes on for ever.
OneRuns == Rest /\ ~late /\ ~early => Cardinality(Running) <= 1

\* loader.py:109: startup starts what is activated; a file that is added to a
\* running node is served and never started.
ServedRuns == Rest /\ ~early => reg \in Running

\* context.py:45: startup starts each module; one that a swap put into the list
\* before its turn is started twice.
StartedOnce == \A v \in Version : on[v] <= 1

\* loader.py:166: the calls of the service that is loaded anew are cancelled; the
\* calls of this node to another one are cancelled too.
CallsAwayKept == away # "cut"

=============================================================================
