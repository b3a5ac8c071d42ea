----------------------------- MODULE Incidents -----------------------------
(***************************************************************************)
(* Router incidents (netpulse/operations.py) and their three writers: the  *)
(* MikroTik collector (netpulse/mikrotik.py, poll), the Alertmanager       *)
(* webhook (receive_alerts, one HTTP thread per request) and operators who *)
(* acknowledge, resolve and create incidents.  Every write is one SQLite   *)
(* transaction; everything a thread read before it is stale by then.       *)
(*                                                                         *)
(* Abstracted: titles, severities, occurrence counts, comments and owners  *)
(* (they decide nothing), the collector's measurements (a row is only ok   *)
(* or failed).  maint[r] is "maintenance_until > now", so setting a window *)
(* and letting it lapse are the same toggle.                               *)
(***************************************************************************)
EXTENDS Naturals, Sequences, FiniteSets

CONSTANTS
    Router,        \* configured routers
    OtherKey,      \* event keys "prometheus:<hash>" of alerts that are not shared
    AlertDevice,   \* the router named by such an alert's labels, or NoDevice
    NoDevice,
    Manual,        \* stands for the unique "manual:<uuid>" key of a manual incident
    Webhook,       \* concurrent Alertmanager requests
    MaxIncident,   \* bound: incidents created in a behaviour
    MaxFailures,   \* bound: the consecutive-failure counter saturates here
    MaxFaults,     \* bound: crashes and failed transactions
    MaxBatch       \* bound: alerts in one request (100 in the code)

\* A choice of AlertDevice: every such alert names the same router, so it is
\* subject to the same maintenance window as the incident of that router.
SameDevice == [k \in OtherKey |-> CHOOSE r \in Router : TRUE]

Key == Router \cup OtherKey
Id  == 1..MaxIncident

ASSUME ConstantAssumption ==
    /\ Router \cap OtherKey = {}
    /\ NoDevice \notin Router
    /\ Manual \notin Key
    /\ AlertDevice \in [OtherKey -> Router \cup {NoDevice}]
    /\ MaxIncident \in Nat \ {0}
    /\ MaxFailures \in Nat \ {0, 1}
    /\ MaxFaults \in Nat
    /\ MaxBatch \in Nat \ {0}

VARIABLES
    up,        \* environment: the router answers
    maint,     \* the router is inside its maintenance window
    failures,  \* router_health.failures
    status,    \* incidents.status, "none" for a row not yet inserted
    key,       \* incidents.event_key
    nextId,    \* the next unused incident id
    colPc, colTodo, colRow, colCur, colId,           \* the collector thread
    webPc, webAlerts, webCtx, webId, webNotes,       \* the webhook threads
    sent,      \* notifications handed to Notifications.enqueue, per incident
    faults     \* crashes and failed transactions so far

env     == <<up, maint>>
db      == <<failures, status, key, nextId>>
colVars == <<colPc, colTodo, colRow, colCur, colId>>
webVars == <<webPc, webAlerts, webCtx, webId, webNotes>>
vars    == <<env, db, colVars, webVars, sent, faults>>

Active == {"open", "acknowledged"}
Device(k) == IF k \in Router THEN k ELSE AlertDevice[k]
Alert == [status : {"firing", "resolved"}, key : Key]
Batches == UNION {[1..n -> Alert] : n \in 1..MaxBatch}
ActiveOf(k) == {i \in Id : key[i] = k /\ status[i] \in Active}

NoRow == [r \in Router |-> TRUE]   \* the rows of no poll in progress

ColPc == {"idle", "observe", "lookup", "resolve", "open", "notifyOpened", "notifyResolved"}
WebPc == {"idle", "loop", "health", "resolve", "notify"}

TypeOK ==
    /\ up \in [Router -> BOOLEAN]
    /\ maint \in [Router -> BOOLEAN]
    /\ failures \in [Router -> 0..MaxFailures]
    /\ status \in [Id -> {"none", "open", "acknowledged", "resolved"}]
    /\ key \in [Id -> Key \cup {Manual}]
    /\ nextId \in 1..(MaxIncident + 1)
    /\ colPc \in ColPc
    /\ colTodo \subseteq Router
    /\ colRow \in [Router -> BOOLEAN]
    /\ colCur \in Router
    /\ colId \in Id
    /\ webPc \in [Webhook -> WebPc]
    /\ webAlerts \in [Webhook -> Seq(Alert)]
    /\ webCtx \in [Webhook -> SUBSET Router]
    /\ webId \in [Webhook -> Id]
    /\ webNotes \in [Webhook -> Seq({"opened", "resolved"} \X Id)]
    /\ sent \in [Id -> [opened : Nat, resolved : Nat]]
    /\ faults \in 0..MaxFaults

Init ==
    /\ up \in [Router -> BOOLEAN]
    /\ maint = [r \in Router |-> FALSE]
    /\ failures = [r \in Router |-> 0]
    /\ status = [i \in Id |-> "none"]
    /\ key = [i \in Id |-> Manual]
    /\ nextId = 1
    /\ colPc = "idle"
    /\ colTodo = {}
    /\ colRow = NoRow
    /\ colCur \in Router
    /\ colId = 1
    /\ webPc = [w \in Webhook |-> "idle"]
    /\ webAlerts = [w \in Webhook |-> <<>>]
    /\ webCtx = [w \in Webhook |-> {}]
    /\ webId = [w \in Webhook |-> 1]
    /\ webNotes = [w \in Webhook |-> <<>>]
    /\ sent = [i \in Id |-> [opened |-> 0, resolved |-> 0]]
    /\ faults = 0

-----------------------------------------------------------------------------
(* The two transactions every writer uses.                                 *)

Insert(k) ==
    /\ nextId \in Id
    /\ status' = [status EXCEPT ![nextId] = "open"]
    /\ key' = [key EXCEPT ![nextId] = k]
    /\ nextId' = nextId + 1

\* Mutant: the lookup for an active incident is done outside the transaction.
OpenTxnNoLookup(k) == Insert(k) /\ UNCHANGED failures

\* open_incident: join the active incident of the key or insert a new one.
OpenTxn(k) ==
    /\ \/ ActiveOf(k) # {} /\ UNCHANGED <<status, key, nextId>>
       \/ ActiveOf(k) = {} /\ Insert(k)
    /\ UNCHANGED failures

\* The pair open_incident returns: the incident's id and whether it is new.
OpenedId(k) == IF ActiveOf(k) = {} THEN nextId ELSE CHOOSE i \in ActiveOf(k) : TRUE

\* Mutant: open_incident reports "created" for an incident it only joined.
CreatedAlways(k) == TRUE

\* Mutant: it never does.
CreatedNever(k) == FALSE

Created(k) == ActiveOf(k) = {}

\* change_incident 'resolve' raises ValueError on a resolved incident.
Resolvable(i) == status[i] \in Active

\* Mutant: a status outside the table's vocabulary.
ResolveTxnClosed(i) ==
    /\ status' = [status EXCEPT ![i] = "closed"]
    /\ UNCHANGED <<failures, key, nextId>>

ResolveTxn(i) ==
    /\ status' = [status EXCEPT ![i] = "resolved"]
    /\ UNCHANGED <<failures, key, nextId>>

Notify(kind, i) == sent' = [sent EXCEPT ![i][kind] = @ + 1]

-----------------------------------------------------------------------------
(* The collector: poll and, for each row, observe_router.                  *)

\* poll: measure every configured router under the poll lock.
PollStart ==
    /\ colPc = "idle"
    /\ colPc' = "observe"
    /\ colTodo' = Router
    /\ colRow' = up
    /\ UNCHANGED <<colCur, colId, env, db, webVars, sent, faults>>

PollEnd ==
    /\ colPc = "observe" /\ colTodo = {}
    /\ colPc' = "idle"
    /\ colRow' = NoRow
    /\ UNCHANGED <<colTodo, colCur, colId, env, db, webVars, sent, faults>>

\* Mutant: only the second failed poll opens one, not the later ones.
FailureThresholdOnce(f) == f = 2

FailureThreshold(f) == f >= 2

NextFailures(r) == IF colRow[r] THEN 0
                   ELSE IF failures[r] < MaxFailures THEN failures[r] + 1 ELSE MaxFailures

\* observe_router, first transaction: update router_health, read the window.
Observe(r) ==
    /\ colPc = "observe" /\ r \in colTodo
    /\ colCur' = r
    /\ colTodo' = colTodo \ {r}
    /\ failures' = [failures EXCEPT ![r] = NextFailures(r)]
    /\ colPc' = IF colRow[r] THEN "lookup"
                ELSE IF ~maint[r] /\ FailureThreshold(NextFailures(r)) THEN "open"
                ELSE "observe"
    /\ UNCHANGED <<colRow, colId, env, status, key, nextId, webVars, sent, faults>>

\* Mutant: the lookup forgets incidents an operator has acknowledged.
ColLookupOpenOnly ==
    /\ colPc = "lookup"
    /\ \/ /\ \A i \in ActiveOf(colCur) : status[i] # "open"
          /\ colPc' = "observe"
          /\ UNCHANGED colId
       \/ \E i \in ActiveOf(colCur) :
             /\ status[i] = "open"
             /\ colId' = i
             /\ colPc' = "resolve"
    /\ UNCHANGED <<colTodo, colRow, colCur, env, db, webVars, sent, faults>>

\* observe_router after a successful poll: is there an active incident?
ColLookup ==
    /\ colPc = "lookup"
    /\ \/ /\ ActiveOf(colCur) = {}
          /\ colPc' = "observe"
          /\ UNCHANGED colId
       \/ \E i \in ActiveOf(colCur) :
             /\ colId' = i
             /\ colPc' = "resolve"
    /\ UNCHANGED <<colTodo, colRow, colCur, env, db, webVars, sent, faults>>

\* The incident may have been resolved since the lookup: ValueError, caught
\* in poll as persistence_error, and no notification.
ColResolve ==
    /\ colPc = "resolve"
    /\ \/ /\ Resolvable(colId)
          /\ ResolveTxn(colId)
          /\ colPc' = "notifyResolved"
       \/ /\ ~Resolvable(colId)
          /\ colPc' = "observe"
          /\ UNCHANGED db
    /\ UNCHANGED <<colTodo, colRow, colCur, colId, env, webVars, sent, faults>>

ColOpen ==
    /\ colPc = "open"
    /\ OpenTxn(colCur)
    /\ colId' = OpenedId(colCur)
    /\ colPc' = IF Created(colCur) THEN "notifyOpened" ELSE "observe"
    /\ UNCHANGED <<colTodo, colRow, colCur, env, webVars, sent, faults>>

ColNotify ==
    /\ \/ colPc = "notifyOpened" /\ Notify("opened", colId)
       \/ colPc = "notifyResolved" /\ Notify("resolved", colId)
    /\ colPc' = "observe"
    /\ UNCHANGED <<colTodo, colRow, colCur, colId, env, db, webVars, faults>>

Collector ==
    \/ PollStart
    \/ \E r \in Router : Observe(r)
    \/ ColLookup
    \/ ColResolve
    \/ ColOpen
    \/ ColNotify
    \/ PollEnd

-----------------------------------------------------------------------------
(* The Alertmanager webhook: receive_alerts and alertmanager_receive.      *)

\* The locals of a request that is over.
WebForget(W) ==
    /\ webPc' = [w \in Webhook |-> IF w \in W THEN "idle" ELSE webPc[w]]
    /\ webAlerts' = [w \in Webhook |-> IF w \in W THEN <<>> ELSE webAlerts[w]]
    /\ webCtx' = [w \in Webhook |-> IF w \in W THEN {} ELSE webCtx[w]]
    /\ webId' = [w \in Webhook |-> IF w \in W THEN 1 ELSE webId[w]]
    /\ webNotes' = [w \in Webhook |-> IF w \in W THEN <<>> ELSE webNotes[w]]

\* The maintenance windows are read once, before the loop over the alerts.
Receive(w, batch) ==
    /\ webPc[w] = "idle"
    /\ webPc' = [webPc EXCEPT ![w] = "loop"]
    /\ webAlerts' = [webAlerts EXCEPT ![w] = batch]
    /\ webCtx' = [webCtx EXCEPT ![w] = {r \in Router : maint[r]}]
    /\ webNotes' = [webNotes EXCEPT ![w] = <<>>]
    /\ UNCHANGED <<webId, env, db, colVars, sent, faults>>

NextAlert(w) == webAlerts' = [webAlerts EXCEPT ![w] = Tail(@)]

Firing(w) ==
    /\ webPc[w] = "loop" /\ webAlerts[w] # <<>>
    /\ Head(webAlerts[w]).status = "firing"
    /\ NextAlert(w)
    /\ LET k == Head(webAlerts[w]).key IN
       \/ /\ Device(k) \in webCtx[w]
          /\ UNCHANGED <<db, webNotes>>
       \/ /\ Device(k) \notin webCtx[w]
          /\ OpenTxn(k)
          /\ webNotes' = IF Created(k)
                         THEN [webNotes EXCEPT ![w] = Append(@, <<"opened", OpenedId(k)>>)]
                         ELSE webNotes
    /\ UNCHANGED <<webPc, webCtx, webId, env, colVars, sent, faults>>

\* A resolved alert: find the active incident of the key, ...
WebLookup(w) ==
    /\ webPc[w] = "loop" /\ webAlerts[w] # <<>>
    /\ Head(webAlerts[w]).status = "resolved"
    /\ LET k == Head(webAlerts[w]).key IN
       \/ /\ ActiveOf(k) = {}
          /\ NextAlert(w)
          /\ UNCHANGED <<webPc, webId>>
       \/ \E i \in ActiveOf(k) :
             /\ webId' = [webId EXCEPT ![w] = i]
             /\ webPc' = [webPc EXCEPT ![w] = "health"]
             /\ UNCHANGED webAlerts
    /\ UNCHANGED <<webCtx, webNotes, env, db, colVars, sent, faults>>

CollectorFailing(k) == k \in Router /\ failures[k] > 0

\* ... then read the collector's health of a shared key, ...
WebHealth(w) ==
    /\ webPc[w] = "health"
    /\ IF CollectorFailing(Head(webAlerts[w]).key)
       THEN NextAlert(w) /\ webPc' = [webPc EXCEPT ![w] = "loop"]
       ELSE webPc' = [webPc EXCEPT ![w] = "resolve"] /\ UNCHANGED webAlerts
    /\ UNCHANGED <<webCtx, webId, webNotes, env, db, colVars, sent, faults>>

\* ... then resolve it in a transaction of its own.
WebResolve(w) ==
    /\ webPc[w] = "resolve"
    /\ NextAlert(w)
    /\ webPc' = [webPc EXCEPT ![w] = "loop"]
    /\ \/ /\ Resolvable(webId[w])
          /\ ResolveTxn(webId[w])
          /\ webNotes' = [webNotes EXCEPT ![w] = Append(@, <<"resolved", webId[w]>>)]
       \/ /\ ~Resolvable(webId[w])
          /\ UNCHANGED <<db, webNotes>>
    /\ UNCHANGED <<webCtx, webId, env, colVars, sent, faults>>

WebLoopEnd(w) ==
    /\ webPc[w] = "loop" /\ webAlerts[w] = <<>>
    /\ webPc' = [webPc EXCEPT ![w] = "notify"]
    /\ UNCHANGED <<webAlerts, webCtx, webId, webNotes, env, db, colVars, sent, faults>>

\* alertmanager_receive enqueues the collected notifications last.
WebNotify(w) ==
    /\ webPc[w] = "notify"
    /\ IF webNotes[w] = <<>>
       THEN /\ WebForget({w})
            /\ UNCHANGED sent
       ELSE /\ Notify(Head(webNotes[w])[1], Head(webNotes[w])[2])
            /\ webNotes' = [webNotes EXCEPT ![w] = Tail(@)]
            /\ UNCHANGED <<webPc, webAlerts, webCtx, webId>>
    /\ UNCHANGED <<env, db, colVars, faults>>

WebStep(w) ==
    \/ Firing(w)
    \/ WebLookup(w)
    \/ WebHealth(w)
    \/ WebResolve(w)
    \/ WebLoopEnd(w)
    \/ WebNotify(w)

-----------------------------------------------------------------------------
(* Operators, the environment, and failures.                               *)

\* Mutant: a resolved incident can be acknowledged, and is active again.
AcknowledgeableResolved(i) == status[i] \in {"open", "resolved"}

\* change_incident 'acknowledge' is refused unless the incident is open.
Acknowledgeable(i) == status[i] = "open"

Acknowledge(i) ==
    /\ Acknowledgeable(i)
    /\ status' = [status EXCEPT ![i] = "acknowledged"]
    /\ UNCHANGED <<failures, key, nextId, env, colVars, webVars, sent, faults>>

OperatorResolve(i) ==
    /\ Resolvable(i)
    /\ ResolveTxn(i)
    /\ UNCHANGED <<env, colVars, webVars, sent, faults>>

\* incident_create: a manual incident has a key of its own and joins nothing.
CreateManual ==
    /\ Insert(Manual)
    /\ UNCHANGED <<failures, env, colVars, webVars, sent, faults>>

\* save_context by an operator, or the window running out.
MaintenanceToggle(r) ==
    /\ maint' = [maint EXCEPT ![r] = ~@]
    /\ UNCHANGED <<up, db, colVars, webVars, sent, faults>>

LinkToggle(r) ==
    /\ up' = [up EXCEPT ![r] = ~@]
    /\ UNCHANGED <<maint, db, colVars, webVars, sent, faults>>

\* A transaction of the collector raises: poll catches it row by row.  So
\* does an enqueue that raises after the incident was written.
ColFault ==
    /\ faults < MaxFaults
    /\ colPc \notin {"idle", "observe"}
    /\ colPc' = "observe"
    /\ faults' = faults + 1
    /\ UNCHANGED <<colTodo, colRow, colCur, colId, env, db, webVars, sent>>

\* A transaction of the webhook raises: the request fails with what its
\* earlier alerts wrote still committed and their notifications dropped.
WebFault(w) ==
    /\ faults < MaxFaults
    /\ webPc[w] # "idle"
    /\ WebForget({w})
    /\ faults' = faults + 1
    /\ UNCHANGED <<env, db, colVars, sent>>

\* The process dies and restarts: the database survives, the threads do not.
Crash ==
    /\ faults < MaxFaults
    /\ faults' = faults + 1
    /\ colPc' = "idle"
    /\ colTodo' = {}
    /\ colRow' = NoRow
    /\ WebForget(Webhook)
    /\ UNCHANGED <<colCur, colId, env, db, sent>>

Next ==
    \/ Collector
    \/ \E w \in Webhook, b \in Batches : Receive(w, b)
    \/ \E w \in Webhook : WebStep(w)
    \/ \E i \in Id : Acknowledge(i) \/ OperatorResolve(i)
    \/ CreateManual
    \/ \E r \in Router : MaintenanceToggle(r) \/ LinkToggle(r)
    \/ ColFault
    \/ \E w \in Webhook : WebFault(w)
    \/ Crash

Spec == Init /\ [][Next]_vars

\* poll runs in an endless loop and a request thread runs to its end.
FairSpec == Spec /\ WF_vars(Collector) /\ \A w \in Webhook : WF_vars(WebStep(w))

-----------------------------------------------------------------------------

\* At most one active incident per automatic event key, whoever opens it
\* (open_incident's BEGIN IMMEDIATE lookup and insert).
OneActivePerKey == \A k \in Key : \A i, j \in ActiveOf(k) : i = j

\* An incident is announced as opened, and as resolved, at most once, and a
\* "resolved" message is only ever about a resolved incident: the writers
\* that race for one transition do not both report it.
AnnouncedOnce ==
    \A i \in Id : /\ sent[i].opened <= 1 /\ sent[i].resolved <= 1
                  /\ sent[i].resolved = 1 => status[i] = "resolved"

\* Without crashes and failed transactions nothing is lost: when neither the
\* collector nor a request is at work, every automatic incident was announced.
NothingUnannounced ==
    (faults = 0 /\ colPc \in {"idle", "observe"} /\ \A w \in Webhook : webPc[w] = "idle")
        => \A i \in Id : key[i] \in Key /\ status[i] # "none" => sent[i].opened = 1

\* The writers that race for one transition tell of it once, and it is told
\* (open_incident, resolve_incident and the calls of _notify after them).
Announced == AnnouncedOnce /\ NothingUnannounced

\* A closed incident stays closed and an incident is never forgotten
\* (change_incident's status checks).
LifeCycle ==
    [][\A i \in Id : /\ status[i] = "resolved" => status'[i] = "resolved"
                     /\ status[i] = "acknowledged" => status'[i] \in {"acknowledged", "resolved"}
                     /\ status[i] # "none" => status'[i] # "none" /\ key'[i] = key[i]]_vars

\* The collector opens an incident only on two failed polls in a row, and
\* closes one only after a successful poll, although it decides on values it
\* read in an earlier transaction (observe_router).
CollectorActsOnHealth ==
    /\ colPc = "open" => failures[colCur] >= 2
    /\ colPc \in {"lookup", "resolve"} => failures[colCur] = 0

\* A router that stays down outside maintenance always gets an incident
\* again, whatever operators and Alertmanager close in between.
DownIsReported ==
    \A r \in Router : <>[](~up[r] /\ ~maint[r]) => []<>(ActiveOf(r) # {} \/ nextId > MaxIncident)

\* A router that stays up never keeps an incident.
UpIsCleared ==
    \A r \in Router : <>[]up[r] => []<>(ActiveOf(r) = {})

\* What the health of a router is in the long run, its incidents follow
\* (observe_router, poll).
ReportedAndCleared == DownIsReported /\ UpIsCleared

\* docs/OPERATIONS.md:56: Alertmanager does not close the shared incident
\* while the local collector records a failure (receive_alerts).
AlertmanagerDefers ==
    [][\A w \in Webhook : \A i \in Id :
          (webPc[w] = "resolve" /\ webPc'[w] = "loop" /\ webId[w] = i
             /\ status[i] \in Active /\ status'[i] = "resolved" /\ key[i] \in Router)
                => failures[key[i]] = 0]_vars

=============================================================================
