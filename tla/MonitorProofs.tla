---------------------------- MODULE MonitorProofs ----------------------------
(* Machine-checked invariance proofs for Incidents, for every set of routers, *)
(* alert keys and webhook threads and every bound, and for the parts of the   *)
(* monitoring service, for all sizes that the code allows (Sizes).  Each part *)
(* has an inductive invariant of its own, kept by its steps and disturbed by  *)
(* no other part; the last section puts them together.                        *)
EXTENDS Incidents, Monitor, FiniteSetTheorems, SequenceTheorems, WellFoundedInduction,
        TLAPS

-----------------------------------------------------------------------------
(* The incidents.                                                          *)

\* Rows beyond nextId are not inserted yet, so Insert never hits a live row.
Unused == \A i \in Id : i >= nextId => status[i] = "none"

\* The part of TypeOK the safety argument is about; each transaction keeps it.
DbOK ==
    /\ failures \in [Router -> 0..MaxFailures]
    /\ status \in [Id -> {"none", "open", "acknowledged", "resolved"}]
    /\ key \in [Id -> Key \cup {Manual}]
    /\ nextId \in 1..(MaxIncident + 1)

\* open_incident keeps the table well formed and its key constraint.
LEMMA OpenTxnKeeps ==
    ASSUME DbOK, Unused, OneActivePerKey, NEW k \in Key, OpenTxn(k)
    PROVE  DbOK' /\ Unused' /\ OneActivePerKey'
PROOF
  <1>1. CASE UNCHANGED <<status, key, nextId>>
    BY <1>1 DEF OpenTxn, DbOK, Unused, OneActivePerKey, ActiveOf
  <1>2. CASE ActiveOf(k) = {} /\ Insert(k)
    <2> USE <1>2 DEF Insert, DbOK, Id
    <2>1. failures' = failures
      BY DEF OpenTxn
    <2>2. DbOK'
      BY <2>1, ConstantAssumption
    <2>3. Unused'
      BY ConstantAssumption DEF Unused
    <2>4. ASSUME NEW l \in Key, NEW i \in ActiveOf(l)', NEW j \in ActiveOf(l)'
          PROVE  i = j
      <3>1. CASE i # nextId /\ j # nextId
        BY <2>4, <3>1 DEF OneActivePerKey, ActiveOf
      <3>2. CASE i = nextId \/ j = nextId
        <4>1. l = k
          BY <2>4, <3>2 DEF ActiveOf
        <4>2. QED
          BY <2>4, <3>2, <4>1 DEF ActiveOf
      <3>3. QED
        BY <3>1, <3>2
    <2>5. QED
      BY <2>2, <2>3, <2>4 DEF OneActivePerKey
  <1>3. QED
    BY <1>1, <1>2 DEF OpenTxn

\* Resolving an incident opens none.
LEMMA ResolveTxnKeeps ==
    ASSUME DbOK, Unused, OneActivePerKey, NEW i \in Id, Resolvable(i), ResolveTxn(i)
    PROVE  DbOK' /\ Unused' /\ OneActivePerKey'
  BY DEF ResolveTxn, Resolvable, DbOK, Unused, OneActivePerKey, ActiveOf, Active

LEMMA AcknowledgeKeeps ==
    ASSUME DbOK, Unused, OneActivePerKey, NEW i \in Id, Acknowledge(i)
    PROVE  DbOK' /\ Unused' /\ OneActivePerKey'
  BY DEF Acknowledge, Acknowledgeable, DbOK, Unused, OneActivePerKey, ActiveOf, Active

\* A manual incident's key is no event key.
LEMMA CreateManualKeeps ==
    ASSUME DbOK, Unused, OneActivePerKey, CreateManual
    PROVE  DbOK' /\ Unused' /\ OneActivePerKey'
  BY ConstantAssumption
     DEF CreateManual, Insert, DbOK, Unused, OneActivePerKey, ActiveOf, Active, Id

\* The id open_incident returns names a row.
LEMMA OpenedIdType ==
    ASSUME DbOK, NEW k \in Key, OpenTxn(k)
    PROVE  OpenedId(k) \in Id
  <1>1. CASE ActiveOf(k) = {}
    BY <1>1 DEF OpenTxn, Insert, OpenedId
  <1>2. CASE ActiveOf(k) # {}
    BY <1>2 DEF OpenedId, ActiveOf
  <1>3. QED
    BY <1>1, <1>2

-----------------------------------------------------------------------------

\* A request between its lookup and its transaction still has the alert.
HasAlert == \A w \in Webhook : webPc[w] \in {"health", "resolve"} => webAlerts[w] # <<>>

\* Everything the threads hold is well typed: the collector's registers, ...
ColOK ==
    /\ colPc \in ColPc
    /\ colTodo \subseteq Router
    /\ colRow \in [Router -> BOOLEAN]
    /\ colCur \in Router
    /\ colId \in Id

\* ... and the webhook requests'.
WebOK ==
    /\ webPc \in [Webhook -> WebPc]
    /\ webAlerts \in [Webhook -> Seq(Alert)]
    /\ webCtx \in [Webhook -> SUBSET Router]
    /\ webId \in [Webhook -> Id]
    /\ webNotes \in [Webhook -> Seq({"opened", "resolved"} \X Id)]
    /\ HasAlert

\* The rest of TypeOK.
RestOK ==
    /\ up \in [Router -> BOOLEAN]
    /\ maint \in [Router -> BOOLEAN]
    /\ sent \in [Id -> [opened : Nat, resolved : Nat]]
    /\ faults \in 0..MaxFaults

LEMMA TypeOKParts == TypeOK /\ HasAlert <=> DbOK /\ ColOK /\ WebOK /\ RestOK
  BY DEF TypeOK, DbOK, ColOK, WebOK, RestOK

\* The typed part every proof below works with.
TInv == TypeOK /\ HasAlert /\ Unused /\ OneActivePerKey

LEMMA InitTInv == Init => TInv
  BY ConstantAssumption
     DEF Init, TInv, TypeOK, Unused, OneActivePerKey, HasAlert, ActiveOf, Active, Id, Key, NoRow, ColPc, WebPc

\* Announcing counts one message of the incident.
LEMMA NotifyKeeps ==
    ASSUME sent \in [Id -> [opened : Nat, resolved : Nat]],
           NEW kind \in {"opened", "resolved"}, NEW i \in Id, Notify(kind, i)
    PROVE  sent' \in [Id -> [opened : Nat, resolved : Nat]]
  <1>1. CASE kind = "opened"
    BY <1>1 DEF Notify
  <1>2. CASE kind = "resolved"
    BY <1>2 DEF Notify
  <1>3. QED
    BY <1>1, <1>2

\* Every collector step keeps the invariant.
LEMMA CollectorKeeps ==
    ASSUME TInv, Collector
    PROVE  TInv'
  <1> USE DEF TInv
  <1>0. DbOK /\ ColOK /\ WebOK /\ RestOK
    BY TypeOKParts
  <1>1. CASE PollStart
    BY <1>1 DEF PollStart, TypeOK, ColPc, env, db, webVars, Unused, OneActivePerKey, HasAlert, ActiveOf
  <1>2. ASSUME NEW r \in Router, Observe(r) PROVE TInv'
    <2>1. NextFailures(r) \in 0..MaxFailures
      BY ConstantAssumption DEF NextFailures, TypeOK
    <2>2. TypeOK'
      BY <1>2, <2>1 DEF Observe, TypeOK, ColPc, env, webVars
    <2>3. QED
      BY <1>2, <2>2 DEF Observe, webVars, Unused, OneActivePerKey, HasAlert, ActiveOf
  <1>3. CASE ColLookup
    BY <1>3 DEF ColLookup, TypeOK, ColPc, env, db, webVars, Unused, OneActivePerKey, HasAlert, ActiveOf
  <1>4. CASE ColResolve
    <2>1. DbOK' /\ Unused' /\ OneActivePerKey'
      <3>1. CASE Resolvable(colId) /\ ResolveTxn(colId)
        BY <3>1, <1>0, ResolveTxnKeeps DEF ColOK
      <3>2. CASE UNCHANGED db
        BY <3>2, <1>0 DEF db, DbOK, Unused, OneActivePerKey, HasAlert, ActiveOf
      <3>3. QED
        BY <1>4, <3>1, <3>2 DEF ColResolve
    <2>2. ColOK' /\ WebOK' /\ RestOK'
      BY <1>0, <1>4 DEF ColResolve, ColOK, WebOK, HasAlert, RestOK, ColPc, env, webVars
    <2>3. QED
      BY <2>1, <2>2 DEF TypeOK, DbOK, ColOK, WebOK, RestOK
  <1>5. CASE ColOpen
    <2>1. colCur \in Key /\ OpenTxn(colCur)
      BY <1>5 DEF ColOpen, TypeOK, Key
    <2>2. DbOK' /\ Unused' /\ OneActivePerKey'
      BY <1>0, <2>1, OpenTxnKeeps
    <2>3. ColOK' /\ WebOK' /\ RestOK'
      <3>1. OpenedId(colCur) \in Id
        BY <1>0, <2>1, OpenedIdType
      <3>2. QED
        BY <1>0, <1>5, <3>1 DEF ColOpen, ColOK, WebOK, HasAlert, RestOK, ColPc, env, webVars
    <2>4. QED
      BY <2>2, <2>3 DEF TypeOK, DbOK, ColOK, WebOK, RestOK
  <1>6. CASE ColNotify
    <2>1. sent' \in [Id -> [opened : Nat, resolved : Nat]]
      BY <1>6, NotifyKeeps DEF ColNotify, TypeOK
    <2>2. QED
      BY <1>6, <2>1
         DEF ColNotify, TypeOK, ColPc, env, db, webVars, Unused, OneActivePerKey, HasAlert, ActiveOf
  <1>7. CASE PollEnd
    BY <1>7 DEF PollEnd, TypeOK, ColPc, NoRow, env, db, webVars, Unused, OneActivePerKey, HasAlert, ActiveOf
  <1>8. QED
    BY <1>1, <1>2, <1>3, <1>4, <1>5, <1>6, <1>7 DEF Collector

\* A finished request leaves well-typed registers behind.
LEMMA WebForgetKeeps ==
    ASSUME WebOK, NEW W \in SUBSET Webhook, WebForget(W)
    PROVE  WebOK'
  <1>1. 1 \in Id
    BY ConstantAssumption DEF Id
  <1>2. webAlerts' \in [Webhook -> Seq(Alert)]
    BY DEF WebOK, WebForget
  <1>3. webNotes' \in [Webhook -> Seq({"opened", "resolved"} \X Id)]
    BY DEF WebOK, WebForget
  <1>4. webPc' \in [Webhook -> WebPc] /\ webCtx' \in [Webhook -> SUBSET Router]
        /\ webId' \in [Webhook -> Id]
    BY <1>1 DEF WebOK, WebForget, WebPc
  <1>5. HasAlert'
    BY DEF WebOK, WebForget, HasAlert
  <1>6. QED
    BY <1>2, <1>3, <1>4, <1>5 DEF WebOK

\* Every webhook step keeps the invariant.
LEMMA WebStepKeeps ==
    ASSUME TInv, NEW w \in Webhook, WebStep(w)
    PROVE  TInv'
  <1> USE DEF TInv
  <1>0. DbOK /\ ColOK /\ WebOK /\ RestOK
    BY TypeOKParts
  <1>a. ASSUME DbOK', Unused', OneActivePerKey', ColOK', WebOK', RestOK'
        PROVE  TInv'
    BY <1>a DEF TypeOK, DbOK, ColOK, WebOK, RestOK
  <1>1. CASE Firing(w)
    <2> DEFINE k == Head(webAlerts[w]).key
    <2>1. Head(webAlerts[w]) \in Alert /\ Tail(webAlerts[w]) \in Seq(Alert)
      BY <1>0, <1>1 DEF Firing, WebOK
    <2>0. k \in Key
      BY <2>1 DEF Alert
    <2>2. DbOK' /\ Unused' /\ OneActivePerKey'
      <3>1. CASE OpenTxn(k)
        BY <1>0, <2>0, <3>1, OpenTxnKeeps
      <3>2. CASE UNCHANGED db
        BY <3>2, <1>0 DEF db, DbOK, Unused, OneActivePerKey, HasAlert, ActiveOf
      <3>3. QED
        BY <1>1, <3>1, <3>2 DEF Firing
    <2>3. webNotes' \in [Webhook -> Seq({"opened", "resolved"} \X Id)]
      <3>1. CASE UNCHANGED webNotes
        BY <1>0, <3>1 DEF WebOK
      <3>2. CASE OpenTxn(k) /\ webNotes' = [webNotes EXCEPT ![w] = Append(@, <<"opened", OpenedId(k)>>)]
        <4>1. OpenedId(k) \in Id
          BY <1>0, <2>0, <3>2, OpenedIdType
        <4>2. QED
          BY <1>0, <3>2, <4>1 DEF WebOK
      <3>3. QED
        BY <1>1, <3>1, <3>2 DEF Firing
    <2>4. ColOK' /\ WebOK' /\ RestOK'
      BY <1>0, <1>1, <2>1, <2>3 DEF Firing, NextAlert, ColOK, WebOK, HasAlert, RestOK, env, colVars
    <2>5. QED
      BY <1>a, <2>2, <2>4
  <1>2. CASE WebLookup(w)
    <2>1. Tail(webAlerts[w]) \in Seq(Alert)
      BY <1>0, <1>2 DEF WebLookup, WebOK
    <2>2. ActiveOf(Head(webAlerts[w]).key) \subseteq Id
      BY DEF ActiveOf
    <2>3. WebOK'
      BY <1>0, <1>2, <2>1, <2>2 DEF WebLookup, NextAlert, WebOK, HasAlert, WebPc
    <2>4. QED
      BY <1>0, <1>2, <1>a, <2>3
         DEF WebLookup, DbOK, ColOK, RestOK, Unused, OneActivePerKey, HasAlert, ActiveOf, db, env, colVars
  <1>3. CASE WebHealth(w)
    <2>0. Tail(webAlerts[w]) \in Seq(Alert)
      BY <1>0, <1>3 DEF WebHealth, WebOK, HasAlert
    <2>1. WebOK'
      BY <1>0, <1>3, <2>0 DEF WebHealth, NextAlert, WebOK, HasAlert, WebPc
    <2>2. QED
      BY <1>0, <1>3, <1>a, <2>1
         DEF WebHealth, DbOK, ColOK, RestOK, Unused, OneActivePerKey, HasAlert, ActiveOf, db, env, colVars
  <1>4. CASE WebResolve(w)
    <2>1. DbOK' /\ Unused' /\ OneActivePerKey'
      <3>1. CASE Resolvable(webId[w]) /\ ResolveTxn(webId[w])
        BY <3>1, <1>0, ResolveTxnKeeps DEF WebOK
      <3>2. CASE UNCHANGED db
        BY <3>2, <1>0 DEF db, DbOK, Unused, OneActivePerKey, HasAlert, ActiveOf
      <3>3. QED
        BY <1>4, <3>1, <3>2 DEF WebResolve
    <2>0. Tail(webAlerts[w]) \in Seq(Alert) /\ webId[w] \in Id
      BY <1>0, <1>4 DEF WebResolve, WebOK, HasAlert
    <2>2. WebOK'
      <3>1. webNotes' \in [Webhook -> Seq({"opened", "resolved"} \X Id)]
        <4>1. <<"resolved", webId[w]>> \in {"opened", "resolved"} \X Id
          BY <2>0
        <4>2. Append(webNotes[w], <<"resolved", webId[w]>>) \in Seq({"opened", "resolved"} \X Id)
          BY <1>0, <4>1 DEF WebOK
        <4>3. QED
          BY <1>0, <1>4, <4>2 DEF WebResolve, WebOK
      <3>2. QED
        BY <1>0, <1>4, <2>0, <3>1 DEF WebResolve, NextAlert, WebOK, HasAlert, WebPc
    <2>3. QED
      BY <1>0, <1>4, <1>a, <2>1, <2>2 DEF WebResolve, ColOK, RestOK, env, colVars
  <1>5. CASE WebLoopEnd(w)
    <2>1. WebOK'
      BY <1>0, <1>5 DEF WebLoopEnd, WebOK, HasAlert, WebPc
    <2>2. QED
      BY <1>0, <1>5, <1>a, <2>1
         DEF WebLoopEnd, DbOK, ColOK, RestOK, Unused, OneActivePerKey, HasAlert, ActiveOf, db, env, colVars
  <1>6. CASE WebNotify(w)
    <2>1. WebOK' /\ sent' \in [Id -> [opened : Nat, resolved : Nat]]
      <3>1. CASE webNotes[w] = <<>>
        BY <1>0, <1>6, <3>1, WebForgetKeeps DEF WebNotify, RestOK
      <3>2. CASE webNotes[w] # <<>>
        <4>1. Head(webNotes[w]) \in {"opened", "resolved"} \X Id
              /\ Tail(webNotes[w]) \in Seq({"opened", "resolved"} \X Id)
          BY <1>0, <3>2 DEF WebOK
        <4>2. QED
          <5>1. sent' \in [Id -> [opened : Nat, resolved : Nat]]
            BY <1>0, <1>6, <3>2, <4>1, NotifyKeeps DEF WebNotify, RestOK
          <5>2. WebOK'
            BY <1>0, <1>6, <3>2, <4>1 DEF WebNotify, WebOK, HasAlert
          <5>3. QED
            BY <5>1, <5>2
      <3>3. QED
        BY <3>1, <3>2
    <2>2. QED
      BY <1>0, <1>6, <1>a, <2>1
         DEF WebNotify, DbOK, ColOK, RestOK, Unused, OneActivePerKey, HasAlert, ActiveOf, db, env, colVars
  <1>7. QED
    BY <1>1, <1>2, <1>3, <1>4, <1>5, <1>6 DEF WebStep

\* A new request starts with what it was sent.
LEMMA ReceiveKeeps ==
    ASSUME TInv, NEW w \in Webhook, NEW b \in Batches, Receive(w, b)
    PROVE  TInv'
  <1>1. b \in Seq(Alert)
    <2>1. PICK n \in 1..MaxBatch : b \in [1..n -> Alert]
      BY DEF Batches
    <2>2. QED
      BY <2>1, ConstantAssumption
  <1>2. {r \in Router : maint[r]} \in SUBSET Router
    OBVIOUS
  <1>3. QED
    BY <1>1, <1>2
       DEF Receive, TInv, TypeOK, WebPc, env, db, colVars, Unused, OneActivePerKey, HasAlert, ActiveOf

\* Every step keeps the invariant.
LEMMA NextKeeps == TInv /\ [Next]_vars => TInv'
  <1> SUFFICES ASSUME TInv, [Next]_vars PROVE TInv'
    OBVIOUS
  <1> USE DEF TInv
  <1>0. DbOK /\ ColOK /\ WebOK /\ RestOK
    BY TypeOKParts
  <1>a. ASSUME DbOK', Unused', OneActivePerKey', ColOK', WebOK', RestOK'
        PROVE  TInv'
    BY <1>a DEF TypeOK, DbOK, ColOK, WebOK, RestOK
  <1>b. UNCHANGED db => DbOK' /\ Unused' /\ OneActivePerKey'
    BY <1>0 DEF db, DbOK, Unused, OneActivePerKey, HasAlert, ActiveOf
  <1>1. CASE Collector
    BY <1>1, CollectorKeeps
  <1>2. ASSUME NEW w \in Webhook, NEW b \in Batches, Receive(w, b) PROVE TInv'
    BY <1>2, ReceiveKeeps
  <1>3. ASSUME NEW w \in Webhook, WebStep(w) PROVE TInv'
    BY <1>3, WebStepKeeps
  <1>4. ASSUME NEW i \in Id, Acknowledge(i) PROVE TInv'
    BY <1>0, <1>4, <1>a, AcknowledgeKeeps
       DEF Acknowledge, ColOK, WebOK, HasAlert, RestOK, env, colVars, webVars
  <1>5. ASSUME NEW i \in Id, OperatorResolve(i) PROVE TInv'
    BY <1>0, <1>5, <1>a, ResolveTxnKeeps
       DEF OperatorResolve, ColOK, WebOK, HasAlert, RestOK, env, colVars, webVars
  <1>6. CASE CreateManual
    BY <1>0, <1>6, <1>a, CreateManualKeeps
       DEF CreateManual, ColOK, WebOK, HasAlert, RestOK, env, colVars, webVars
  <1>7. ASSUME NEW r \in Router, MaintenanceToggle(r) \/ LinkToggle(r) PROVE TInv'
    BY <1>0, <1>7, <1>a, <1>b
       DEF MaintenanceToggle, LinkToggle, ColOK, WebOK, HasAlert, RestOK, colVars, webVars
  <1>8. CASE ColFault
    BY <1>0, <1>8, <1>a, <1>b, ConstantAssumption
       DEF ColFault, ColOK, WebOK, HasAlert, RestOK, ColPc, env, webVars
  <1>9. ASSUME NEW w \in Webhook, WebFault(w) PROVE TInv'
    <2>1. WebOK'
      BY <1>0, <1>9, WebForgetKeeps DEF WebFault
    <2>2. QED
      BY <1>0, <1>9, <1>a, <1>b, <2>1, ConstantAssumption DEF WebFault, ColOK, RestOK, env, colVars
  <1>10. CASE Crash
    <2>1. WebOK'
      BY <1>0, <1>10, WebForgetKeeps DEF Crash
    <2>2. QED
      BY <1>0, <1>10, <1>a, <1>b, <2>1, ConstantAssumption
         DEF Crash, ColOK, RestOK, ColPc, NoRow, env
  <1>11. CASE UNCHANGED vars
    BY <1>0, <1>11, <1>a, <1>b DEF vars, env, colVars, webVars, ColOK, WebOK, HasAlert, RestOK
  <1>12. QED
    BY <1>1, <1>2, <1>3, <1>4, <1>5, <1>6, <1>7, <1>8, <1>9, <1>10, <1>11 DEF Next

\* Every variable stays in its domain, whatever the writers interleave.
THEOREM TypeCorrect == Spec => []TypeOK
  <1>1. TInv => TypeOK
    BY DEF TInv
  <1>2. QED
    BY <1>1, InitTInv, NextKeeps, PTL DEF Spec

\* At most one active incident per automatic event key, for any number of
\* collectors' polls, webhook requests, operators, faults and restarts.
THEOREM OneActive == Spec => []OneActivePerKey
  <1>1. TInv => OneActivePerKey
    BY DEF TInv
  <1>2. QED
    BY <1>1, InitTInv, NextKeeps, PTL DEF Spec

-----------------------------------------------------------------------------

\* The collector's registers and the failure counters move together.
LEMMA ActsOnHealthKeeps == TInv /\ CollectorActsOnHealth /\ [Next]_vars => CollectorActsOnHealth'
  <1> SUFFICES ASSUME TInv, CollectorActsOnHealth, [Next]_vars PROVE CollectorActsOnHealth'
    OBVIOUS
  <1> USE DEF CollectorActsOnHealth
  <1>1. CASE UNCHANGED <<colPc, colCur, failures>>
    BY <1>1
  <1>2. CASE colPc' = "observe"
    BY <1>2
  <1>3. CASE Collector
    <2>1. CASE PollStart \/ ColNotify
      BY <1>2, <2>1 DEF PollStart, ColNotify
    <2>2. ASSUME NEW r \in Router, Observe(r) PROVE CollectorActsOnHealth'
      <3>1. NextFailures(r) \in Nat /\ failures'[r] = NextFailures(r) /\ colCur' = r
        BY <2>2, ConstantAssumption DEF Observe, NextFailures, TInv, TypeOK
      <3>2. colPc' = "open" => NextFailures(r) >= 2
        BY <2>2 DEF Observe, FailureThreshold
      <3>3. colPc' \in {"lookup", "resolve"} => NextFailures(r) = 0
        BY <2>2 DEF Observe, NextFailures
      <3>4. QED
        BY <3>1, <3>2, <3>3
    <2>3. CASE ColLookup
      BY <2>3 DEF ColLookup, db
    <2>4. CASE ColResolve \/ ColOpen \/ PollEnd
      BY <1>2, <2>4 DEF ColResolve, ColOpen, PollEnd
    <2>5. QED
      BY <1>3, <2>1, <2>2, <2>3, <2>4 DEF Collector
  <1>4. ASSUME NEW w \in Webhook, WebStep(w) PROVE CollectorActsOnHealth'
    <2>1. UNCHANGED <<colPc, colCur, failures>>
      BY <1>4 DEF WebStep, Firing, WebLookup, WebHealth, WebResolve, WebLoopEnd, WebNotify,
                  OpenTxn, ResolveTxn, colVars, db
    <2>2. QED
      BY <1>1, <2>1
  <1>5. CASE Crash \/ ColFault
    BY <1>5 DEF Crash, ColFault
  <1>6. CASE \/ \E w \in Webhook, b \in Batches : Receive(w, b)
             \/ \E i \in Id : Acknowledge(i) \/ OperatorResolve(i)
             \/ CreateManual
             \/ \E r \in Router : MaintenanceToggle(r) \/ LinkToggle(r)
             \/ \E w \in Webhook : WebFault(w)
             \/ UNCHANGED vars
    <2>1. UNCHANGED <<colPc, colCur, failures>>
      BY <1>6 DEF Receive, Acknowledge, OperatorResolve, ResolveTxn, CreateManual,
                  MaintenanceToggle, LinkToggle, WebFault, colVars, db, vars
    <2>2. QED
      BY <1>1, <2>1
  <1>7. QED
    BY <1>3, <1>4, <1>5, <1>6 DEF Next

\* The collector opens only after two failed polls in a row and closes only
\* after a successful one, however the other writers interleave with it.
THEOREM CollectorActs == Spec => []CollectorActsOnHealth
  <1>1. Init => CollectorActsOnHealth
    BY DEF Init, CollectorActsOnHealth
  <1>2. QED
    BY <1>1, InitTInv, NextKeeps, ActsOnHealthKeeps, PTL DEF Spec

\* What LifeCycle says of one incident and one step.
Lives(i) ==
    /\ status[i] = "resolved" => status'[i] = "resolved"
    /\ status[i] = "acknowledged" => status'[i] \in {"acknowledged", "resolved"}
    /\ status[i] # "none" => status'[i] # "none" /\ key'[i] = key[i]

\* An insertion only touches an unused row.
LEMMA InsertLives ==
    ASSUME TInv, NEW k \in Key \cup {Manual}, Insert(k)
    PROVE  \A i \in Id : Lives(i)
  BY DEF Insert, TInv, TypeOK, Unused, Lives, Id

\* A resolution only moves an active incident forward.
LEMMA ResolveLives ==
    ASSUME TInv, NEW j \in Id, ResolveTxn(j)
    PROVE  \A i \in Id : Lives(i) \/ status[j] = "none"
  BY DEF ResolveTxn, TInv, TypeOK, Lives

LEMMA StepLives == TInv /\ [Next]_vars => \A i \in Id : Lives(i)
  <1> SUFFICES ASSUME TInv, [Next]_vars PROVE \A i \in Id : Lives(i)
    OBVIOUS
  <1>1. CASE UNCHANGED <<status, key>>
    BY <1>1 DEF Lives
  <1>2. ASSUME NEW k \in Key \cup {Manual}, Insert(k) PROVE \A i \in Id : Lives(i)
    BY <1>2, InsertLives
  <1>3. ASSUME NEW j \in Id, Resolvable(j), ResolveTxn(j) PROVE \A i \in Id : Lives(i)
    BY <1>3, ResolveLives DEF Resolvable, Active
  <1>4. ASSUME NEW j \in Id, Acknowledge(j) PROVE \A i \in Id : Lives(i)
    BY <1>4 DEF Acknowledge, Acknowledgeable, TInv, TypeOK, Lives
  <1>5. CASE Collector
    <2>1. colCur \in Key /\ colId \in Id
      BY DEF TInv, TypeOK, Key
    <2>2. \/ UNCHANGED <<status, key>>
          \/ Insert(colCur)
          \/ Resolvable(colId) /\ ResolveTxn(colId)
      BY <1>5 DEF Collector, PollStart, Observe, ColLookup, ColResolve, ColOpen, OpenTxn,
                  ColNotify, PollEnd, db
    <2>3. QED
      BY <1>1, <1>2, <1>3, <2>1, <2>2
  <1>6. ASSUME NEW w \in Webhook, WebStep(w) PROVE \A i \in Id : Lives(i)
    <2>1. webId[w] \in Id
      BY DEF TInv, TypeOK
    <2>2. CASE Firing(w)
      <3>1. Head(webAlerts[w]) \in Alert
        BY <2>2 DEF Firing, TInv, TypeOK
      <3>2. Head(webAlerts[w]).key \in Key
        BY <3>1 DEF Alert
      <3>3. UNCHANGED <<status, key>> \/ Insert(Head(webAlerts[w]).key)
        BY <2>2 DEF Firing, OpenTxn, db
      <3>4. QED
        BY <1>1, <1>2, <3>2, <3>3
    <2>3. CASE ~Firing(w)
      <3>1. UNCHANGED <<status, key>> \/ (Resolvable(webId[w]) /\ ResolveTxn(webId[w]))
        BY <1>6, <2>3 DEF WebStep, WebLookup, WebHealth, WebResolve, WebLoopEnd, WebNotify, db
      <3>2. QED
        BY <1>1, <1>3, <2>1, <3>1
    <2>4. QED
      BY <2>2, <2>3
  <1>7. CASE \/ \E w \in Webhook, b \in Batches : Receive(w, b)
             \/ \E r \in Router : MaintenanceToggle(r) \/ LinkToggle(r)
             \/ ColFault
             \/ \E w \in Webhook : WebFault(w)
             \/ Crash
             \/ UNCHANGED vars
    <2>1. UNCHANGED <<status, key>>
      BY <1>7 DEF Receive, MaintenanceToggle, LinkToggle, ColFault, WebFault, Crash, db, vars
    <2>2. QED
      BY <1>1, <2>1
  <1>8. ASSUME NEW j \in Id, OperatorResolve(j) PROVE \A i \in Id : Lives(i)
    BY <1>3, <1>8 DEF OperatorResolve
  <1>9. CASE CreateManual
    BY <1>2, <1>9 DEF CreateManual
  <1>10. QED
    BY <1>4, <1>5, <1>6, <1>7, <1>8, <1>9 DEF Next

\* No step reopens, un-acknowledges, re-keys or forgets an incident.
THEOREM LifeCycleHolds == Spec => LifeCycle
  <1>1. TInv /\ [Next]_vars => [\A i \in Id : Lives(i)]_vars
    BY StepLives
  <1>2. Spec => [][\A i \in Id : Lives(i)]_vars
    BY <1>1, InitTInv, NextKeeps, PTL DEF Spec
  <1>3. QED
    BY <1>2 DEF LifeCycle, Lives
-----------------------------------------------------------------------------
(* What is announced.  A note is owed where a writer has committed a         *)
(* transition and not yet told of it: by the collector between its           *)
(* transaction and ColNotify, by a request in its list.                      *)

Note == {"opened", "resolved"}

ColOwes(kind, i) ==
    colId = i /\ colPc = IF kind = "opened" THEN "notifyOpened" ELSE "notifyResolved"

\* The lists of the requests, and what is somewhere in them.
Lists == [Webhook -> Seq(Note \X Id)]
Listed(lists, x) == \E w \in Webhook : \E n \in 1..Len(lists[w]) : lists[w][n] = x

Distinct(lists) ==
    \A v, w \in Webhook : \A n \in 1..Len(lists[v]), m \in 1..Len(lists[w]) :
        lists[v][n] = lists[w][m] => v = w /\ n = m

Owed(kind, i) == ColOwes(kind, i) \/ Listed(webNotes, <<kind, i>>)

\* One writer owes a note, and only while it has not been told.
OwedOnce ==
    /\ Distinct(webNotes)
    /\ \A kind \in Note, i \in Id :
          /\ ~(ColOwes(kind, i) /\ Listed(webNotes, <<kind, i>>))
          /\ sent[i][kind] \in {0, 1}
          /\ Owed(kind, i) => sent[i][kind] = 0

\* It is about a transition that was committed.
OwedTrue ==
    \A i \in Id :
        /\ Owed("resolved", i) \/ sent[i].resolved = 1 => status[i] = "resolved"
        /\ Owed("opened", i) \/ sent[i].opened = 1 => status[i] # "none"

\* Nothing is lost without faults.
NoneLost ==
    faults = 0 => \A i \in Id : key[i] \in Key /\ status[i] # "none"
                                => Owed("opened", i) \/ sent[i].opened = 1

IdleOwesNothing == \A w \in Webhook : webPc[w] = "idle" => webNotes[w] = <<>>

AInv == OwedOnce /\ OwedTrue /\ NoneLost /\ IdleOwesNothing

Grown(lists, w, x) == [lists EXCEPT ![w] = Append(lists[w], x)]
Cut(lists, w) == [lists EXCEPT ![w] = Tail(lists[w])]

\* A list grows by a note that is in none, ...
LEMMA Appended ==
    ASSUME NEW lists \in Lists, Distinct(lists), NEW w \in Webhook,
           NEW x \in Note \X Id, ~Listed(lists, x),
           NEW more, more = Grown(lists, w, x)
    PROVE  /\ Distinct(more)
           /\ \A y : Listed(more, y) <=> Listed(lists, y) \/ y = x
  <1>1. /\ more \in Lists
        /\ \A v \in Webhook : v # w => more[v] = lists[v]
        /\ more[w] = Append(lists[w], x)
    BY DEF Lists, Grown
  <1>2. /\ lists[w] \in Seq(Note \X Id) /\ Len(lists[w]) \in Nat
        /\ Len(more[w]) = Len(lists[w]) + 1
        /\ more[w][Len(lists[w]) + 1] = x
        /\ \A n \in 1..Len(lists[w]) : more[w][n] = lists[w][n]
    BY <1>1 DEF Lists
  <1>3. ASSUME NEW v \in Webhook, NEW n \in 1..Len(more[v])
        PROVE  \/ n \in 1..Len(lists[v]) /\ more[v][n] = lists[v][n]
               \/ v = w /\ n = Len(lists[w]) + 1 /\ more[v][n] = x
    <2>1. CASE v # w
      BY <1>1, <2>1
    <2>2. CASE v = w
      <3>1. n \in 1..Len(lists[w]) \/ n = Len(lists[w]) + 1
        BY <1>2, <2>2
      <3>2. QED
        BY <1>2, <2>2, <3>1
    <2>3. QED
      BY <2>1, <2>2
  <1>4. \A v \in Webhook : \A n \in 1..Len(lists[v]) : lists[v][n] # x
    BY DEF Listed
  <1>5. Distinct(more)
    <2> SUFFICES ASSUME NEW v \in Webhook, NEW u \in Webhook,
                        NEW n \in 1..Len(more[v]), NEW m \in 1..Len(more[u]),
                        more[v][n] = more[u][m]
                 PROVE  v = u /\ n = m
      BY DEF Distinct
    <2>1. \/ n \in 1..Len(lists[v]) /\ more[v][n] = lists[v][n]
          \/ v = w /\ n = Len(lists[w]) + 1 /\ more[v][n] = x
      BY <1>3
    <2>2. \/ m \in 1..Len(lists[u]) /\ more[u][m] = lists[u][m]
          \/ u = w /\ m = Len(lists[w]) + 1 /\ more[u][m] = x
      BY <1>3
    <2>3. QED
      BY <1>4, <2>1, <2>2 DEF Distinct
  <1>6. ASSUME NEW y PROVE Listed(more, y) <=> Listed(lists, y) \/ y = x
    <2>1. Listed(more, y) => Listed(lists, y) \/ y = x
      BY <1>3 DEF Listed
    <2>2. Listed(more, x)
      <3>1. Len(lists[w]) + 1 \in 1..Len(more[w])
        BY <1>2
      <3>2. QED
        BY <1>2, <3>1 DEF Listed
    <2>3. ASSUME NEW v \in Webhook, NEW n \in 1..Len(lists[v]), lists[v][n] = y
          PROVE  Listed(more, y)
      <3>1. CASE v # w
        BY <1>1, <2>3, <3>1 DEF Listed
      <3>2. CASE v = w
        <4>1. n \in 1..Len(more[w]) /\ more[w][n] = y
          BY <1>2, <2>3, <3>2
        <4>2. QED
          BY <4>1 DEF Listed
      <3>3. QED
        BY <3>1, <3>2
    <2>4. QED
      BY <2>1, <2>2, <2>3 DEF Listed
  <1>7. QED
    BY <1>5, <1>6

LEMMA TailIs ==
    ASSUME NEW Z, NEW q \in Seq(Z), q # <<>>
    PROVE  /\ Len(Tail(q)) = Len(q) - 1 /\ Head(q) = q[1]
           /\ \A n \in 1..(Len(q) - 1) : Tail(q)[n] = q[n + 1]
  OBVIOUS

\* ... shrinks by its first one, ...
LEMMA Shortened ==
    ASSUME NEW lists \in Lists, Distinct(lists), NEW w \in Webhook, lists[w] # <<>>,
           NEW less, less = Cut(lists, w)
    PROVE  /\ Distinct(less)
           /\ Listed(lists, Head(lists[w]))
           /\ \A y : Listed(less, y) <=> Listed(lists, y) /\ y # Head(lists[w])
  <1>1. /\ \A v \in Webhook : v # w => less[v] = lists[v]
        /\ less[w] = Tail(lists[w])
        /\ lists[w] \in Seq(Note \X Id) /\ Len(lists[w]) \in Nat \ {0}
    BY DEF Lists, Cut
  <1>2. /\ Len(less[w]) = Len(lists[w]) - 1
        /\ Head(lists[w]) = lists[w][1]
        /\ \A n \in 1..(Len(lists[w]) - 1) : less[w][n] = lists[w][n + 1]
    BY <1>1, TailIs
  <1> DEFINE at(v, n) == IF v = w THEN n + 1 ELSE n
  <1>3. ASSUME NEW v \in Webhook, NEW n \in 1..Len(less[v])
        PROVE  /\ at(v, n) \in 1..Len(lists[v]) /\ less[v][n] = lists[v][at(v, n)]
               /\ n \in Nat /\ (v = w => at(v, n) # 1)
    <2>1. CASE v # w
      BY <1>1, <1>3, <2>1
    <2>2. CASE v = w
      <3>1. /\ n \in 1..(Len(lists[w]) - 1) /\ at(v, n) = n + 1
            /\ less[v][n] = less[w][n] /\ Len(lists[v]) = Len(lists[w])
        BY <1>2, <1>3, <2>2
      <3>2. QED
        BY <1>1, <1>2, <2>2, <3>1
    <2>3. QED
      BY <2>1, <2>2
  <1>4. Distinct(less)
    <2> SUFFICES ASSUME NEW v \in Webhook, NEW u \in Webhook,
                        NEW n \in 1..Len(less[v]), NEW m \in 1..Len(less[u]),
                        less[v][n] = less[u][m]
                 PROVE  v = u /\ n = m
      BY DEF Distinct
    <2>1. /\ at(v, n) \in 1..Len(lists[v]) /\ less[v][n] = lists[v][at(v, n)]
          /\ at(u, m) \in 1..Len(lists[u]) /\ less[u][m] = lists[u][at(u, m)]
      BY <1>3
    <2> HIDE DEF at
    <2>2. \A a \in 1..Len(lists[v]), b \in 1..Len(lists[u]) :
              lists[v][a] = lists[u][b] => v = u /\ a = b
      BY DEF Distinct
    <2>3. v = u /\ at(v, n) = at(u, m)
      BY <2>1, <2>2
    <2> USE DEF at
    <2>4. n \in Nat /\ m \in Nat
      BY <1>3
    <2>5. QED
      BY <2>4, <2>3
  <1>5. 1 \in 1..Len(lists[w])
    BY <1>1
  <1>6. Listed(lists, Head(lists[w]))
    BY <1>2, <1>5 DEF Listed
  <1>7. ASSUME NEW y, Listed(less, y) PROVE Listed(lists, y) /\ y # Head(lists[w])
    <2>0. PICK v \in Webhook : \E n \in 1..Len(less[v]) : less[v][n] = y
      BY <1>7 DEF Listed
    <2>1. PICK n \in 1..Len(less[v]) : less[v][n] = y
      BY <2>0
    <2>2. /\ at(v, n) \in 1..Len(lists[v]) /\ y = lists[v][at(v, n)]
          /\ v = w => at(v, n) # 1
      BY <1>3, <2>1
    <2> HIDE DEF at
    <2>3. Listed(lists, y)
      BY <2>2 DEF Listed
    <2>4. y # lists[w][1]
      BY <1>5, <2>2 DEF Distinct
    <2>5. QED
      BY <1>2, <2>3, <2>4
  <1>8. ASSUME NEW y, Listed(lists, y), y # Head(lists[w]) PROVE Listed(less, y)
    <2>0. PICK v \in Webhook : \E n \in 1..Len(lists[v]) : lists[v][n] = y
      BY <1>8 DEF Listed
    <2>1. PICK n \in 1..Len(lists[v]) : lists[v][n] = y
      BY <2>0
    <2>2. CASE v # w
      <3>1. n \in 1..Len(less[v]) /\ less[v][n] = y
        BY <1>1, <2>1, <2>2
      <3>2. QED
        BY <3>1 DEF Listed
    <2>3. CASE v = w
      <3>1. n # 1
        BY <1>2, <1>8, <2>1, <2>3
      <3>2. n - 1 \in 1..(Len(lists[w]) - 1) /\ (n - 1) + 1 = n
        BY <1>1, <2>3, <3>1
      <3>3. n - 1 \in 1..Len(less[w]) /\ less[w][n - 1] = lists[w][(n - 1) + 1]
        BY <1>2, <3>2
      <3>4. less[w][n - 1] = y
        BY <2>1, <2>3, <3>2, <3>3
      <3>5. QED
        BY <3>3, <3>4 DEF Listed
    <2>4. QED
      BY <2>2, <2>3
  <1>9. QED
    BY <1>4, <1>6, <1>7, <1>8

\* ... or is forgotten.
LEMMA Emptied ==
    ASSUME NEW lists \in Lists, Distinct(lists), NEW less,
           \A w \in Webhook : less[w] \in {lists[w], <<>>}
    PROVE  Distinct(less) /\ \A y : Listed(less, y) => Listed(lists, y)
  <1>1. \A w \in Webhook : \A n \in 1..Len(less[w]) :
            n \in 1..Len(lists[w]) /\ less[w][n] = lists[w][n]
    <2>1. Len(<<>>) = 0
      OBVIOUS
    <2>2. 1..0 = {}
      OBVIOUS
    <2>3. QED
      BY <2>1, <2>2
  <1>2. Distinct(less)
    BY <1>1 DEF Distinct
  <1>3. QED
    BY <1>1, <1>2 DEF Listed

(* What a step may do to the notes: none becomes owed, ...                   *)
Rows(j) == key[j] \in Key /\ status[j] # "none"

Quiet ==
    /\ Distinct(webNotes')
    /\ \A k \in Note, j \in Id : /\ ColOwes(k, j)' => ColOwes(k, j)
                                 /\ Listed(webNotes', <<k, j>>) => Listed(webNotes, <<k, j>>)
    /\ sent' = sent
    /\ faults' = 0 => /\ faults = 0
                      /\ \A j \in Id : Owed("opened", j) => Owed("opened", j)'
    /\ \A j \in Id : Rows(j)' => Rows(j)

\* ... the others stay as they are, ...
Elsewhere(kind, i) ==
    \A k \in Note, j \in Id : k # kind \/ j # i =>
        /\ ColOwes(k, j)' <=> ColOwes(k, j)
        /\ Listed(webNotes', <<k, j>>) <=> Listed(webNotes, <<k, j>>)

\* ... one becomes owed, with its transition, ...
News(kind, i) ==
    /\ Distinct(webNotes') /\ Elsewhere(kind, i)
    /\ ~Owed(kind, i) /\ sent[i][kind] = 0 /\ sent' = sent /\ faults' = faults
    /\ Owed(kind, i)' /\ ~(ColOwes(kind, i)' /\ Listed(webNotes', <<kind, i>>))
    /\ status'[i] = IF kind = "resolved" THEN "resolved" ELSE "open"
    /\ \A j \in Id : Rows(j)' => Rows(j) \/ (j = i /\ kind = "opened")

\* ... or one is told.
Tells(kind, i) ==
    /\ Distinct(webNotes') /\ Elsewhere(kind, i)
    /\ Owed(kind, i) /\ ~Owed(kind, i)' /\ Notify(kind, i)
    /\ UNCHANGED <<status, key, faults>>

\* What every step keeps besides.
Steady == (\A i \in Id : Lives(i)) /\ TInv /\ TInv' /\ IdleOwesNothing'

LEMMA QuietKeeps ==
    ASSUME AInv, Steady, Quiet
    PROVE  AInv'
  <1>1. OwedOnce'
    BY DEF AInv, Quiet, OwedOnce, Owed
  <1>2. OwedTrue'
    BY DEF AInv, Steady, Lives, Quiet, OwedTrue, Owed, Note
  <1>3. NoneLost'
    BY DEF AInv, Quiet, NoneLost, Rows
  <1>4. QED
    BY <1>1, <1>2, <1>3 DEF AInv, Steady

LEMMA NewsKeeps ==
    ASSUME AInv, Steady, NEW kind \in Note, NEW i \in Id, News(kind, i)
    PROVE  AInv'
  <1>1. OwedOnce'
    BY DEF AInv, News, Elsewhere, OwedOnce, Owed
  <1>2. OwedTrue'
    BY DEF AInv, Steady, Lives, News, Elsewhere, OwedTrue, Owed, Note
  <1>3. NoneLost'
    BY DEF AInv, News, Elsewhere, NoneLost, Rows, Owed, Note
  <1>4. QED
    BY <1>1, <1>2, <1>3 DEF AInv, Steady

LEMMA TellsKeeps ==
    ASSUME AInv, Steady, NEW kind \in Note, NEW i \in Id, Tells(kind, i)
    PROVE  AInv'
  <1>1. sent \in [Id -> [Note -> Nat]]
    BY DEF Steady, TInv, TypeOK, Note
  <1>2. \A k \in Note, j \in Id :
            sent'[j][k] = IF k = kind /\ j = i THEN sent[j][k] + 1 ELSE sent[j][k]
    BY <1>1 DEF Tells, Notify
  <1>3. sent[i][kind] = 0
    BY DEF Tells, AInv, OwedOnce
  <1>4. OwedOnce'
    BY <1>2, <1>3 DEF AInv, Tells, Elsewhere, OwedOnce, Owed
  <1>5. OwedTrue'
    BY <1>2, <1>3 DEF AInv, Tells, Elsewhere, OwedTrue, Owed, Note
  <1>6. NoneLost'
    BY <1>2, <1>3 DEF AInv, Tells, Elsewhere, NoneLost, Owed, Note
  <1>7. QED
    BY <1>4, <1>5, <1>6 DEF AInv, Steady

\* The lists are lists.
LEMMA ListsAre == TInv => webNotes \in Lists
  BY DEF TInv, TypeOK, Lists, Note

\* A step that leaves the notes and the rows alone is quiet.
LEMMA Untouched ==
    ASSUME AInv, UNCHANGED <<webNotes, sent, status, key>>,
           faults' = faults \/ faults' = faults + 1, TInv,
           \A k \in Note, j \in Id : ColOwes(k, j)' => ColOwes(k, j),
           faults' = faults => \A j \in Id : ColOwes("opened", j) => ColOwes("opened", j)'
    PROVE  Quiet
  <1>1. Distinct(webNotes')
    BY DEF AInv, OwedOnce
  <1>2. faults \in Nat
    BY DEF TInv, TypeOK
  <1>3. faults' = 0 => faults = 0 /\ faults' = faults
    BY <1>2
  <1>4. QED
    BY <1>1, <1>3 DEF Quiet, Rows, Owed

\* open_incident, for whoever calls it: it joined an incident, or there is a
\* row of which nothing is owed or told.
LEMMA OpenTxnTells ==
    ASSUME TInv, AInv, NEW k \in Key, OpenTxn(k)
    PROVE  \/ ~Created(k) /\ UNCHANGED <<status, key>>
           \/ /\ Created(k) /\ OpenedId(k) = nextId /\ nextId \in Id
              /\ status'[nextId] = "open"
              /\ \A j \in Id : Rows(j)' => Rows(j) \/ j = nextId
              /\ ~Owed("opened", nextId) /\ sent[nextId].opened = 0
  <1>1. CASE ActiveOf(k) # {}
    BY <1>1 DEF OpenTxn, Created
  <1>2. CASE ActiveOf(k) = {}
    <2>1. Created(k) /\ OpenedId(k) = nextId /\ Insert(k)
      BY <1>2 DEF OpenTxn, Created, OpenedId
    <2>2. nextId \in Id /\ status[nextId] = "none"
      BY <2>1, ConstantAssumption DEF Insert, TInv, Unused, Id
    <2>3. /\ status'[nextId] = "open"
          /\ \A j \in Id : Rows(j)' => Rows(j) \/ j = nextId
      BY <2>1, <2>2 DEF Insert, TInv, TypeOK, Rows
    <2>4. ~Owed("opened", nextId) /\ sent[nextId].opened # 1
      BY <2>2 DEF AInv, OwedTrue
    <2>5. sent[nextId].opened \in {0, 1}
      BY <2>2 DEF AInv, OwedOnce, Note
    <2>6. QED
      BY <2>1, <2>2, <2>3, <2>4, <2>5
  <1>3. QED
    BY <1>1, <1>2

\* change_incident 'resolve': nobody owes that yet.
LEMMA ResolveTxnTells ==
    ASSUME TInv, AInv, NEW i \in Id, Resolvable(i), ResolveTxn(i)
    PROVE  /\ status'[i] = "resolved" /\ \A j \in Id : Rows(j)' => Rows(j)
           /\ ~Owed("resolved", i) /\ sent[i].resolved = 0
  <1>1. status[i] \in Active
    BY DEF Resolvable
  <1>2. ~Owed("resolved", i) /\ sent[i].resolved # 1
    BY <1>1 DEF AInv, OwedTrue, Active
  <1>3. sent[i].resolved \in {0, 1}
    BY DEF AInv, OwedOnce, Note
  <1>4. /\ status'[i] = "resolved" /\ key' = key
        /\ \A j \in Id : j # i => status'[j] = status[j]
    BY DEF ResolveTxn, TInv, TypeOK
  <1>5. QED
    BY <1>1, <1>2, <1>3, <1>4 DEF Rows, Active

\* Every step of the collector.
LEMMA CollectorTells ==
    ASSUME AInv, Steady, Collector
    PROVE  AInv'
  <1> USE DEF Steady
  <1>0. colId \in Id /\ colCur \in Key
    BY DEF TInv, TypeOK, Key
  <1>1. CASE \/ PollStart \/ PollEnd \/ ColLookup \/ \E r \in Router : Observe(r)
    <2>1. /\ UNCHANGED <<webNotes, sent, status, key, faults>>
          /\ colPc \notin {"notifyOpened", "notifyResolved"}
          /\ colPc' \notin {"notifyOpened", "notifyResolved"}
      BY <1>1 DEF PollStart, PollEnd, ColLookup, Observe, db, webVars
    <2>2. \A k \in Note, j \in Id : ~ColOwes(k, j) /\ ~ColOwes(k, j)'
      BY <2>1 DEF ColOwes, Note
    <2>3. QED
      BY <2>1, <2>2, Untouched, QuietKeeps DEF Note
  <1>2. CASE ColResolve
    <2>1. /\ UNCHANGED <<webNotes, sent, faults>> /\ colId' = colId /\ colPc = "resolve"
      BY <1>2 DEF ColResolve, webVars
    <2>2. \A k \in Note, j \in Id : ~ColOwes(k, j)
      BY <2>1 DEF ColOwes, Note
    <2>3. CASE Resolvable(colId) /\ ResolveTxn(colId) /\ colPc' = "notifyResolved"
      <3>1. \A k \in Note, j \in Id : ColOwes(k, j)' <=> k = "resolved" /\ j = colId
        BY <2>1, <2>3 DEF ColOwes, Note
      <3>2. News("resolved", colId)
        <4>1. /\ status'[colId] = "resolved" /\ \A j \in Id : Rows(j)' => Rows(j)
              /\ ~Owed("resolved", colId) /\ sent[colId].resolved = 0
          BY <1>0, <2>3, ResolveTxnTells
        <4>2. Distinct(webNotes') /\ Elsewhere("resolved", colId)
          BY <2>1, <2>2, <3>1 DEF AInv, OwedOnce, Elsewhere
        <4>3. Owed("resolved", colId)' /\ ~Listed(webNotes', <<"resolved", colId>>)
          BY <1>0, <2>1, <3>1, <4>1 DEF Owed, Note
        <4>4. QED
          BY <2>1, <4>1, <4>2, <4>3 DEF News
      <3>3. QED
        BY <1>0, <3>2, NewsKeeps DEF Note
    <2>4. CASE UNCHANGED db /\ colPc' = "observe"
      <3>1. \A k \in Note, j \in Id : ~ColOwes(k, j)'
        BY <2>4 DEF ColOwes, Note
      <3>2. QED
        BY <2>1, <2>2, <2>4, <3>1, Untouched, QuietKeeps DEF db, Note
    <2>5. QED
      BY <1>2, <2>3, <2>4 DEF ColResolve
  <1>3. CASE ColOpen
    <2>1. /\ UNCHANGED <<webNotes, sent, faults>> /\ colPc = "open"
          /\ OpenTxn(colCur) /\ colId' = OpenedId(colCur)
          /\ colPc' = IF Created(colCur) THEN "notifyOpened" ELSE "observe"
      BY <1>3 DEF ColOpen, webVars
    <2>2. \A k \in Note, j \in Id : ~ColOwes(k, j)
      BY <2>1 DEF ColOwes, Note
    <2>3. CASE ~Created(colCur) /\ UNCHANGED <<status, key>>
      <3>1. \A k \in Note, j \in Id : ~ColOwes(k, j)'
        BY <2>1, <2>3 DEF ColOwes, Note
      <3>2. QED
        BY <2>1, <2>2, <2>3, <3>1, Untouched, QuietKeeps DEF Note
    <2>4. CASE /\ Created(colCur) /\ OpenedId(colCur) = nextId /\ nextId \in Id
               /\ status'[nextId] = "open"
               /\ \A j \in Id : Rows(j)' => Rows(j) \/ j = nextId
               /\ ~Owed("opened", nextId) /\ sent[nextId].opened = 0
      <3>0. PICK i \in Id : i = nextId
        BY <2>4
      <3>1. \A k \in Note, j \in Id : ColOwes(k, j)' <=> k = "opened" /\ j = i
        BY <2>1, <2>4, <3>0 DEF ColOwes, Note
      <3>2. Distinct(webNotes') /\ Elsewhere("opened", i)
        BY <2>1, <2>2, <3>1 DEF AInv, OwedOnce, Elsewhere
      <3>3. ~Listed(webNotes, <<"opened", i>>) /\ Owed("opened", i)' /\ ~Owed("opened", i)
        BY <2>4, <3>0, <3>1 DEF Owed, Note
      <3>4. News("opened", i)
        BY <2>1, <2>4, <3>0, <3>2, <3>3 DEF News
      <3>5. QED
        BY <3>4, NewsKeeps DEF Note
    <2>5. QED
      BY <1>0, <2>1, <2>3, <2>4, OpenTxnTells
  <1>4. CASE ColNotify
    <2>1. /\ UNCHANGED <<webNotes, faults, status, key>> /\ colPc' = "observe"
      BY <1>4 DEF ColNotify, webVars, db
    <2>0. PICK i \in Id : i = colId
      BY <1>0
    <2>2. PICK kind \in Note : ColOwes(kind, i) /\ Notify(kind, i)
      BY <1>4, <2>0 DEF ColNotify, ColOwes, Note
    <2>3. \A k \in Note, j \in Id : ColOwes(k, j) => k = kind /\ j = i
      BY <2>0, <2>2 DEF ColOwes, Note
    <2>4. \A k \in Note, j \in Id : ~ColOwes(k, j)'
      BY <2>1 DEF ColOwes, Note
    <2>5. Distinct(webNotes') /\ Elsewhere(kind, i)
      BY <2>1, <2>3, <2>4 DEF AInv, OwedOnce, Elsewhere
    <2>6. ~Listed(webNotes, <<kind, i>>)
      BY <2>2 DEF AInv, OwedOnce
    <2>7. Owed(kind, i) /\ ~Owed(kind, i)'
      BY <2>1, <2>2, <2>4, <2>6 DEF Owed
    <2>8. QED
      BY <2>1, <2>2, <2>5, <2>7, TellsKeeps DEF Tells
  <1>5. QED
    BY <1>1, <1>2, <1>3, <1>4 DEF Collector

\* A request that puts a note of its own transition on its list.
LEMMA ListTells ==
    ASSUME AInv, TInv, NEW w \in Webhook, NEW kind \in Note, NEW i \in Id,
           ~Owed(kind, i), sent[i][kind] = 0,
           UNCHANGED <<colPc, colId, sent, faults>>,
           webNotes' = [webNotes EXCEPT ![w] = Append(webNotes[w], <<kind, i>>)],
           status'[i] = IF kind = "resolved" THEN "resolved" ELSE "open",
           \A j \in Id : Rows(j)' => Rows(j) \/ (j = i /\ kind = "opened")
    PROVE  News(kind, i)
  <1>1. webNotes \in Lists /\ <<kind, i>> \in Note \X Id
    BY ListsAre
  <1>2. ~Listed(webNotes, <<kind, i>>) /\ ~ColOwes(kind, i)
    BY DEF Owed
  <1>3. /\ Distinct(webNotes')
        /\ \A y : Listed(webNotes', y) <=> Listed(webNotes, y) \/ y = <<kind, i>>
    <2>1. Distinct(webNotes)
      BY DEF AInv, OwedOnce
    <2> DEFINE more == webNotes'
    <2>2. more = Grown(webNotes, w, <<kind, i>>)
      BY DEF Grown
    <2> HIDE DEF more
    <2>3. /\ Distinct(more)
          /\ \A y : Listed(more, y) <=> Listed(webNotes, y) \/ y = <<kind, i>>
      BY <1>1, <1>2, <2>1, <2>2, Appended
    <2>4. QED
      BY <2>3 DEF more
  <1>4. \A k \in Note, j \in Id : ColOwes(k, j)' <=> ColOwes(k, j)
    BY DEF ColOwes
  <1>5. Elsewhere(kind, i)
    BY <1>3, <1>4 DEF Elsewhere
  <1>6. Owed(kind, i)' /\ ~ColOwes(kind, i)'
    BY <1>2, <1>3, <1>4 DEF Owed
  <1>7. QED
    BY <1>3, <1>5, <1>6 DEF News

\* Requests that are over owe nothing; what they owed is lost.
LEMMA ForgetTells ==
    ASSUME AInv, TInv, NEW W \in SUBSET Webhook, WebForget(W),
           UNCHANGED <<sent, status, key>>,
           \A k \in Note, j \in Id : ColOwes(k, j)' => ColOwes(k, j),
           \/ faults' = faults + 1
           \/ /\ faults' = faults /\ UNCHANGED <<colPc, colId>>
              /\ \A w \in W : webNotes[w] = <<>>
    PROVE  Quiet
  <1>1. webNotes \in Lists
    BY ListsAre
  <1>2. \A w \in Webhook : webNotes'[w] = IF w \in W THEN <<>> ELSE webNotes[w]
    BY DEF WebForget
  <1>3. Distinct(webNotes') /\ \A y : Listed(webNotes', y) => Listed(webNotes, y)
    <2>1. \A w \in Webhook : webNotes'[w] \in {webNotes[w], <<>>}
      BY <1>2
    <2>2. Distinct(webNotes)
      BY DEF AInv, OwedOnce
    <2>3. QED
      BY <1>1, <2>1, <2>2, Emptied
  <1>4. faults \in Nat
    BY DEF TInv, TypeOK
  <1>5. faults' = 0 => /\ faults = 0
                       /\ \A j \in Id : Owed("opened", j) => Owed("opened", j)'
    <2> SUFFICES ASSUME faults' = 0
                 PROVE  faults = 0 /\ \A j \in Id : Owed("opened", j) => Owed("opened", j)'
      OBVIOUS
    <2>1. /\ faults' = faults /\ UNCHANGED <<colPc, colId>>
          /\ \A w \in W : webNotes[w] = <<>>
      BY <1>4
    <2>2. \A w \in Webhook : webNotes'[w] = webNotes[w]
      BY <1>2, <2>1
    <2>3. \A j \in Id : Owed("opened", j) => Owed("opened", j)'
      BY <2>1, <2>2 DEF Owed, ColOwes, Listed
    <2>4. QED
      BY <2>1, <2>3
  <1>6. QED
    BY <1>3, <1>5 DEF Quiet, Rows

\* Every step of a request.
LEMMA WebStepTells ==
    ASSUME AInv, Steady, NEW w \in Webhook, WebStep(w)
    PROVE  AInv'
  <1> USE DEF Steady
  <1>0. UNCHANGED <<colPc, colId, faults>>
    BY DEF WebStep, Firing, WebLookup, WebHealth, WebResolve, WebLoopEnd, WebNotify, colVars
  <1>a. \A k \in Note, j \in Id : ColOwes(k, j)' <=> ColOwes(k, j)
    BY <1>0 DEF ColOwes
  <1>b. CASE UNCHANGED <<webNotes, sent, status, key>>
    BY <1>0, <1>a, <1>b, Untouched, QuietKeeps DEF Note
  <1>1. CASE Firing(w)
    <2> DEFINE k == Head(webAlerts[w]).key
    <2>1. k \in Key
      <3>1. Head(webAlerts[w]) \in Alert
        BY <1>1 DEF Firing, TInv, TypeOK
      <3>2. QED
        BY <3>1 DEF Alert
    <2>2. sent' = sent
      BY <1>1 DEF Firing
    <2>3. \/ UNCHANGED <<db, webNotes>>
          \/ /\ OpenTxn(k)
             /\ webNotes' = IF Created(k)
                            THEN [webNotes EXCEPT ![w] = Append(webNotes[w], <<"opened", OpenedId(k)>>)]
                            ELSE webNotes
      BY <1>1 DEF Firing
    <2> HIDE DEF k
    <2>4. CASE UNCHANGED <<db, webNotes>>
      BY <1>b, <2>2, <2>4 DEF db
    <2>5. CASE /\ OpenTxn(k)
               /\ webNotes' = IF Created(k)
                              THEN [webNotes EXCEPT ![w] = Append(webNotes[w], <<"opened", OpenedId(k)>>)]
                              ELSE webNotes
      <3>1. CASE ~Created(k) /\ UNCHANGED <<status, key>>
        BY <1>b, <2>2, <2>5, <3>1
      <3>2. CASE /\ Created(k) /\ OpenedId(k) = nextId /\ nextId \in Id
                 /\ status'[nextId] = "open"
                 /\ \A j \in Id : Rows(j)' => Rows(j) \/ j = nextId
                 /\ ~Owed("opened", nextId) /\ sent[nextId].opened = 0
        <4>1. PICK i \in Id : i = nextId
          BY <3>2
        <4>2. News("opened", i)
          BY <1>0, <2>2, <2>5, <3>2, <4>1, ListTells DEF Note
        <4>3. QED
          BY <4>2, NewsKeeps DEF Note
      <3>3. QED
        BY <2>1, <2>5, <3>1, <3>2, OpenTxnTells
    <2>6. QED
      BY <2>3, <2>4, <2>5
  <1>2. CASE WebLookup(w) \/ WebHealth(w) \/ WebLoopEnd(w)
    BY <1>2, <1>b DEF WebLookup, WebHealth, WebLoopEnd, db
  <1>3. CASE WebResolve(w)
    <2>1. PICK i \in Id : i = webId[w]
      BY DEF TInv, TypeOK
    <2>2. CASE /\ Resolvable(i) /\ ResolveTxn(i) /\ sent' = sent
               /\ webNotes' = [webNotes EXCEPT ![w] = Append(webNotes[w], <<"resolved", i>>)]
      <3>1. /\ status'[i] = "resolved" /\ \A j \in Id : Rows(j)' => Rows(j)
            /\ ~Owed("resolved", i) /\ sent[i].resolved = 0
        BY <2>2, ResolveTxnTells
      <3>2. News("resolved", i)
        BY <1>0, <2>2, <3>1, ListTells DEF Note
      <3>3. QED
        BY <3>2, NewsKeeps DEF Note
    <2>3. CASE UNCHANGED <<db, webNotes, sent>>
      BY <1>b, <2>3 DEF db
    <2>4. QED
      BY <1>3, <2>1, <2>2, <2>3 DEF WebResolve
  <1>4. CASE WebNotify(w)
    <2>1. CASE webNotes[w] = <<>>
      <3>1. WebForget({w}) /\ UNCHANGED <<sent, status, key>>
        BY <1>4, <2>1 DEF WebNotify, db
      <3>2. Quiet
        BY <1>0, <1>a, <2>1, <3>1, ForgetTells
      <3>3. QED
        BY <3>2, QuietKeeps
    <2>2. CASE webNotes[w] # <<>>
      <3>1. webNotes \in Lists /\ webNotes[w] \in Seq(Note \X Id)
        BY ListsAre DEF Lists
      <3>2. Head(webNotes[w]) \in Note \X Id
        BY <2>2, <3>1
      <3>3. PICK kind \in Note, i \in Id : Head(webNotes[w]) = <<kind, i>>
        BY <3>2
      <3>4. /\ Notify(kind, i) /\ UNCHANGED <<status, key, faults>>
            /\ webNotes' = [webNotes EXCEPT ![w] = Tail(webNotes[w])]
        BY <1>4, <2>2, <3>3 DEF WebNotify, db
      <3>5. /\ Distinct(webNotes') /\ Listed(webNotes, <<kind, i>>)
            /\ \A y : Listed(webNotes', y) <=> Listed(webNotes, y) /\ y # <<kind, i>>
        <4>1. Distinct(webNotes)
          BY DEF AInv, OwedOnce
        <4> DEFINE less == webNotes'
        <4>2. less = Cut(webNotes, w)
          BY <3>4 DEF Cut
        <4> HIDE DEF less
        <4>3. /\ Distinct(less) /\ Listed(webNotes, Head(webNotes[w]))
              /\ \A y : Listed(less, y) <=> Listed(webNotes, y) /\ y # Head(webNotes[w])
          BY <2>2, <3>1, <4>1, <4>2, Shortened
        <4>4. QED
          BY <3>3, <4>3 DEF less
      <3>6. Elsewhere(kind, i)
        BY <1>a, <3>5 DEF Elsewhere
      <3>7. ~ColOwes(kind, i)
        BY <3>5 DEF AInv, OwedOnce
      <3>8. Owed(kind, i) /\ ~Owed(kind, i)'
        BY <1>a, <3>5, <3>7 DEF Owed
      <3>9. QED
        BY <3>4, <3>5, <3>6, <3>8, TellsKeeps DEF Tells
    <2>3. QED
      BY <2>1, <2>2
  <1>5. QED
    BY <1>1, <1>2, <1>3, <1>4 DEF WebStep

\* A request that is idle owes nothing, whatever happens.
LEMMA IdleKeeps == TInv /\ IdleOwesNothing /\ [Next]_vars => IdleOwesNothing'
  <1> SUFFICES ASSUME TInv, IdleOwesNothing, [Next]_vars PROVE IdleOwesNothing'
    OBVIOUS
  <1> USE DEF IdleOwesNothing
  <1>1. CASE UNCHANGED <<webPc, webNotes>>
    BY <1>1
  <1>2. ASSUME NEW W \in SUBSET Webhook, WebForget(W) PROVE IdleOwesNothing'
    BY <1>2 DEF WebForget
  <1>3. ASSUME NEW w \in Webhook, NEW b \in Batches, Receive(w, b) PROVE IdleOwesNothing'
    BY <1>3 DEF Receive, TInv, TypeOK
  <1>4. ASSUME NEW w \in Webhook, WebStep(w) PROVE IdleOwesNothing'
    <2>1. CASE WebForget({w})
      BY <1>2, <2>1
    <2>2. CASE ~WebForget({w})
      <3>1. /\ \A v \in Webhook : v # w => webPc'[v] = webPc[v] /\ webNotes'[v] = webNotes[v]
            /\ webPc'[w] # "idle"
        BY <1>4, <2>2 DEF WebStep, Firing, WebLookup, WebHealth, WebResolve, WebLoopEnd, WebNotify,
                          TInv, TypeOK
      <3>2. QED
        BY <3>1
    <2>3. QED
      BY <2>1, <2>2
  <1>5. ASSUME NEW w \in Webhook, WebFault(w) PROVE IdleOwesNothing'
    BY <1>2, <1>5 DEF WebFault
  <1>6. CASE Crash
    BY <1>2, <1>6 DEF Crash
  <1>7. CASE \/ Collector \/ CreateManual \/ ColFault \/ UNCHANGED vars
             \/ \E i \in Id : Acknowledge(i) \/ OperatorResolve(i)
             \/ \E r \in Router : MaintenanceToggle(r) \/ LinkToggle(r)
    BY <1>1, <1>7 DEF Collector, PollStart, PollEnd, Observe, ColLookup, ColResolve, ColOpen,
          ColNotify, CreateManual, ColFault, Acknowledge, OperatorResolve, MaintenanceToggle,
          LinkToggle, webVars, vars
  <1>8. QED
    BY <1>3, <1>4, <1>5, <1>6, <1>7 DEF Next

LEMMA NextTells == TInv /\ TInv' /\ AInv /\ [Next]_vars => AInv'
  <1> SUFFICES ASSUME TInv, TInv', AInv, [Next]_vars PROVE AInv'
    OBVIOUS
  <1>0. Steady
    BY StepLives, IdleKeeps DEF Steady, AInv
  <1>1. CASE Collector
    BY <1>0, <1>1, CollectorTells
  <1>2. ASSUME NEW w \in Webhook, WebStep(w) PROVE AInv'
    BY <1>0, <1>2, WebStepTells
  <1>3. ASSUME UNCHANGED <<colPc, colId, webNotes, sent, faults>>,
               \A j \in Id : Rows(j)' => Rows(j)
        PROVE  AInv'
    <2>1. \A k \in Note, j \in Id : ColOwes(k, j)' <=> ColOwes(k, j)
      BY <1>3 DEF ColOwes
    <2>2. Quiet
      <3>1. Distinct(webNotes')
        BY <1>3 DEF AInv, OwedOnce
      <3>2. \A k \in Note, j \in Id : Owed(k, j)' <=> Owed(k, j)
        BY <1>3, <2>1 DEF Owed
      <3>3. QED
        BY <1>3, <2>1, <3>1, <3>2 DEF Quiet, Note
    <2>3. QED
      BY <1>0, <2>2, QuietKeeps
  <1>4. ASSUME NEW w \in Webhook, NEW b \in Batches, Receive(w, b) PROVE AInv'
    <2>1. webNotes[w] = <<>> /\ webNotes' = [webNotes EXCEPT ![w] = <<>>]
      BY <1>4 DEF Receive, AInv, IdleOwesNothing
    <2>2. webNotes' = webNotes
      BY <2>1 DEF TInv, TypeOK
    <2>3. QED
      BY <1>3, <1>4, <2>2 DEF Receive, colVars, db, Rows
  <1>5. ASSUME NEW i \in Id, Acknowledge(i) \/ OperatorResolve(i) PROVE AInv'
    <2>1. \A j \in Id : Rows(j)' => Rows(j)
      BY <1>5 DEF Acknowledge, Acknowledgeable, OperatorResolve, Resolvable, Active, ResolveTxn,
                  Rows, TInv, TypeOK
    <2>2. QED
      BY <1>3, <1>5, <2>1 DEF Acknowledge, OperatorResolve, colVars, webVars
  <1>6. CASE CreateManual
    <2>1. \A j \in Id : Rows(j)' => Rows(j)
      BY <1>6, ConstantAssumption DEF CreateManual, Insert, Rows, TInv, TypeOK
    <2>2. QED
      BY <1>3, <1>6, <2>1 DEF CreateManual, colVars, webVars
  <1>7. ASSUME NEW r \in Router, MaintenanceToggle(r) \/ LinkToggle(r) PROVE AInv'
    BY <1>3, <1>7 DEF MaintenanceToggle, LinkToggle, colVars, webVars, db, Rows
  <1>8. CASE ColFault
    <2>1. /\ UNCHANGED <<webNotes, sent, status, key>> /\ faults' = faults + 1
          /\ colPc' = "observe"
      BY <1>8 DEF ColFault, db, webVars
    <2>2. \A k \in Note, j \in Id : ~ColOwes(k, j)'
      BY <2>1 DEF ColOwes, Note
    <2>3. faults' # faults
      BY <2>1 DEF TInv, TypeOK
    <2>4. QED
      BY <1>0, <2>1, <2>2, <2>3, Untouched, QuietKeeps
  <1>9. ASSUME NEW w \in Webhook, WebFault(w) PROVE AInv'
    <2>1. /\ WebForget({w}) /\ UNCHANGED <<sent, status, key, colPc, colId>>
          /\ faults' = faults + 1
      BY <1>9 DEF WebFault, db, colVars
    <2>2. \A k \in Note, j \in Id : ColOwes(k, j)' => ColOwes(k, j)
      BY <2>1 DEF ColOwes
    <2>3. QED
      BY <1>0, <2>1, <2>2, ForgetTells, QuietKeeps
  <1>10. CASE Crash
    <2>1. /\ WebForget(Webhook) /\ UNCHANGED <<sent, status, key>>
          /\ faults' = faults + 1 /\ colPc' = "idle"
      BY <1>10 DEF Crash, db
    <2>2. \A k \in Note, j \in Id : ~ColOwes(k, j)'
      BY <2>1 DEF ColOwes, Note
    <2>3. QED
      BY <1>0, <2>1, <2>2, ForgetTells, QuietKeeps
  <1>11. CASE UNCHANGED vars
    BY <1>3, <1>11 DEF vars, colVars, webVars, db, Rows
  <1>12. QED
    BY <1>1, <1>2, <1>4, <1>5, <1>6, <1>7, <1>8, <1>9, <1>10, <1>11 DEF Next

LEMMA InitTells == Init => AInv
  <1> SUFFICES ASSUME Init PROVE AInv
    OBVIOUS
  <1>1. \A k \in Note, j \in Id : ~ColOwes(k, j)
    BY DEF Init, ColOwes, Note
  <1>2. Distinct(webNotes) /\ \A x : ~Listed(webNotes, x)
    <2>1. \A w \in Webhook : 1..Len(webNotes[w]) = {}
      BY DEF Init
    <2>2. QED
      BY <2>1 DEF Distinct, Listed
  <1>3. \A i \in Id : sent[i].opened = 0 /\ sent[i].resolved = 0 /\ status[i] = "none"
    BY DEF Init
  <1>4. \A i \in Id, k \in Note : sent[i][k] = 0
    BY <1>3 DEF Note
  <1>5. QED
    BY <1>1, <1>2, <1>3, <1>4
       DEF AInv, OwedOnce, OwedTrue, NoneLost, IdleOwesNothing, Owed, Note, Init

\* The writers that race for a transition tell of it once, and tell of it,
\* for any number of them (open_incident, change_incident, _notify).
THEOREM TransitionsAnnounced == Spec => []Announced
  <1>1. TInv /\ AInv => AnnouncedOnce
    <2> SUFFICES ASSUME TInv, AInv, NEW i \in Id
                 PROVE  /\ sent[i].opened <= 1 /\ sent[i].resolved <= 1
                        /\ sent[i].resolved = 1 => status[i] = "resolved"
      BY DEF AnnouncedOnce
    <2>1. sent[i].opened \in {0, 1} /\ sent[i].resolved \in {0, 1}
      BY DEF AInv, OwedOnce, Note
    <2>2. QED
      BY <2>1 DEF AInv, OwedTrue
  <1>2. TInv /\ AInv => NothingUnannounced
    <2> SUFFICES ASSUME TInv, AInv, faults = 0, colPc \in {"idle", "observe"},
                        \A w \in Webhook : webPc[w] = "idle",
                        NEW i \in Id, key[i] \in Key, status[i] # "none"
                 PROVE  sent[i].opened = 1
      BY DEF NothingUnannounced
    <2>1. ~ColOwes("opened", i)
      BY DEF ColOwes
    <2>2. \A w \in Webhook : 1..Len(webNotes[w]) = {}
      BY DEF AInv, IdleOwesNothing
    <2>3. ~Owed("opened", i)
      BY <2>1, <2>2 DEF Owed, Listed
    <2>4. QED
      BY <2>3 DEF AInv, NoneLost
  <1>3. TInv /\ AInv => Announced
    BY <1>1, <1>2 DEF Announced
  <1>4. Spec => [](TInv /\ AInv)
    BY InitTInv, NextKeeps, InitTells, NextTells, PTL DEF Spec
  <1>5. QED
    BY <1>3, <1>4, PTL

-----------------------------------------------------------------------------
(* Two facts about numbers and sets.                                        *)

\* A set of numbers has a least one.
LEMMA Least ==
  ASSUME NEW SS \in SUBSET Nat, SS # {}
  PROVE  \E n \in SS : \A m \in SS : n <= m
<1>0. PICK top \in SS : TRUE
  OBVIOUS
<1> DEFINE U == {m \in SS : m <= top}
           Below(n) == {k \in U : k < n}
           V == {Below(n) : n \in U}
<1>1. IsFiniteSet(U) /\ U \in SUBSET Nat /\ top \in U
  <2>1. U \in SUBSET Nat /\ top \in Nat /\ \A s \in U : s <= top
    OBVIOUS
  <2> HIDE DEF U
  <2>2. IsFiniteSet(U)
    BY <2>1, FS_BoundedSetOfNaturals
  <2> QED
    BY <2>1, <2>2 DEF U
<1>2. V \subseteq FiniteSubsetsOf(U) /\ V # {}
  <2>1. \A n \in U : Below(n) \in SUBSET U
    OBVIOUS
  <2> HIDE DEF Below, U
  <2>2. V \subseteq SUBSET U /\ V # {}
    BY <1>1, <2>1
  <2>3. FiniteSubsetsOf(U) = SUBSET U
    BY <1>1, FS_FiniteSubsetsOfFinite
  <2> QED
    BY <2>2, <2>3
<1>3. \E x \in V : \A y \in V : ~ (<<y, x>> \in StrictSubsetOrdering(U))
  <2> HIDE DEF V, U
  <2> QED
    BY <1>1, <1>2, WFMin, FS_StrictSubsetOrderingWellFounded
<1>4. PICK n \in U : \A y \in V : ~ (<<y, Below(n)>> \in StrictSubsetOrdering(U))
  BY <1>3
<1>5. ASSUME NEW m \in U, m < n PROVE FALSE
  <2> HIDE DEF U
  <2>0. \A k \in U : k \in Int
    BY <1>1
  <2>1. Below(m) \in V /\ Below(m) \in SUBSET U /\ Below(n) \in SUBSET U
    OBVIOUS
  <2>2. Below(m) \subseteq Below(n) /\ m \in Below(n) /\ m \notin Below(m)
    <3>1. \A k \in U : k < m => k < n
      BY <1>5, <2>0
    <3>2. ~ (m < m)
      BY <2>0
    <3> QED
      BY <1>5, <3>1, <3>2
  <2>3. ~ (<<Below(m), Below(n)>> \in StrictSubsetOrdering(U))
    BY <1>4, <2>1
  <2> HIDE DEF Below, V
  <2>4. <<Below(m), Below(n)>> \in StrictSubsetOrdering(U)
    <3>1. \A a, b \in SUBSET U : a \subseteq b /\ a # b
             => <<a, b>> \in StrictSubsetOrdering(U)
      BY DEF StrictSubsetOrdering
    <3> QED
      BY <2>1, <2>2, <3>1, Zenon
  <2> QED
    BY <2>3, <2>4
<1>6. \A m \in SS : n <= m
  BY <1>5
<1> QED
  BY <1>6

\* One more element, one more at most.
LEMMA OneAdded ==
  ASSUME NEW SS, IsFiniteSet(SS), NEW x
  PROVE  /\ Cardinality(SS) \in Nat /\ Cardinality(SS \cup {x}) \in Nat
         /\ Cardinality(SS \cup {x}) <= Cardinality(SS) + 1
<1>1. Cardinality(SS) \in Nat
  BY FS_CardinalityType
<1>2. Cardinality(SS \cup {x}) = IF x \in SS THEN Cardinality(SS) ELSE Cardinality(SS) + 1
  BY FS_AddElement
<1> QED
  BY <1>1, <1>2

-----------------------------------------------------------------------------
(* The alerts: rows have ids below the next one, and a mark is the time of the*)
(* newest row of its type as long as nothing overlaps.                      *)

AlertTyped ==
    /\ now \in 0 .. MaxTime /\ next \in 1 .. MaxAlert + 1 /\ mishaps \in 0 .. MaxFailed
    /\ mark \in [AlertKind -> A!Never .. MaxTime]
    /\ row \in [A!Alert -> [kind : AlertKind \cup {"none"}, from : A!Never .. MaxTime,
                            made : A!Never .. MaxTime, acked : BOOLEAN]]
    /\ th \in [Pusher -> [pc : {"idle", "mark", "insert"},
                          kind : AlertKind \cup {"none"}, from : A!Never .. MaxTime]]
    /\ again \in [A!Alert -> 0 .. 1]
    /\ esc \in [pc : {"rest", "walk"}, batch : SUBSET A!Alert]
    /\ notified \subseteq A!Alert /\ overlap \in BOOLEAN

\* The rows are those with an id below the next one.
AlertFilled == \A i \in A!Alert : /\ row[i].made # A!Never <=> i < next
                                  /\ i < next => /\ row[i].kind \in AlertKind
                                                 /\ row[i].from # A!Never
                                                 /\ row[i].from <= now /\ row[i].made <= now
AlertInside == \A t \in Pusher : /\ th[t].pc = "idle" => th[t] = A!Idle
                                 /\ th[t].pc # "idle" => /\ th[t].kind \in AlertKind
                                                         /\ th[t].from # A!Never
                                                         /\ th[t].from <= now
AlertMarked == \A k \in AlertKind : mark[k] <= now

\* The escalation is about rows that had waited, each once.
AlertWaited(i) == i < next /\ now - row[i].made >= Timeout
AlertTold == /\ \A i \in A!Alert : again[i] = 1 => i \in notified
             /\ \A i \in esc.batch \cup notified : AlertWaited(i)

\* As long as nothing overlaps and nothing fails.
AlertAlone == \A t, u \in Pusher : th[t].kind = th[u].kind /\ th[t].kind # "none" => t = u
AlertFar(k, time) == \A i \in A!Alert : i < next /\ row[i].kind = k
   => time - row[i].from >= Rate[k]
AlertKept == /\ \A k \in AlertKind, i \in A!Alert : i < next /\ row[i].kind = k
                                             => mark[k] # A!Never /\ row[i].from <= mark[k]
             /\ \A t \in Pusher : /\ th[t].pc # "idle" => AlertFar(th[t].kind, th[t].from)
                                  /\ th[t].pc = "insert" => mark[th[t].kind] = th[t].from
             /\ \A i, j \in A!Alert : i < j /\ j < next /\ row[i].kind = row[j].kind
                                    => row[j].from - row[i].from >= Rate[row[i].kind]

AlertInv == /\ AlertTyped /\ AlertFilled /\ AlertInside /\ AlertMarked /\ AlertTold
            /\ ~overlap /\ mishaps = 0 => AlertAlone /\ AlertKept

LEMMA AlertInitInv == ASSUME AlertsSized, A!Init PROVE AlertInv
<1> USE DEF AlertsSized, A!Init
<1>1. AlertTyped
  <2>1. /\ row \in [A!Alert -> [kind : AlertKind \cup {"none"}, from : A!Never .. MaxTime,
                             made : A!Never .. MaxTime, acked : BOOLEAN]]
        /\ mark \in [AlertKind -> A!Never .. MaxTime]
    BY DEF A!NoRow, A!Never
  <2>2. /\ th \in [Pusher -> [pc : {"idle", "mark", "insert"},
                              kind : AlertKind \cup {"none"}, from : A!Never .. MaxTime]]
        /\ again \in [A!Alert -> 0 .. 1]
    BY DEF A!Idle, A!Never
  <2>3. 0 \in 0 .. MaxTime /\ 1 \in 1 .. MaxAlert + 1 /\ 0 \in 0 .. MaxFailed
    OBVIOUS
  <2> QED
    BY <2>1, <2>2, <2>3 DEF AlertTyped
<1>2. AlertFilled /\ AlertInside /\ AlertMarked /\ AlertTold
  BY DEF AlertFilled, AlertInside, AlertMarked, AlertTold, AlertWaited, A!NoRow, A!Idle,
     A!Never, A!Alert
<1>3. AlertAlone /\ AlertKept
  BY DEF AlertAlone, AlertKept, AlertFar, A!NoRow, A!Idle, A!Never, A!Alert
<1> QED
  BY <1>1, <1>2, <1>3 DEF AlertInv

\* A day that is over: the time between is at least the one that is asked for.
LEMMA AlertDayOver ==
  ASSUME NEW x \in Int, NEW y \in Int, NEW p \in Nat \ {0}, x \div p < y \div p PROVE x < y
<1>1. x \div p \in Int /\ y \div p \in Int
  OBVIOUS
<1>2. x < p * (x \div p) + p /\ p * (y \div p) <= y
  OBVIOUS
<1>3. p * (x \div p) + p <= p * (y \div p)
  BY <1>1
<1> QED
  BY <1>1, <1>2, <1>3

LEMMA AlertCheckInv ==
  ASSUME AlertsSized, AlertInv, NEW t \in Pusher, NEW k \in AlertKind, A!Check(t, k)
  PROVE  AlertInv'
<1> USE DEF AlertsSized, AlertInv, A!Check
<1>1. AlertTyped'
  <2>1. [A!Idle EXCEPT !.pc = "mark", !.kind = k, !.from = now]
          \in [pc : {"idle", "mark", "insert"}, kind : AlertKind \cup {"none"},
               from : A!Never .. MaxTime]
    <3>1. now \in A!Never .. MaxTime
      BY DEF AlertTyped, A!Never
    <3> HIDE DEF AlertsSized, AlertInv, A!Check
    <3> QED
      BY <3>1 DEF A!Idle
  <2> QED
    BY <2>1 DEF AlertTyped, A!escalation
<1>2. AlertFilled' /\ AlertMarked' /\ AlertTold'
  BY DEF AlertFilled, AlertMarked, AlertTold, AlertWaited, A!escalation
<1>3. AlertInside'
  BY DEF AlertInside, AlertTyped, A!Idle, A!Never
<1>4. ASSUME ~overlap', mishaps' = 0 PROVE AlertAlone' /\ AlertKept'
  <2>1. ~overlap /\ mishaps = 0 /\ AlertAlone /\ AlertKept
           /\ \A u \in Pusher : th[u].kind # k
    BY <1>4 DEF AlertTyped
  <2>2. AlertAlone'
    BY <2>1 DEF AlertAlone, AlertTyped, A!Idle
  <2>3. AlertFar(k, now)
    <3> SUFFICES ASSUME NEW i \in A!Alert, i < next, row[i].kind = k
                 PROVE now - row[i].from >= Rate[k]
      BY DEF AlertFar
    <3>1. mark[k] # A!Never /\ row[i].from <= mark[k]
      BY <2>1 DEF AlertKept
    <3>2. Rate[k] = 0 \/ now - mark[k] >= Rate[k]
      BY <3>1 DEF A!Limited, AlertTyped, A!Never
    <3> QED
      BY <3>1, <3>2 DEF AlertTyped, AlertFilled, A!Never
  <2>4. AlertKept'
    BY <2>1, <2>3 DEF AlertKept, AlertFar, AlertTyped, A!Idle
  <2> QED
    BY <2>2, <2>4
<1> QED
  BY <1>1, <1>2, <1>3, <1>4

LEMMA AlertMarkInv ==
  ASSUME AlertsSized, AlertInv, NEW t \in Pusher, A!Mark(t)
  PROVE  AlertInv'
<1> USE DEF AlertsSized, AlertInv, A!Mark
<1>0. th[t].kind \in AlertKind /\ th[t].from \in 0 .. MaxTime /\ th[t].from <= now
  BY DEF AlertInside, AlertTyped, A!Never
<1>1. AlertTyped'
  BY <1>0 DEF AlertTyped, A!Never, A!escalation
<1>2. AlertFilled' /\ AlertMarked' /\ AlertTold'
  BY <1>0 DEF AlertFilled, AlertMarked, AlertTold, AlertWaited, A!escalation, AlertTyped
<1>3. AlertInside'
  BY DEF AlertInside, AlertTyped
<1>4. ASSUME ~overlap', mishaps' = 0 PROVE AlertAlone' /\ AlertKept'
  <2>1. AlertAlone /\ AlertKept
    BY <1>4
  <2>2. AlertAlone'
    BY <2>1 DEF AlertAlone, AlertTyped
  <2>3. \A u \in Pusher : th[u].kind = th[t].kind => u = t
    BY <1>0, <2>1 DEF AlertAlone
  <2>4. \A i \in A!Alert : i < next /\ row[i].kind = th[t].kind => row[i].from <= th[t].from
    <3> SUFFICES ASSUME NEW i \in A!Alert, i < next, row[i].kind = th[t].kind
                 PROVE  row[i].from <= th[t].from
      OBVIOUS
    <3>1. th[t].from - row[i].from >= Rate[th[t].kind]
      BY <1>0, <2>1 DEF AlertKept, AlertFar
    <3>2. row[i].from \in Int /\ Rate[th[t].kind] \in Nat
      BY <1>0 DEF AlertTyped, A!Never
    <3> QED
      BY <1>0, <3>1, <3>2
  <2>5. AlertKept'
    BY <1>0, <2>1, <2>3, <2>4 DEF AlertKept, AlertFar, AlertTyped, A!Never
  <2> QED
    BY <2>2, <2>5
<1> QED
  BY <1>1, <1>2, <1>3, <1>4

LEMMA AlertInsertInv ==
  ASSUME AlertsSized, AlertInv, NEW t \in Pusher, A!Insert(t)
  PROVE  AlertInv'
<1> USE DEF AlertsSized, AlertInv, A!Insert
<1>0. /\ th[t].kind \in AlertKind /\ th[t].from \in 0 .. MaxTime /\ th[t].from <= now
      /\ next \in A!Alert /\ now \in 0 .. MaxTime
  BY DEF AlertInside, AlertTyped, A!Never, A!Alert
<1> DEFINE r == [kind |-> th[t].kind, from |-> th[t].from, made |-> now, acked |-> FALSE]
<1>R. /\ row'[next] = r
          /\ row' \in [A!Alert -> [kind : AlertKind \cup {"none"}, from : A!Never .. MaxTime,
                          made : A!Never .. MaxTime, acked : BOOLEAN]]
      /\ \A i \in A!Alert \ {next} : row'[i] = row[i]
  BY <1>0 DEF AlertTyped, A!Never
<1> HIDE DEF r
<1>r. r.kind = th[t].kind /\ r.from = th[t].from /\ r.made = now
  BY DEF r
<1>1. AlertTyped'
  BY <1>0, <1>R DEF AlertTyped, A!Never, A!escalation, A!Idle, A!Alert
<1>2. AlertFilled'
  BY <1>0, <1>R, <1>r DEF AlertFilled, AlertTyped, A!Never, A!Alert
<1>3. AlertInside' /\ AlertMarked'
  BY DEF AlertInside, AlertMarked, AlertTyped, A!Idle
<1>4. AlertTold'
  <2>1. \A i \in A!Alert : i < next => row'[i] = row[i]
    BY <1>0, <1>R DEF A!Alert
  <2> QED
    BY <2>1 DEF AlertTold, AlertWaited, A!escalation, AlertTyped, A!Alert
<1>5. ASSUME ~overlap', mishaps' = 0 PROVE AlertAlone' /\ AlertKept'
  <2>1. AlertAlone /\ AlertKept
    BY <1>5
  <2>2. AlertAlone'
    BY <2>1 DEF AlertAlone, AlertTyped, A!Idle
  <2>3. \A u \in Pusher \ {t} : th[u].kind # th[t].kind /\ th'[u] = th[u]
    BY <1>0, <2>1 DEF AlertAlone, AlertTyped
  <2>4. th'[t] = A!Idle
    BY DEF AlertTyped
  <2>5. mark[th[t].kind] = th[t].from /\ AlertFar(th[t].kind, th[t].from)
    BY <2>1 DEF AlertKept
  <2>6. \A i \in A!Alert : i < next' => i < next \/ i = next
    BY <1>0 DEF A!Alert, AlertTyped
  <2>7. \A k \in AlertKind, i \in A!Alert : i < next' /\ row'[i].kind = k
                                        => mark'[k] # A!Never /\ row'[i].from <= mark'[k]
    BY <1>0, <1>R, <1>r, <2>1, <2>5, <2>6 DEF AlertKept, A!Never
  <2>8. ASSUME NEW u \in Pusher
        PROVE  /\ (th[u].pc # "idle" => AlertFar(th[u].kind, th[u].from))'
               /\ (th[u].pc = "insert" => mark[th[u].kind] = th[u].from)'
    <3>1. CASE u = t
      BY <2>4, <3>1 DEF A!Idle
    <3>2. CASE u # t
      <4>1. th'[u] = th[u] /\ th[u].kind # th[t].kind
        BY <2>3, <3>2
      <4>2. \A i \in A!Alert : i < next' /\ row'[i].kind = th[u].kind => i < next
               /\ row'[i] = row[i]
        BY <1>0, <1>R, <1>r, <2>6, <4>1
      <4>3. /\ th[u].pc # "idle" => AlertFar(th[u].kind, th[u].from)
            /\ th[u].pc = "insert" => mark[th[u].kind] = th[u].from
        BY <2>1 DEF AlertKept
      <4>4. th[u].pc # "idle" => AlertFar(th[u].kind, th[u].from)'
        BY <4>1, <4>2, <4>3 DEF AlertFar
      <4> QED
        BY <4>1, <4>3, <4>4
    <3> QED
      BY <3>1, <3>2
  <2>9. ASSUME NEW i \in A!Alert, NEW j \in A!Alert, i < j, j < next',
               row'[i].kind = row'[j].kind
        PROVE  row'[j].from - row'[i].from >= Rate[row'[i].kind]
    <3>1. i < next /\ row'[i] = row[i]
      BY <1>0, <1>R, <2>9 DEF A!Alert, AlertTyped
    <3>2. CASE j < next
      BY <1>0, <1>R, <2>9, <2>1, <3>1, <3>2 DEF AlertKept, A!Alert
    <3>3. CASE j = next
      BY <1>R, <1>r, <2>9, <2>5, <3>1, <3>3 DEF AlertFar
    <3> QED
      BY <2>6, <2>9, <3>2, <3>3
  <2>10. AlertKept'
    BY <2>7, <2>8, <2>9 DEF AlertKept
  <2> QED
    BY <2>2, <2>10
<1> QED
  BY <1>1, <1>2, <1>3, <1>4, <1>5

LEMMA AlertInsertFailsInv ==
  ASSUME AlertsSized, AlertInv, NEW t \in Pusher, A!InsertFails(t)
  PROVE  AlertInv'
<1> USE DEF AlertsSized, AlertInv, A!InsertFails
<1>1. AlertTyped'
  BY DEF AlertTyped, A!Never, A!escalation, A!Idle
<1>2. AlertFilled' /\ AlertInside' /\ AlertMarked' /\ AlertTold'
  BY DEF AlertFilled, AlertInside, AlertMarked, AlertTold, AlertWaited, A!escalation,
     AlertTyped, A!Idle
<1>3. mishaps' # 0
  BY DEF AlertTyped
<1> QED
  BY <1>1, <1>2, <1>3

LEMMA AlertAcknowledgeInv ==
  ASSUME AlertsSized, AlertInv, NEW ids, A!Acknowledge(ids)
  PROVE  AlertInv'
<1> USE DEF AlertsSized, AlertInv, A!Acknowledge
<1>0. \A i \in A!Alert : /\ row'[i].kind = row[i].kind /\ row'[i].from = row[i].from
                         /\ row'[i].made = row[i].made
  BY DEF AlertTyped
<1>1. AlertTyped'
  <2>1. row' \in [A!Alert -> [kind : AlertKind \cup {"none"}, from : A!Never .. MaxTime,
                           made : A!Never .. MaxTime, acked : BOOLEAN]]
    <3> SUFFICES ASSUME NEW i \in A!Alert
                 PROVE  [row[i] EXCEPT !.acked = TRUE]
                          \in [kind : AlertKind \cup {"none"}, from : A!Never .. MaxTime,
                              made : A!Never .. MaxTime, acked : BOOLEAN]
      BY DEF AlertTyped
    <3>1. row[i] \in [kind : AlertKind \cup {"none"}, from : A!Never .. MaxTime,
                      made : A!Never .. MaxTime, acked : BOOLEAN]
      BY DEF AlertTyped
    <3> QED
      BY <3>1
  <2> QED
    BY <2>1 DEF AlertTyped, A!escalation
<1>2. AlertFilled' /\ AlertInside' /\ AlertMarked'
  BY <1>0 DEF AlertFilled, AlertInside, AlertMarked
<1>3. AlertTold'
  BY <1>0 DEF AlertTold, AlertWaited, A!escalation, AlertTyped
<1>4. ASSUME ~overlap', mishaps' = 0 PROVE AlertAlone' /\ AlertKept'
  BY <1>0, <1>4 DEF AlertAlone, AlertKept, AlertFar
<1> QED
  BY <1>1, <1>2, <1>3, <1>4

\* What the escalation reads has waited.
LEMMA AlertOldWaited ==
  ASSUME AlertsSized, AlertTyped, AlertFilled, NEW i \in A!Rows, A!Old(i)
  PROVE  AlertWaited(i)
<1>1. row[i].made < now - Timeout
  BY AlertDayOver DEF AlertsSized, AlertTyped, A!Rows, A!Old, A!Day, A!Never
<1> QED
  BY <1>1 DEF AlertWaited, AlertFilled, A!Rows, AlertsSized, AlertTyped, A!Never

LEMMA AlertBatches == ASSUME AlertsSized, AlertTyped PROVE esc.batch \in SUBSET Nat
<1>1. esc.batch \subseteq A!Alert
  BY DEF AlertTyped
<1>2. A!Alert \subseteq Nat
  BY DEF A!Alert
<1> QED
  BY <1>1, <1>2

LEMMA AlertEscalateInv ==
  ASSUME AlertsSized, AlertInv, A!Escalate \/ A!EscNotifyFails
  PROVE  AlertInv'
<1> USE DEF AlertsSized, AlertInv
<1>0. /\ UNCHANGED <<now, mark, row, next, th, overlap>>
      /\ mishaps' \in 0 .. MaxFailed /\ (mishaps' = 0 => mishaps = 0)
  BY DEF A!Escalate, A!EscRead, A!EscNotify, A!EscDone, A!EscNotifyFails, AlertTyped
<1>1. AlertFilled' /\ AlertInside' /\ AlertMarked' /\ (~overlap' /\ mishaps' = 0
         => AlertAlone' /\ AlertKept')
  BY <1>0 DEF AlertFilled, AlertInside, AlertMarked, AlertAlone, AlertKept, AlertFar
<1>2. CASE A!EscRead
  <2>1. \A i \in esc'.batch : i \in A!Alert /\ AlertWaited(i)
    BY <1>2, AlertOldWaited DEF A!EscRead, A!Rows
  <2>2. AlertTyped' /\ AlertTold'
    BY <1>2, <2>1 DEF A!EscRead, AlertTyped, AlertTold, AlertWaited, A!Rows
  <2> QED
    BY <1>1, <2>2
<1>3. ASSUME NEW i \in esc.batch, esc'.batch \subseteq esc.batch,
             esc' \in [pc : {"rest", "walk"}, batch : SUBSET A!Alert],
             notified' = notified \cup {i}, again' \in [A!Alert -> 0 .. 1],
             \A j \in A!Alert : again'[j] = 1 => again[j] = 1 \/ j = i
      PROVE  AlertTyped' /\ AlertTold'
  BY <1>0, <1>3 DEF AlertTyped, AlertTold, AlertWaited
<1>4. CASE A!EscNotify
  <2> DEFINE i == CHOOSE n \in esc.batch : \A m \in esc.batch : n <= m
  <2>1. i \in esc.batch
    <3>1. esc.batch \in SUBSET Nat /\ esc.batch # {}
      BY <1>4, AlertBatches DEF A!EscNotify
    <3> QED
      BY <3>1, Least
  <2> HIDE DEF i
  <2>2. esc' = [esc EXCEPT !.batch = @ \ {i}]
    BY <1>4 DEF A!EscNotify, i
  <2>3. \/ UNCHANGED <<again, notified>>
        \/ /\ i \notin notified /\ notified' = notified \cup {i}
           /\ again' = [again EXCEPT ![i] = IF @ = 2 THEN 2 ELSE @ + 1]
    BY <1>4 DEF A!EscNotify, i, A!Remember
  <2>4. esc'.batch \subseteq esc.batch
           /\ esc' \in [pc : {"rest", "walk"}, batch : SUBSET A!Alert]
    BY <2>2 DEF AlertTyped
  <2>5. CASE UNCHANGED <<again, notified>>
    BY <1>0, <1>1, <2>4, <2>5 DEF AlertTyped, AlertTold, AlertWaited
  <2>6. CASE /\ i \notin notified /\ notified' = notified \cup {i}
             /\ again' = [again EXCEPT ![i] = IF @ = 2 THEN 2 ELSE @ + 1]
    <3>1. i \in A!Alert /\ again[i] = 0
      BY <2>1, <2>6 DEF AlertTyped, AlertTold
    <3> QED
      BY <1>1, <1>3, <2>1, <2>4, <2>6, <3>1 DEF AlertTyped
  <2> QED
    BY <1>1, <2>3, <2>5, <2>6
<1>5. CASE A!EscNotifyFails
  <2> DEFINE i == CHOOSE n \in esc.batch : \A m \in esc.batch : n <= m
  <2>1. i \in esc.batch
    <3>1. esc.batch \in SUBSET Nat /\ esc.batch # {}
      BY <1>5, AlertBatches DEF A!EscNotifyFails
    <3> QED
      BY <3>1, Least
  <2>2. notified' = notified \cup {i} /\ esc' = [pc |-> "rest", batch |-> {}]
           /\ again' = again
    BY <1>5 DEF A!EscNotifyFails
  <2> HIDE DEF i
  <2> QED
    BY <1>1, <1>3, <2>1, <2>2 DEF AlertTyped
<1>6. CASE A!EscDone
  <2>1. AlertTyped' /\ AlertTold'
    BY <1>0, <1>6 DEF A!EscDone, AlertTyped, AlertTold, AlertWaited
  <2> QED
    BY <1>1, <2>1
<1> QED
  BY <1>2, <1>4, <1>5, <1>6 DEF A!Escalate

LEMMA AlertTickInv == ASSUME AlertsSized, AlertInv, A!Tick PROVE AlertInv'
<1> USE DEF AlertsSized, AlertInv, A!Tick
<1>1. AlertTyped' /\ AlertFilled' /\ AlertInside' /\ AlertMarked'
  BY DEF AlertTyped, AlertFilled, AlertInside, AlertMarked, A!Never, A!escalation
<1>2. AlertTold'
  BY DEF AlertTold, AlertWaited, A!escalation, AlertTyped, A!Never
<1>3. ~overlap' /\ mishaps' = 0 => AlertAlone' /\ AlertKept'
  BY DEF AlertAlone, AlertKept, AlertFar
<1> QED
  BY <1>1, <1>2, <1>3

LEMMA AlertRestartInv == ASSUME AlertsSized, AlertInv, A!Restart PROVE AlertInv'
<1> USE DEF AlertsSized, AlertInv, A!Restart
<1>1. AlertTyped'
  BY DEF AlertTyped, A!Never, A!Idle
<1>2. AlertFilled' /\ AlertInside' /\ AlertMarked' /\ AlertTold' /\ mishaps' # 0
  BY DEF AlertTyped, AlertFilled, AlertInside, AlertMarked, AlertTold, A!Idle, A!Never
<1> QED
  BY <1>1, <1>2

LEMMA AlertNextInv == ASSUME AlertsSized, AlertInv, [A!Next]_alertVars PROVE AlertInv'
<1>1. CASE UNCHANGED alertVars
  BY <1>1 DEF alertVars, AlertInv, AlertTyped, AlertFilled, AlertInside, AlertMarked,
     AlertTold, AlertWaited, AlertAlone, AlertKept, AlertFar
<1> QED
  BY <1>1, AlertCheckInv, AlertMarkInv, AlertInsertInv, AlertInsertFailsInv,
     AlertAcknowledgeInv, AlertEscalateInv, AlertTickInv,
     AlertRestartInv DEF A!Next

LEMMA AlertSound == ASSUME AlertsSized, AlertInv PROVE A!TypeOK /\ A!AlertsTold
<1> USE DEF AlertInv
<1>1. A!TypeOK
  BY DEF A!TypeOK, AlertTyped
<1>2. \A i \in A!Alert : i \in A!Rows <=> i < next
  BY DEF A!Rows, AlertFilled
<1> QED
  BY <1>1, <1>2 DEF A!AlertsTold, AlertKept, AlertTold, AlertWaited, AlertTyped, A!Rows

-----------------------------------------------------------------------------
(* The connections: each scan stands for as many as the threshold says.      *)

LEMMA IdsCount == \A s : I!Cardinality(s) = Cardinality(s)
  BY Zenon DEF I!Cardinality, Cardinality

\* Typed, and with a list of texts that were told.
IdsTyped ==
    /\ seen \in [I!Key -> I!Never .. Cutoff] /\ met \subseteq I!Key
    /\ last \in [I!Endpoint -> I!Never .. Pause]
    /\ scan \in [Ip -> SUBSET Port]
    /\ events \in Seq(told) /\ Len(events) <= KeepEvents
    /\ told \subseteq I!Text
    /\ fresh \in [Ip -> 0 .. MaxFresh] /\ raised \in [Ip -> Nat]

\* Each scan stands for as many new connections as the threshold says.
IdsCounted == \A i \in Ip : raised[i] * Threshold + Cardinality(scan[i]) <= fresh[i]

IdsInv == IdsTyped /\ IdsCounted

LEMMA IdsInitInv == ASSUME IdsSized, I!Init PROVE IdsInv
<1> USE DEF IdsSized, I!Init
<1>1. seen \in [I!Key -> I!Never .. Cutoff] /\ met \subseteq I!Key
         /\ last \in [I!Endpoint -> I!Never .. Pause]
  BY DEF I!Never
<1>2. scan \in [Ip -> SUBSET Port] /\ fresh \in [Ip -> 0 .. MaxFresh]
         /\ raised \in [Ip -> Nat]
  OBVIOUS
<1>3. events \in Seq(told) /\ Len(events) <= KeepEvents /\ told \subseteq I!Text
  OBVIOUS
<1>4. IdsCounted
  BY FS_EmptySet DEF IdsCounted
<1> QED
  BY <1>1, <1>2, <1>3, <1>4 DEF IdsInv, IdsTyped

LEMMA IdsOlderTyped ==
  ASSUME IdsSized, IdsTyped, NEW e \in I!Endpoint
  PROVE  I!Older(e) \in I!Never .. Pause
<1>1. last[e] \in I!Never .. Pause
  BY DEF IdsTyped
<1> QED
  BY <1>1 DEF I!Older, I!Never, IdsSized

LEMMA IdsSeenTyped ==
  ASSUME IdsSized, IdsTyped, NEW k \in I!Key
  PROVE  I!Seen(k) \in I!Never .. Cutoff
<1>1. seen[k] \in I!Never .. Cutoff
  BY DEF IdsTyped
<1> QED
  BY <1>1 DEF I!Seen, I!Never, IdsSized

\* The head of a list with one more text.
LEMMA IdsListedTyped ==
  ASSUME IdsSized, NEW T, NEW list \in Seq(T), Len(list) <= KeepEvents, NEW x \in T
  PROVE  I!Listed(list, x) \in Seq(T) /\ Len(I!Listed(list, x)) <= KeepEvents
<1> DEFINE all == <<x>> \o list
           n == IF Len(list) < KeepEvents THEN Len(list) + 1 ELSE KeepEvents
<1>1. all \in Seq(T) /\ Len(all) = Len(list) + 1
  BY ConcatProperties
<1>2. n \in 0 .. Len(all) /\ n <= KeepEvents
  BY <1>1 DEF IdsSized
<1> HIDE DEF all, n
<1>3. SubSeq(all, 1, n) \in Seq(T) /\ Len(SubSeq(all, 1, n)) = n
  BY <1>1, <1>2, SubSeqProperties
<1> QED
  BY <1>2, <1>3 DEF I!Listed, all, n

\* A text that is found need not be told: it has been.
LEMMA IdsRaiseTyped ==
  ASSUME IdsSized, NEW x \in I!Text, NEW s,
         s.told \subseteq I!Text, s.list \in Seq(s.told), Len(s.list) <= KeepEvents
  PROVE  LET r == I!Raise(s, x)
         IN  r.told \subseteq I!Text /\ r.list \in Seq(r.told) /\ Len(r.list) <= KeepEvents
<1> DEFINE r == I!Raise(s, x)
<1>1. r.list = I!Listed(s.list, x)
         /\ r.told = IF I!Found(s.list, x) THEN s.told ELSE s.told \cup {x}
  BY DEF I!Raise
<1>2. x \in r.told /\ s.told \subseteq r.told /\ r.told \subseteq I!Text
  <2>1. CASE I!Found(s.list, x)
    BY <1>1, <2>1 DEF I!Found
  <2>2. CASE ~I!Found(s.list, x)
    BY <1>1, <2>2
  <2> QED
    BY <2>1, <2>2
<1>3. s.list \in Seq(r.told)
  BY <1>2
<1> HIDE DEF r
<1>4. r.list \in Seq(r.told) /\ Len(r.list) <= KeepEvents
  BY <1>1, <1>2, <1>3, IdsListedTyped
<1> QED
  BY <1>2, <1>4 DEF r

LEMMA IdsJudgeTyped ==
  ASSUME IdsSized, IdsTyped, NEW k \in I!Key, NEW excused
  PROVE  LET r == I!Judge(k, excused)
         IN  r.told \subseteq I!Text /\ r.list \in Seq(r.told) /\ Len(r.list) <= KeepEvents
<1> DEFINE before == [list |-> events, told |-> told]
           scanned == IF I!IsScan(k[2]) THEN I!Raise(before, I!ScanText(k)) ELSE before
<1>0. I!ScanText(k) \in I!Text /\ I!PortText(k) \in I!Text
  BY DEF I!ScanText, I!PortText, I!Text, I!Key, I!Endpoint
<1>1. /\ before.told \subseteq I!Text /\ before.list \in Seq(before.told)
      /\ Len(before.list) <= KeepEvents
  BY DEF IdsTyped
<1>2. /\ scanned.told \subseteq I!Text /\ scanned.list \in Seq(scanned.told)
      /\ Len(scanned.list) <= KeepEvents
  <2> HIDE DEF before
  <2>1. CASE I!IsScan(k[2])
    BY <1>0, <1>1, <2>1, IdsRaiseTyped
  <2>2. CASE ~I!IsScan(k[2])
    BY <1>1, <2>2
  <2> QED
    BY <2>1, <2>2
<1>3. I!Judge(k, excused) = IF I!IsPort(k[2], excused) THEN I!Raise(scanned, I!PortText(k))
                                                        ELSE scanned
  BY DEF I!Judge
<1> HIDE DEF scanned
<1>4. CASE I!IsPort(k[2], excused)
  BY <1>0, <1>2, <1>3, <1>4, IdsRaiseTyped
<1>5. CASE ~I!IsPort(k[2], excused)
  BY <1>2, <1>3, <1>5
<1> QED
  BY <1>4, <1>5

LEMMA IdsPassesInv ==
  ASSUME IdsSized, IdsInv, NEW k \in I!Key, I!Passes(k) PROVE IdsInv'
<1> USE DEF IdsSized, IdsInv
<1>1. /\ met' = met \cup {k}
      /\ UNCHANGED <<seen, scan, last, events, told, fresh, raised>>
  BY DEF I!Passes
<1>2. IdsTyped'
  BY <1>1 DEF IdsTyped
<1>3. IdsCounted'
  BY <1>1 DEF IdsCounted
<1> QED
  BY <1>2, <1>3

LEMMA IdsEndsInv == ASSUME IdsSized, IdsInv, I!SampleEnds PROVE IdsInv'
<1> USE DEF IdsSized, IdsInv
<1>1. /\ seen' = [k \in I!Key |-> I!Seen(k)]
      /\ last' = [e \in I!Endpoint |-> I!Older(e)]
      /\ met' = {} /\ UNCHANGED <<scan, events, told, fresh, raised>>
  BY DEF I!SampleEnds
<1>2. seen' \in [I!Key -> I!Never .. Cutoff]
         /\ last' \in [I!Endpoint -> I!Never .. Pause]
  BY <1>1, IdsSeenTyped, IdsOlderTyped
<1>3. IdsTyped'
  BY <1>1, <1>2 DEF IdsTyped
<1>4. IdsCounted'
  BY <1>1 DEF IdsCounted
<1> QED
  BY <1>3, <1>4

\* One more scan, one threshold more.
LEMMA IdsOneMore == ASSUME NEW r \in Nat, NEW t \in Nat PROVE (r + 1) * t = r * t + t
  OBVIOUS

LEMMA IdsMeetsInv ==
  ASSUME IdsSized, IdsInv, NEW k \in I!Key, NEW excused, I!Meets(k, excused)
  PROVE  IdsInv'
<1> USE DEF IdsSized, IdsInv
<1> DEFINE e == k[2]
           i == e[1]
<1>1. /\ fresh[i] < MaxFresh
      /\ met' = met \cup {k} /\ seen' = seen
      /\ scan' = [scan EXCEPT ![i] = I!Cleared(e)]
      /\ last' = IF I!IsPort(e, excused) THEN [last EXCEPT ![e] = 0] ELSE last
      /\ events' = I!Judge(k, excused).list
      /\ told' = I!Judge(k, excused).told
      /\ fresh' = [fresh EXCEPT ![i] = @ + 1]
      /\ raised' = [raised EXCEPT ![i] = IF I!IsScan(e) THEN @ + 1 ELSE @]
  BY DEF I!Meets
<1>2. e \in I!Endpoint /\ i \in Ip /\ e[2] \in Port /\ i = e[1]
  BY DEF I!Key, I!Endpoint
<1>3. seen' \in [I!Key -> I!Never .. Cutoff] /\ met' \subseteq I!Key
  BY <1>1 DEF IdsTyped
<1>4. last' \in [I!Endpoint -> I!Never .. Pause]
  <2>1. 0 \in I!Never .. Pause
    BY DEF I!Never
  <2> QED
    BY <1>1, <1>2, <2>1 DEF IdsTyped
<1> HIDE DEF e, i
<1>5. told' \subseteq I!Text /\ events' \in Seq(told') /\ Len(events') <= KeepEvents
  BY <1>1, IdsJudgeTyped
<1>6. fresh' \in [Ip -> 0 .. MaxFresh] /\ raised' \in [Ip -> Nat]
  BY <1>1, <1>2 DEF IdsTyped
<1>7. I!Ports(e) \in SUBSET Port /\ I!Cleared(e) \in SUBSET Port
  <2>1. scan[e[1]] \in SUBSET Port
    BY <1>2 DEF IdsTyped
  <2>2. I!Ports(e) \in SUBSET Port
    BY <1>2, <2>1 DEF I!Ports
  <2> QED
    BY <2>2 DEF I!Cleared
<1>8. scan' \in [Ip -> SUBSET Port]
  BY <1>1, <1>2, <1>7 DEF IdsTyped
<1>9. IdsTyped'
  BY <1>3, <1>4, <1>5, <1>6, <1>8 DEF IdsTyped
<1>10. /\ IsFiniteSet(scan[i]) /\ Cardinality(scan[i]) \in Nat
       /\ Cardinality(I!Ports(e)) \in Nat
       /\ Cardinality(I!Ports(e)) <= Cardinality(scan[i]) + 1
  <2>1. IsFiniteSet(scan[i]) /\ IsFiniteSet(I!Ports(e))
    BY <1>2, <1>7, FS_Subset DEF IdsTyped
  <2>2. I!Ports(e) = scan[i] \cup {e[2]}
    BY <1>2 DEF I!Ports
  <2> QED
    BY <2>1, <2>2, OneAdded
<1>11. \A j \in Ip \ {i} : scan'[j] = scan[j] /\ raised'[j] = raised[j]
          /\ fresh'[j] = fresh[j]
  BY <1>1, <1>2 DEF IdsTyped
<1>12. raised'[i] * Threshold + Cardinality(scan'[i]) <= fresh'[i]
  <2> DEFINE r == raised[i]
             f == fresh[i]
  <2>1. /\ r \in Nat /\ f \in Nat /\ fresh'[i] = f + 1
        /\ scan'[i] = I!Cleared(e) /\ raised'[i] = IF I!IsScan(e) THEN r + 1 ELSE r
    BY <1>1, <1>2 DEF IdsTyped
  <2>2. r * Threshold + Cardinality(scan[i]) <= f
    BY <1>2 DEF IdsCounted
  <2>3. r * Threshold \in Nat
    BY <2>1
  <2>4. CASE I!IsScan(e)
    <3>1. Cardinality(scan'[i]) = 0 /\ raised'[i] = r + 1
             /\ Cardinality(I!Ports(e)) >= Threshold
      BY <2>1, <2>4, FS_EmptySet, IdsCount DEF I!Cleared, I!IsScan
    <3>2. raised'[i] * Threshold = r * Threshold + Threshold
      BY <2>1, <3>1, IdsOneMore
    <3> HIDE DEF r, f
    <3> QED
      BY <1>10, <2>1, <2>2, <2>3, <3>1, <3>2
  <2>5. CASE ~I!IsScan(e)
    <3>1. scan'[i] = I!Ports(e) /\ raised'[i] = r
      BY <2>1, <2>5 DEF I!Cleared
    <3> HIDE DEF r, f
    <3> QED
      BY <1>10, <2>1, <2>2, <2>3, <3>1
  <2> QED
    BY <2>4, <2>5
<1>13. IdsCounted'
  BY <1>11, <1>12 DEF IdsCounted
<1> QED
  BY <1>9, <1>13

LEMMA IdsNextInv == ASSUME IdsSized, IdsInv, [I!Next]_idsVars PROVE IdsInv'
<1>1. CASE UNCHANGED idsVars
  BY <1>1 DEF idsVars, IdsInv, IdsTyped, IdsCounted
<1> QED
  BY <1>1, IdsPassesInv, IdsMeetsInv, IdsEndsInv DEF I!Next

LEMMA IdsSound == ASSUME IdsSized, IdsInv PROVE I!TypeOK /\ I!IdsTells
<1>1. \A n \in DOMAIN events : events[n] \in told
  BY DEF IdsInv, IdsTyped
<1>2. raised \in [Ip -> 0 .. MaxFresh]
  <2> SUFFICES ASSUME NEW i \in Ip PROVE raised[i] \in 0 .. MaxFresh
    BY DEF IdsInv, IdsTyped
  <2>1. raised[i] \in Nat /\ fresh[i] \in 0 .. MaxFresh /\ Cardinality(scan[i]) \in Nat
    BY FS_Subset, FS_CardinalityType DEF IdsInv, IdsTyped, IdsSized
  <2>2. raised[i] * Threshold + Cardinality(scan[i]) <= fresh[i]
    BY DEF IdsInv, IdsCounted
  <2>3. raised[i] * Threshold >= raised[i]
    <3>1. \A r \in Nat, t \in Nat \ {0} : r * t >= r
      OBVIOUS
    <3> QED
      BY <2>1, <3>1 DEF IdsSized
  <2>4. raised[i] * Threshold \in Nat
    BY <2>1 DEF IdsSized
  <2> QED
    BY <2>1, <2>2, <2>3, <2>4 DEF IdsSized
<1>3. I!TypeOK
  BY <1>1, <1>2 DEF IdsInv, IdsTyped, I!TypeOK
<1> QED
  BY <1>1, <1>3, IdsCount DEF IdsInv, IdsCounted, I!IdsTells

-----------------------------------------------------------------------------
(* The local network: who scans has the lock, and what is known was told of.*)

LanSteps == [pc : {"rest", "probe", "row", "tell", "free"},
             left : SUBSET Mac, mac : Mac \cup {0}, got : SUBSET Mac]

LanTyped ==
    /\ lock \in Scanner \cup {0} /\ scanning \in BOOLEAN
    /\ result \subseteq Mac /\ known \subseteq Mac /\ table \subseteq Mac
    /\ lanTold \in [Mac -> 0 .. 2]
    /\ run \in [Scanner -> LanSteps]
    /\ forgot \in BOOLEAN /\ lanFaults \in 0 .. MaxRefused

\* Who does not rest holds the lock.
LanLocked == \A s \in Scanner : ~L!At(s, "rest") => lock = s

\* Who is about to tell of an address has one.
LanPlaced == \A s \in Scanner : L!At(s, "tell") <=> run[s].mac # 0

\* As long as the table was written and read: what was told is in it, and known.
LanKept == ~forgot => /\ \A m \in Mac : lanTold[m] <= 1
                      /\ \A m \in Mac : lanTold[m] >= 1 => m \in known
                      /\ known \subseteq table
                      /\ \A s \in Scanner : L!At(s, "tell") => run[s].mac \in table

\* As long as nothing fails, what is known or in the table has been told of.
LanHeard == lanFaults = 0 =>
    /\ \A m \in known \ Trusted : lanTold[m] >= 1
    /\ \A m \in table : m \in known \/ \E s \in Scanner : run[s].mac = m

LanInv == LanTyped /\ LanLocked /\ LanPlaced /\ LanKept /\ LanHeard

LEMMA LanRestSteps ==
  /\ L!Rest \in LanSteps /\ L!Rest.pc = "rest" /\ L!Rest.mac = 0
  /\ \A rest \in SUBSET Mac : LET r == [L!Rest EXCEPT !.pc = "row", !.left = rest]
                              IN  r \in LanSteps /\ r.pc = "row" /\ r.mac = 0
  /\ LET r == [L!Rest EXCEPT !.pc = "free"] IN r \in LanSteps /\ r.pc = "free" /\ r.mac = 0
  BY DEF L!Rest, LanSteps

LEMMA LanInitInv == ASSUME LanScanSized, L!Init PROVE LanInv
<1> USE DEF LanScanSized, L!Init
<1>1. LanTyped
  <2>0. L!Rest \in LanSteps
    BY LanRestSteps
  <2>1. run \in [Scanner -> LanSteps]
    BY <2>0
  <2>3. lanTold \in [Mac -> 0 .. 2]
    OBVIOUS
  <2>2. lanFaults \in 0 .. MaxRefused /\ lock \in Scanner \cup {0}
    OBVIOUS
  <2> QED
    BY <2>1, <2>2, <2>3 DEF LanTyped
<1>2. LanLocked /\ LanPlaced /\ LanKept /\ LanHeard
  BY DEF LanLocked, LanPlaced, LanKept, LanHeard, L!At, L!Rest
<1> QED
  BY <1>1, <1>2 DEF LanInv

\* A scanner goes on; nobody else does.
LEMMA LanGoes ==
  ASSUME LanScanSized, LanInv, NEW s \in Scanner, NEW r \in LanSteps,
         run' = [run EXCEPT ![s] = r]
  PROVE  /\ run' \in [Scanner -> LanSteps] /\ run'[s] = r
         /\ \A t \in Scanner \ {s} : run'[t] = run[t]
  BY DEF LanInv, LanTyped

LEMMA LanAlone ==
  ASSUME LanScanSized, LanInv, NEW s \in Scanner, ~L!At(s, "rest")
  PROVE  lock = s /\ \A t \in Scanner \ {s} : L!At(t, "rest") /\ run[t].mac = 0
  BY DEF LanInv, LanLocked, LanPlaced, L!At

LEMMA LanStartInv ==
  ASSUME LanScanSized, LanInv, NEW s \in Scanner, L!Start(s)
  PROVE  LanInv'
<1> USE DEF LanScanSized, LanInv, L!Start
<1> DEFINE r == [run[s] EXCEPT !.pc = "probe"]
<1>1. \A t \in Scanner : L!At(t, "rest")
  BY DEF L!Free, LanLocked
<1>2. r \in LanSteps /\ r.pc = "probe" /\ r.mac = 0 /\ run[s].mac = 0
  BY DEF LanTyped, LanSteps, LanPlaced, L!At
<1>3. run' = [run EXCEPT ![s] = r]
  BY DEF LanTyped
<1> HIDE DEF r
<1>4. run' \in [Scanner -> LanSteps] /\ run'[s] = r
         /\ \A t \in Scanner \ {s} : run'[t] = run[t]
  BY <1>2, <1>3, LanGoes
<1>5. LanTyped' /\ LanLocked' /\ LanPlaced'
  BY <1>1, <1>2, <1>4 DEF LanTyped, LanLocked, LanPlaced, L!At, L!devices
<1>6. LanKept'
  BY <1>2, <1>4 DEF LanKept, L!At, L!devices
<1>7. LanHeard'
  BY <1>2, <1>4 DEF LanHeard, L!devices
<1> QED
  BY <1>5, <1>6, <1>7

\* A step of the one who scans, whose address is none before and after.
LEMMA LanQuietInv ==
  ASSUME LanScanSized, LanInv, NEW s \in Scanner, ~L!At(s, "rest"), run[s].mac = 0,
         NEW r \in LanSteps, r.pc \notin {"rest", "tell"}, r.mac = 0,
         run' = [run EXCEPT ![s] = r],
         UNCHANGED <<lock, known, table, lanTold, forgot>>,
         lanFaults' \in 0 .. MaxRefused, lanFaults' = 0 => lanFaults = 0,
         scanning' \in BOOLEAN, result' \subseteq Mac
  PROVE  LanInv'
<1> USE DEF LanScanSized, LanInv
<1>1. run' \in [Scanner -> LanSteps] /\ run'[s] = r
         /\ \A t \in Scanner \ {s} : run'[t] = run[t]
  BY LanGoes
<1>2. LanTyped' /\ LanLocked' /\ LanPlaced'
  BY <1>1, LanAlone DEF LanTyped, LanLocked, LanPlaced, L!At
<1>3. LanKept'
  BY <1>1 DEF LanKept, L!At
<1>4. LanHeard'
  BY <1>1 DEF LanHeard
<1> QED
  BY <1>2, <1>3, <1>4

LEMMA LanProbeInv ==
  ASSUME LanScanSized, LanInv, NEW s \in Scanner, L!Probe(s)
  PROVE  LanInv'
<1>1. PICK found \in SUBSET Mac :
        run' = [run EXCEPT ![s] = [L!Rest EXCEPT !.pc = "row", !.left = found]]
  BY DEF L!Probe
<1>2. ~L!At(s, "rest") /\ run[s].mac = 0
  BY DEF L!Probe, L!At, LanInv, LanPlaced
<1> DEFINE r == [L!Rest EXCEPT !.pc = "row", !.left = found]
<1>3. r \in LanSteps /\ r.pc = "row" /\ r.mac = 0
  BY LanRestSteps
<1> HIDE DEF r
<1> QED
  BY <1>1, <1>2, <1>3, LanQuietInv DEF L!Probe, L!devices, r, LanInv, LanTyped

LEMMA LanPublishInv ==
  ASSUME LanScanSized, LanInv, NEW s \in Scanner, L!Publish(s) \/ L!Fails(s)
  PROVE  LanInv'
<1> DEFINE r == [L!Rest EXCEPT !.pc = "free"]
<1>1. run' = [run EXCEPT ![s] = r] /\ ~L!At(s, "rest") /\ run[s].mac = 0
  BY DEF L!Publish, L!Fails, L!At, LanInv, LanPlaced
<1>2. r \in LanSteps /\ r.pc = "free" /\ r.mac = 0
  BY LanRestSteps
<1> HIDE DEF r
<1>3. /\ UNCHANGED <<lock, known, table, lanTold, forgot, scanning>>
      /\ lanFaults' \in 0 .. MaxRefused /\ (lanFaults' = 0 => lanFaults = 0)
          /\ result' \subseteq Mac
  BY DEF L!Publish, L!Fails, L!devices, LanInv, LanTyped, LanSteps, LanScanSized
<1>4. scanning' \in BOOLEAN
  BY <1>3 DEF LanInv, LanTyped
<1> QED
  BY <1>1, <1>2, <1>3, <1>4, LanQuietInv

LEMMA LanRowInv ==
  ASSUME LanScanSized, LanInv, NEW s \in Scanner, L!Row(s) \/ L!RowFails(s)
  PROVE  LanInv'
<1> USE DEF LanScanSized, LanInv
<1>1. PICK m \in run[s].left :
        /\ run' = [run EXCEPT ![s].pc = "tell", ![s].mac = m, ![s].left = @ \ {m},
                              ![s].got = @ \cup {m}]
        /\ \/ table' = table \cup {m} /\ UNCHANGED <<forgot, lanFaults>>
           \/ UNCHANGED table /\ forgot' = TRUE /\ lanFaults' = lanFaults + 1
               /\ lanFaults < MaxRefused
  BY DEF L!Row, L!RowFails, L!devices
<1>2. L!At(s, "row") /\ UNCHANGED <<lock, scanning, result, known, lanTold>>
  BY DEF L!Row, L!RowFails, L!devices
<1> DEFINE r ==
       [run[s] EXCEPT !.pc = "tell", !.mac = m, !.left = @ \ {m}, !.got = @ \cup {m}]
<1>3. run[s] \in LanSteps /\ run[s].mac = 0
  BY <1>2 DEF LanTyped, LanPlaced, L!At
<1>4. m \in Mac /\ m # 0
  BY <1>3 DEF LanSteps
<1>5. r \in LanSteps /\ r.pc = "tell" /\ r.mac = m
  BY <1>3, <1>4 DEF LanSteps
<1>6. run' = [run EXCEPT ![s] = r]
  BY <1>1 DEF LanTyped
<1> HIDE DEF r
<1>7. run' \in [Scanner -> LanSteps] /\ run'[s] = r
         /\ \A t \in Scanner \ {s} : run'[t] = run[t]
  BY <1>5, <1>6, LanGoes
<1>8. ~L!At(s, "rest")
  BY <1>2 DEF L!At
<1>9. LanTyped' /\ LanLocked' /\ LanPlaced'
  <2>1. table' \subseteq Mac /\ forgot' \in BOOLEAN /\ lanFaults' \in 0 .. MaxRefused
    <3>1. table \subseteq Mac /\ forgot \in BOOLEAN /\ lanFaults \in Nat
             /\ lanFaults <= MaxRefused
      BY DEF LanTyped
    <3>2. CASE table' = table \cup {m} /\ UNCHANGED <<forgot, lanFaults>>
      BY <1>4, <3>1, <3>2
    <3>3. CASE UNCHANGED table /\ forgot' = TRUE /\ lanFaults' = lanFaults + 1
             /\ lanFaults < MaxRefused
      BY <3>1, <3>3
    <3> QED
      BY <1>1, <3>2, <3>3
  <2>2. LanTyped'
    BY <1>2, <1>7, <2>1 DEF LanTyped
  <2>4. lock = s /\ \A t \in Scanner \ {s} : L!At(t, "rest") /\ run[t].mac = 0
    BY <1>8, LanAlone
  <2>5. \A t \in Scanner \ {s} : L!At(t, "rest")' /\ run'[t].mac = 0
    BY <1>7, <2>4 DEF L!At
  <2>3. LanLocked' /\ LanPlaced'
    BY <1>2, <1>4, <1>5, <1>7, <2>4, <2>5 DEF LanLocked, LanPlaced, L!At
  <2> QED
    BY <2>2, <2>3
<1>10. LanKept'
  BY <1>1, <1>2, <1>5, <1>7, <1>8, LanAlone DEF LanKept, L!At, LanTyped
<1>11. LanHeard'
  BY <1>1, <1>2, <1>3, <1>4, <1>5, <1>7 DEF LanHeard, LanTyped
<1> QED
  BY <1>9, <1>10, <1>11

LEMMA LanTellInv == ASSUME LanScanSized, LanInv, NEW s \in Scanner, L!Tell(s) PROVE LanInv'
<1> USE DEF LanScanSized, LanInv
<1> DEFINE m == run[s].mac
           r == [run[s] EXCEPT !.pc = "row", !.mac = 0]
<1>1. /\ lanTold' = IF L!IsNew(m) /\ m \notin Trusted
                 THEN [lanTold EXCEPT ![m] = IF @ = 2 THEN 2 ELSE @ + 1] ELSE lanTold
      /\ known' = known \cup {m} /\ run' = [run EXCEPT ![s] = r]
      /\ UNCHANGED <<lock, scanning, result, table, forgot, lanFaults>>
  BY DEF L!Tell, L!Noted, LanTyped
<1>2. run[s] \in LanSteps /\ L!At(s, "tell") /\ m \in Mac /\ ~L!At(s, "rest")
  BY DEF L!Tell, LanTyped, LanPlaced, LanSteps, L!At
<1>3. r \in LanSteps /\ r.pc = "row" /\ r.mac = 0
  BY <1>2 DEF LanSteps
<1> HIDE DEF r
<1>4. run' \in [Scanner -> LanSteps] /\ run'[s] = r
         /\ \A t \in Scanner \ {s} : run'[t] = run[t]
  BY <1>1, <1>3, LanGoes
<1>5. /\ lanTold' \in [Mac -> 0 .. 2]
      /\ \A x \in Mac \ {m} : lanTold'[x] = lanTold[x]
      /\ lanTold'[m] >= lanTold[m]
      /\ lanTold'[m] # lanTold[m] => m \notin known /\ lanTold'[m] <= lanTold[m] + 1
      /\ m \notin known /\ m \notin Trusted => lanTold'[m] >= 1
  <2>1. lanTold[m] \in 0 .. 2
    BY <1>2 DEF LanTyped
  <2> HIDE DEF m
  <2>2. CASE L!IsNew(m) /\ m \notin Trusted
    BY <1>1, <1>2, <2>1, <2>2 DEF LanTyped, L!IsNew
  <2>3. CASE ~(L!IsNew(m) /\ m \notin Trusted)
    BY <1>1, <1>2, <2>1, <2>3 DEF LanTyped, L!IsNew
  <2> QED
    BY <2>2, <2>3
<1>6. LanTyped' /\ LanLocked' /\ LanPlaced'
  BY <1>1, <1>2, <1>3, <1>4, <1>5, LanAlone DEF LanTyped, LanLocked, LanPlaced, L!At
<1>7. LanKept'
  <2> SUFFICES ASSUME ~forgot PROVE LanKept'
    BY <1>1 DEF LanKept
  <2>1. lanTold[m] \in 0 .. 2 /\ lanTold'[m] \in 0 .. 2
    BY <1>2, <1>5 DEF LanTyped
  <2>2. lanTold[m] >= 1 => m \in known
    BY <1>2 DEF LanKept
  <2>3. lanTold'[m] <= 1
    BY <1>2, <1>5, <2>1, <2>2 DEF LanKept
  <2>4. known' \subseteq table'
    BY <1>1, <1>2 DEF LanKept
  <2>5. \A x \in Mac : lanTold'[x] <= 1 /\ (lanTold'[x] >= 1 => x \in known')
    BY <1>1, <1>5, <2>3 DEF LanKept
  <2>6. \A t \in Scanner : ~L!At(t, "tell")'
    BY <1>2, <1>3, <1>4, LanAlone DEF L!At
  <2> QED
    BY <2>4, <2>5, <2>6 DEF LanKept
<1>8. LanHeard'
  <2> SUFFICES ASSUME lanFaults = 0 PROVE LanHeard'
    BY <1>1 DEF LanHeard
  <2>1. ASSUME NEW x \in known' \ Trusted PROVE lanTold'[x] >= 1
    <3>1. x \in Mac
      BY <1>6 DEF LanTyped
    <3>2. CASE x \in known
      <4>1. lanTold[x] >= 1
        BY <2>1, <3>2 DEF LanHeard
      <4>2. CASE x = m
        BY <1>5, <3>1, <4>1, <4>2 DEF LanTyped
      <4> QED
        BY <1>5, <3>1, <4>1, <4>2
    <3>3. CASE x \notin known
      BY <1>1, <1>5, <2>1, <3>3
    <3> QED
      BY <3>2, <3>3
  <2>2. ASSUME NEW x \in table' PROVE x \in known' \/ \E t \in Scanner : run'[t].mac = x
    BY <1>1, <1>4 DEF LanHeard
  <2> QED
    BY <2>1, <2>2 DEF LanHeard
<1> QED
  BY <1>6, <1>7, <1>8

LEMMA LanReleaseInv ==
  ASSUME LanScanSized, LanInv, NEW s \in Scanner, L!Release(s)
  PROVE  LanInv'
<1> USE DEF LanScanSized, LanInv, L!Release
<1>0. ~L!At(s, "rest") /\ run[s].mac = 0
         /\ UNCHANGED <<result, known, table, lanTold, forgot, lanFaults>>
  BY DEF L!At, LanPlaced, L!devices
<1>1. CASE scanning
  <2>1. scanning' = FALSE /\ UNCHANGED <<lock, run>>
    BY <1>1
  <2>2. LanTyped' /\ LanLocked' /\ LanPlaced'
    BY <1>0, <2>1 DEF LanTyped, LanLocked, LanPlaced, L!At
  <2>3. LanKept' /\ LanHeard'
    BY <1>0, <2>1 DEF LanKept, LanHeard, L!At
  <2> QED
    BY <2>2, <2>3
<1>2. CASE ~scanning
  <2>1. lock' = 0 /\ run' = [run EXCEPT ![s] = L!Rest] /\ scanning' = scanning
    BY <1>2
  <2>2. L!Rest \in LanSteps /\ L!Rest.pc = "rest" /\ L!Rest.mac = 0
    BY LanRestSteps
  <2>3. run' \in [Scanner -> LanSteps] /\ run'[s] = L!Rest
           /\ \A t \in Scanner \ {s} : run'[t] = run[t]
    BY <2>1, <2>2, LanGoes
  <2>4. \A t \in Scanner : L!At(t, "rest")' /\ run'[t].mac = 0
    BY <1>0, <2>2, <2>3, LanAlone DEF L!At
  <2>5. LanTyped' /\ LanLocked' /\ LanPlaced'
    BY <1>0, <2>1, <2>3, <2>4 DEF LanTyped, LanLocked, LanPlaced, L!At
  <2>6. LanKept'
    BY <1>0, <2>4 DEF LanKept, L!At
  <2>7. LanHeard'
    BY <1>0, <2>2, <2>3 DEF LanHeard
  <2> QED
    BY <2>5, <2>6, <2>7
<1> QED
  BY <1>1, <1>2

LEMMA LanRestartInv == ASSUME LanScanSized, LanInv, L!Restart PROVE LanInv'
<1> USE DEF LanScanSized, LanInv, L!Restart
<1>1. LanTyped'
  <2>0. L!Rest \in LanSteps
    BY LanRestSteps
  <2>1. run' \in [Scanner -> LanSteps]
    BY <2>0
  <2>2. lanFaults' \in 0 .. MaxRefused
    BY DEF LanTyped
  <2>3. known' \subseteq Mac /\ forgot' \in BOOLEAN
    BY DEF LanTyped
  <2> QED
    BY <2>1, <2>2, <2>3 DEF LanTyped
<1>2. \A s \in Scanner : run'[s] = L!Rest /\ L!Rest.pc = "rest" /\ L!Rest.mac = 0
  BY LanRestSteps
<1>3. LanLocked' /\ LanPlaced'
  BY <1>2 DEF LanLocked, LanPlaced, L!At
<1>4. LanKept'
  <2> SUFFICES ASSUME ~forgot' PROVE LanKept'
    BY DEF LanKept
  <2>1. known' = table /\ table' = table /\ lanTold' = lanTold /\ ~forgot
    OBVIOUS
  <2> QED
    BY <1>2, <2>1 DEF LanKept, L!At
<1>5. LanHeard'
  BY DEF LanHeard, LanTyped
<1> QED
  BY <1>1, <1>3, <1>4, <1>5

LEMMA LanNextInv == ASSUME LanScanSized, LanInv, [L!Next]_lanVars PROVE LanInv'
<1>1. CASE UNCHANGED lanVars
  BY <1>1 DEF lanVars, LanInv, LanTyped, LanLocked, LanPlaced, LanKept, LanHeard, L!At
<1> QED
  BY <1>1, LanStartInv, LanProbeInv, LanRowInv, LanTellInv, LanPublishInv, LanReleaseInv,
     LanRestartInv DEF L!Next

LEMMA LanSound == ASSUME LanScanSized, LanInv PROVE L!TypeOK /\ L!LanTold
<1> USE DEF LanInv
<1>1. L!TypeOK
  BY DEF L!TypeOK, LanTyped, LanSteps
<1>2. \A s, t \in Scanner : ~L!At(s, "rest") /\ ~L!At(t, "rest") => s = t
  BY DEF LanLocked
<1>3. lanFaults = 0 => \A m \in table \ Trusted : lanTold[m] >= 1
         \/ \E s \in Scanner : run[s].mac = m
  BY DEF LanHeard
<1> QED
  BY <1>1, <1>2, <1>3 DEF L!LanTold, LanKept

-----------------------------------------------------------------------------
(* The route probe: of the threads alive one walks the current lists.       *)

LEMMA ProbeCount == \A s : M!Cardinality(s) = Cardinality(s)
  BY Zenon DEF M!Cardinality, Cardinality

ProbeLoops == [pc : {"none", "top", "hop", "wait", "ended"}, on : 0 .. MaxLoop,
               target : Target \cup {0}]
ProbeCalls == [pc : {"rest", "stop", "join", "set", "clear", "spawn"},
               then : {"start", "end"}, of : 0 .. MaxLoop]

ProbeTyped ==
    /\ running \in BOOLEAN /\ stop \in BOOLEAN
    /\ hops \in 0 .. MaxLoop /\ thread \in 0 .. MaxLoop
    /\ aim \in [M!Loop -> Target \cup {0}]
    /\ mixed \subseteq M!Loop
    /\ loop \in [M!Loop -> ProbeLoops]
    /\ call \in [Caller -> ProbeCalls]
    /\ turn \in {"new", "rotate", "ended"}
    /\ probeOverlap \in BOOLEAN /\ probeFaults \in 0 .. MaxFailed

\* What is started or walked exists.
ProbePlaced == /\ turn # "ended" => Fan \in Caller
               /\ running => hops \in M!Loop
               /\ \A c \in Caller : call[c].pc \in {"clear", "spawn"}
                   => call[c].of \in M!Loop
               /\ \A l \in M!Loop : loop[l].pc = "hop" => loop[l].on \in M!Loop

ProbeLives(l) == loop[l].pc \notin {"none", "ended"}

\* One request at a time.
ProbeOneCall == \A c, d \in Caller : ~M!At(c, "rest") /\ ~M!At(d, "rest") => c = d

\* The thread that lives is the last one started, walking its own lists.
ProbeOneLoop == /\ mixed = {}
                /\ \A l \in M!Loop : ProbeLives(l) => l = thread /\ l = hops
                    /\ loop[l].target = aim[l]
                /\ \A l \in M!Loop : loop[l].pc = "hop" => loop[l].on = l

\* What a request has done so far.
ProbeHalfway == \A c \in Caller :
    /\ M!At(c, "join") => ~running /\ call[c].of = thread
    /\ call[c].pc \in {"set", "clear", "spawn"} => \A l \in M!Loop : ~ProbeLives(l)
    /\ call[c].pc \in {"clear", "spawn"} => running /\ call[c].of = hops
    /\ M!At(c, "spawn") => ~stop

\* A probe that says it runs does, one that says it does not has ended.
ProbeSteady == (\A c \in Caller : call[c].pc \in {"rest", "stop"}) =>
                   IF running THEN ~stop /\ thread \in M!Loop /\ ProbeLives(thread)
                              ELSE \A l \in M!Loop : ~ProbeLives(l)

ProbeAlone == ~probeOverlap /\ probeFaults = 0 => ProbeOneCall /\ ProbeOneLoop
   /\ ProbeHalfway /\ ProbeSteady

ProbeInv == ProbeTyped /\ ProbePlaced /\ ProbeAlone

LEMMA ProbeInitInv == ASSUME MtrSized, M!Init PROVE ProbeInv
<1> USE DEF MtrSized, M!Init
<1>1. ProbeTyped
  <2>1. aim \in [M!Loop -> Target \cup {0}] /\ loop \in [M!Loop -> ProbeLoops]
           /\ call \in [Caller -> ProbeCalls]
    BY DEF ProbeLoops, ProbeCalls
  <2>2. probeFaults \in 0 .. MaxFailed /\ hops \in 0 .. MaxLoop /\ thread \in 0 .. MaxLoop
    OBVIOUS
  <2> QED
    BY <2>1, <2>2 DEF ProbeTyped
<1>2. ProbePlaced
  BY DEF ProbePlaced
<1>3. ProbeOneCall /\ ProbeOneLoop /\ ProbeHalfway /\ ProbeSteady
  BY DEF ProbeOneCall, ProbeOneLoop, ProbeHalfway, ProbeSteady, M!At, ProbeLives
<1> QED
  BY <1>1, <1>2, <1>3 DEF ProbeInv, ProbeAlone

\* A request goes on; nobody else does.
LEMMA ProbeCallGoes ==
  ASSUME MtrSized, ProbeInv, NEW c \in Caller, NEW r \in ProbeCalls,
         call' = [call EXCEPT ![c] = r]
  PROVE  /\ call' \in [Caller -> ProbeCalls] /\ call'[c] = r
         /\ \A d \in Caller \ {c} : call'[d] = call[d]
  BY DEF ProbeInv, ProbeTyped

LEMMA ProbeLoopGoes ==
  ASSUME MtrSized, ProbeInv, NEW l \in M!Loop, NEW r \in ProbeLoops,
         loop' = [loop EXCEPT ![l] = r]
  PROVE  /\ loop' \in [M!Loop -> ProbeLoops] /\ loop'[l] = r
         /\ \A k \in M!Loop \ {l} : loop'[k] = loop[k]
  BY DEF ProbeInv, ProbeTyped

LEMMA ProbeEnterInv ==
  ASSUME MtrSized, ProbeInv, NEW c \in Caller, NEW then \in {"start", "end"},
         M!Enter(c, then),
         turn' = turn \/ (turn' = "rotate" /\ c = Fan)
  PROVE  ProbeInv'
<1> USE DEF MtrSized, ProbeInv
<1> DEFINE r == [pc |-> IF then = "end"
       \/ running THEN "stop" ELSE "set", then |-> then, of |-> 0]
<1>1. r \in ProbeCalls /\ r.pc \in {"stop", "set"} /\ (r.pc = "set" => ~running)
         /\ call' = [call EXCEPT ![c] = r]
  BY DEF M!Enter, ProbeCalls
<1> HIDE DEF r
<1>2. /\ call' \in [Caller -> ProbeCalls] /\ call'[c] = r
          /\ \A d \in Caller \ {c} : call'[d] = call[d]
  BY <1>1, ProbeCallGoes
<1>3. UNCHANGED <<running, stop, hops, aim, mixed, thread, loop, probeFaults>>
         /\ M!At(c, "rest")
      /\ probeOverlap' = (probeOverlap \/ \E d \in Caller : ~M!At(d, "rest"))
  BY DEF M!Enter, M!state
<1>4. ProbeTyped'
  BY <1>2, <1>3 DEF ProbeTyped
<1>5. ProbePlaced'
  BY <1>1, <1>2, <1>3 DEF ProbePlaced
<1>6. ASSUME ~probeOverlap', probeFaults' = 0
      PROVE (ProbeOneCall /\ ProbeOneLoop /\ ProbeHalfway /\ ProbeSteady)'
  <2>1. ~probeOverlap /\ probeFaults = 0 /\ \A d \in Caller : call[d].pc = "rest"
    BY <1>3, <1>6 DEF M!At
  <2>2. ProbeOneCall /\ ProbeOneLoop /\ ProbeHalfway /\ ProbeSteady
    BY <2>1 DEF ProbeAlone
  <2>3. ProbeOneCall' /\ ProbeOneLoop'
    BY <1>2, <1>3, <2>1, <2>2 DEF ProbeOneCall, ProbeOneLoop, M!At, ProbeLives
  <2>4. ProbeHalfway'
    BY <1>1, <1>2, <1>3, <2>1, <2>2 DEF ProbeHalfway, ProbeSteady, M!At, ProbeLives
  <2>5. ProbeSteady'
    BY <1>1, <1>2, <1>3, <2>1, <2>2 DEF ProbeSteady, ProbeLives
  <2> QED
    BY <2>3, <2>4, <2>5
<1> QED
  BY <1>4, <1>5, <1>6 DEF ProbeAlone

LEMMA ProbeRequestInv ==
  ASSUME MtrSized, ProbeInv, NEW c \in Caller, NEW then \in {"start", "end"},
         M!Request(c, then) PROVE ProbeInv'
  BY ProbeEnterInv DEF M!Request

LEMMA ProbeFanInv == ASSUME MtrSized, ProbeInv, M!FanStep PROVE ProbeInv'
<1>1. CASE running
  <2>1. Fan \in Caller
    BY DEF M!FanStep, ProbeInv, ProbePlaced
  <2>2. M!Enter(Fan, "start") /\ turn' = "rotate"
    BY <1>1 DEF M!FanStep
  <2> QED
    BY <2>1, <2>2, ProbeEnterInv
<1>2. CASE ~running
  <2>1. turn' = "ended"
           /\ UNCHANGED <<running, stop, hops, aim, mixed, thread, loop, call,
                          probeOverlap, probeFaults>>
    BY <1>2 DEF M!FanStep, M!state
  <2> QED
    BY <2>1 DEF ProbeInv, ProbeTyped, ProbePlaced, ProbeAlone, ProbeOneCall, ProbeOneLoop,
       ProbeHalfway, ProbeSteady, M!At, ProbeLives
<1> QED
  BY <1>1, <1>2

LEMMA ProbeStopInv == ASSUME MtrSized, ProbeInv, NEW c \in Caller, M!Stop(c) PROVE ProbeInv'
<1> USE DEF MtrSized, ProbeInv
<1> DEFINE r == [call[c] EXCEPT !.pc = "join", !.of = thread]
<1>1. r \in ProbeCalls /\ r.pc = "join" /\ r.of = thread /\ call' = [call EXCEPT ![c] = r]
  BY DEF M!Stop, ProbeCalls, ProbeTyped
<1> HIDE DEF r
<1>2. /\ call' \in [Caller -> ProbeCalls] /\ call'[c] = r
          /\ \A d \in Caller \ {c} : call'[d] = call[d]
  BY <1>1, ProbeCallGoes
<1>3. UNCHANGED <<hops, aim, mixed, thread, loop, turn, probeOverlap, probeFaults>>
         /\ M!At(c, "stop")
      /\ running' = FALSE /\ stop' = TRUE
  BY DEF M!Stop
<1>4. ProbeTyped' /\ ProbePlaced'
  BY <1>1, <1>2, <1>3 DEF ProbeTyped, ProbePlaced
<1>5. ASSUME ~probeOverlap', probeFaults' = 0
      PROVE (ProbeOneCall /\ ProbeOneLoop /\ ProbeHalfway /\ ProbeSteady)'
  <2>1. ProbeOneCall /\ ProbeOneLoop /\ ProbeHalfway /\ ProbeSteady
    BY <1>3, <1>5 DEF ProbeAlone
  <2>2. \A d \in Caller \ {c} : call[d].pc = "rest"
    BY <1>3, <2>1 DEF ProbeOneCall, M!At
  <2>3. ProbeOneCall' /\ ProbeOneLoop'
    BY <1>2, <1>3, <2>1, <2>2 DEF ProbeOneCall, ProbeOneLoop, M!At, ProbeLives
  <2>4. ProbeHalfway' /\ ProbeSteady'
    BY <1>1, <1>2, <1>3, <2>1, <2>2 DEF ProbeHalfway, ProbeSteady, M!At, ProbeLives
  <2> QED
    BY <2>3, <2>4
<1> QED
  BY <1>4, <1>5 DEF ProbeAlone

LEMMA ProbeJoinInv == ASSUME MtrSized, ProbeInv, NEW c \in Caller, M!Join(c) PROVE ProbeInv'
<1> USE DEF MtrSized, ProbeInv
<1> DEFINE r == [call[c] EXCEPT !.pc = IF call[c].then = "start" THEN "set" ELSE "rest"]
<1>1. r \in ProbeCalls /\ r.pc \in {"set", "rest"} /\ call' = [call EXCEPT ![c] = r]
  BY DEF M!Join, M!Go, ProbeCalls, ProbeTyped
<1> HIDE DEF r
<1>2. /\ call' \in [Caller -> ProbeCalls] /\ call'[c] = r
          /\ \A d \in Caller \ {c} : call'[d] = call[d]
  BY <1>1, ProbeCallGoes
<1>3. UNCHANGED <<running, stop, hops, aim, mixed, thread, loop, turn, probeOverlap>>
         /\ M!At(c, "join")
  BY DEF M!Join, M!state
<1>4. probeFaults' \in 0 .. MaxFailed /\ (probeFaults' = 0 => probeFaults = 0
         /\ M!Ended(call[c].of))
  BY DEF M!Join, ProbeTyped
<1>5. ProbeTyped' /\ ProbePlaced'
  BY <1>1, <1>2, <1>3, <1>4 DEF ProbeTyped, ProbePlaced
<1>6. ASSUME ~probeOverlap', probeFaults' = 0
      PROVE (ProbeOneCall /\ ProbeOneLoop /\ ProbeHalfway /\ ProbeSteady)'
  <2>1. ProbeOneCall /\ ProbeOneLoop /\ ProbeHalfway /\ ProbeSteady /\ M!Ended(call[c].of)
    BY <1>3, <1>4, <1>6 DEF ProbeAlone
  <2>2. \A d \in Caller \ {c} : call[d].pc = "rest"
    BY <1>3, <2>1 DEF ProbeOneCall, M!At
  <2>3. ~running /\ call[c].of = thread
    BY <1>3, <2>1 DEF ProbeHalfway
  <2>4. \A l \in M!Loop : ~ProbeLives(l)
    BY <2>1, <2>3 DEF ProbeOneLoop, ProbeLives, M!Ended
  <2>5. ProbeOneCall' /\ ProbeOneLoop'
    BY <1>2, <1>3, <2>1, <2>2 DEF ProbeOneCall, ProbeOneLoop, M!At, ProbeLives
  <2>6. ProbeHalfway' /\ ProbeSteady'
    BY <1>1, <1>2, <1>3, <2>2, <2>3, <2>4 DEF ProbeHalfway, ProbeSteady, M!At, ProbeLives
  <2> QED
    BY <2>5, <2>6
<1> QED
  BY <1>5, <1>6 DEF ProbeAlone

LEMMA ProbeSetInv == ASSUME MtrSized, ProbeInv, NEW c \in Caller, M!Set(c) PROVE ProbeInv'
<1> USE DEF MtrSized, ProbeInv
<1>0. hops + 1 \in M!Loop
  BY DEF M!Set, M!Loop, ProbeTyped
<1> DEFINE r == [call[c] EXCEPT !.pc = "clear", !.of = hops + 1]
<1>1. r \in ProbeCalls /\ r.pc = "clear" /\ r.of = hops + 1
         /\ call' = [call EXCEPT ![c] = r]
  <2>1. call[c] \in ProbeCalls /\ hops + 1 \in 0 .. MaxLoop
    BY <1>0 DEF M!Loop, ProbeTyped
  <2>2. r \in ProbeCalls /\ r.pc = "clear" /\ r.of = hops + 1
    BY <2>1 DEF ProbeCalls
  <2>3. call' = [call EXCEPT ![c] = r]
    BY DEF M!Set, ProbeTyped
  <2> QED
    BY <2>2, <2>3
<1> HIDE DEF r
<1>2. /\ call' \in [Caller -> ProbeCalls] /\ call'[c] = r
          /\ \A d \in Caller \ {c} : call'[d] = call[d]
  BY <1>1, ProbeCallGoes
<1>3. UNCHANGED <<stop, mixed, thread, loop, turn, probeOverlap, probeFaults>>
         /\ M!At(c, "set")
      /\ running' = TRUE /\ hops' = hops + 1
  BY DEF M!Set
<1>4. aim' \in [M!Loop -> Target \cup {0}]
  BY DEF M!Set, ProbeTyped
<1>5. ProbeTyped'
  <2>1. hops' \in 0 .. MaxLoop
    BY <1>0, <1>3 DEF M!Loop
  <2> QED
    BY <1>2, <1>3, <1>4, <2>1 DEF ProbeTyped
<1>6. ProbePlaced'
  BY <1>0, <1>1, <1>2, <1>3 DEF ProbePlaced
<1>7. ASSUME ~probeOverlap', probeFaults' = 0
      PROVE (ProbeOneCall /\ ProbeOneLoop /\ ProbeHalfway /\ ProbeSteady)'
  <2>1. ProbeOneCall /\ ProbeOneLoop /\ ProbeHalfway /\ ProbeSteady
    BY <1>3, <1>7 DEF ProbeAlone
  <2>2. \A d \in Caller \ {c} : call[d].pc = "rest"
    BY <1>3, <2>1 DEF ProbeOneCall, M!At
  <2>3. \A l \in M!Loop : ~ProbeLives(l)
    BY <1>3, <2>1 DEF ProbeHalfway, M!At
  <2>4. ProbeOneCall'
    BY <1>2, <2>2 DEF ProbeOneCall, M!At
  <2>5. ProbeOneLoop'
    BY <1>3, <2>1, <2>3 DEF ProbeOneLoop, ProbeLives
  <2>6. ProbeHalfway' /\ ProbeSteady'
    BY <1>1, <1>2, <1>3, <2>2, <2>3 DEF ProbeHalfway, ProbeSteady, M!At, ProbeLives
  <2> QED
    BY <2>4, <2>5, <2>6
<1> QED
  BY <1>5, <1>6, <1>7 DEF ProbeAlone

LEMMA ProbeClearInv ==
  ASSUME MtrSized, ProbeInv, NEW c \in Caller, M!Clear(c)
  PROVE  ProbeInv'
<1> USE DEF MtrSized, ProbeInv
<1> DEFINE r == [call[c] EXCEPT !.pc = "spawn"]
<1>1. r \in ProbeCalls /\ r.pc = "spawn" /\ r.of = call[c].of
         /\ call' = [call EXCEPT ![c] = r]
  BY DEF M!Clear, M!Go, ProbeCalls, ProbeTyped
<1> HIDE DEF r
<1>2. /\ call' \in [Caller -> ProbeCalls] /\ call'[c] = r
          /\ \A d \in Caller \ {c} : call'[d] = call[d]
  BY <1>1, ProbeCallGoes
<1>3. UNCHANGED <<running, hops, aim, mixed, thread, loop, turn, probeOverlap,
                  probeFaults>> /\ M!At(c, "clear")
      /\ stop' = FALSE
  BY DEF M!Clear
<1>4. ProbeTyped' /\ ProbePlaced'
  BY <1>1, <1>2, <1>3 DEF ProbeTyped, ProbePlaced, M!At
<1>5. ASSUME ~probeOverlap', probeFaults' = 0
      PROVE (ProbeOneCall /\ ProbeOneLoop /\ ProbeHalfway /\ ProbeSteady)'
  <2>1. ProbeOneCall /\ ProbeOneLoop /\ ProbeHalfway /\ ProbeSteady
    BY <1>3, <1>5 DEF ProbeAlone
  <2>2. \A d \in Caller \ {c} : call[d].pc = "rest"
    BY <1>3, <2>1 DEF ProbeOneCall, M!At
  <2>3. ProbeOneCall' /\ ProbeOneLoop'
    BY <1>2, <1>3, <2>1, <2>2 DEF ProbeOneCall, ProbeOneLoop, M!At, ProbeLives
  <2>4. ProbeHalfway' /\ ProbeSteady'
    BY <1>1, <1>2, <1>3, <2>1, <2>2 DEF ProbeHalfway, ProbeSteady, M!At, ProbeLives
  <2> QED
    BY <2>3, <2>4
<1> QED
  BY <1>4, <1>5 DEF ProbeAlone

LEMMA ProbeSpawnInv ==
  ASSUME MtrSized, ProbeInv, NEW c \in Caller, M!Spawn(c)
  PROVE  ProbeInv'
<1> USE DEF MtrSized, ProbeInv
<1> DEFINE r == [call[c] EXCEPT !.pc = "rest"]
<1>1. r \in ProbeCalls /\ r.pc = "rest" /\ call' = [call EXCEPT ![c] = r]
  BY DEF M!Spawn, M!Go, ProbeCalls, ProbeTyped
<1>2. PICK l \in M!Loop : l = call[c].of
  BY DEF M!Spawn, ProbePlaced, M!At
<1> DEFINE q == [pc |-> "top", on |-> 0, target |-> aim[l]]
<1>3. q \in ProbeLoops /\ q.pc = "top" /\ q.target = aim[l]
  BY DEF ProbeLoops, ProbeTyped
<1>4. /\ loop' = [loop EXCEPT ![l] = q] /\ thread' = l /\ M!At(c, "spawn")
      /\ UNCHANGED <<running, stop, hops, aim, mixed, turn, probeOverlap, probeFaults>>
  BY <1>2 DEF M!Spawn
<1> HIDE DEF r, q
<1>5. /\ call' \in [Caller -> ProbeCalls] /\ call'[c] = r
          /\ \A d \in Caller \ {c} : call'[d] = call[d]
  BY <1>1, ProbeCallGoes
<1>6. /\ loop' \in [M!Loop -> ProbeLoops] /\ loop'[l] = q
          /\ \A k \in M!Loop \ {l} : loop'[k] = loop[k]
  BY <1>3, <1>4, ProbeLoopGoes
<1>7. ProbeTyped'
  <2>1. thread' \in 0 .. MaxLoop
    BY <1>4 DEF M!Loop
  <2> QED
    BY <1>4, <1>5, <1>6, <2>1 DEF ProbeTyped
<1>8. ProbePlaced'
  BY <1>1, <1>3, <1>4, <1>5, <1>6 DEF ProbePlaced
<1>9. ASSUME ~probeOverlap', probeFaults' = 0
      PROVE (ProbeOneCall /\ ProbeOneLoop /\ ProbeHalfway /\ ProbeSteady)'
  <2>1. ProbeOneCall /\ ProbeOneLoop /\ ProbeHalfway /\ ProbeSteady
    BY <1>4, <1>9 DEF ProbeAlone
  <2>2. \A d \in Caller \ {c} : call[d].pc = "rest"
    BY <1>4, <2>1 DEF ProbeOneCall, M!At
  <2>3. running /\ ~stop /\ l = hops /\ \A k \in M!Loop : ~ProbeLives(k)
    BY <1>2, <1>4, <2>1 DEF ProbeHalfway, M!At
  <2>4. ProbeOneCall'
    BY <1>5, <2>2 DEF ProbeOneCall, M!At
  <2>5. ProbeOneLoop'
    BY <1>3, <1>4, <1>6, <2>1, <2>3 DEF ProbeOneLoop, ProbeLives
  <2>6. ProbeHalfway'
    BY <1>1, <1>5, <2>2 DEF ProbeHalfway, M!At
  <2>7. ProbeSteady'
    BY <1>3, <1>4, <1>6, <2>3 DEF ProbeSteady, ProbeLives
  <2> QED
    BY <2>4, <2>5, <2>6, <2>7
<1> QED
  BY <1>7, <1>8, <1>9 DEF ProbeAlone

\* A thread goes on: where to, what it walks, and that it ends only when told to.
LEMMA ProbeLoopInv ==
  ASSUME MtrSized, ProbeInv, NEW l \in M!Loop, M!LoopStep(l)
  PROVE  ProbeInv'
<1> USE DEF MtrSized, ProbeInv
<1>1. PICK r \in ProbeLoops :
        /\ loop' = [loop EXCEPT ![l] = r] /\ ProbeLives(l) /\ r.target = loop[l].target
        /\ r.pc # "none" /\ (r.pc = "ended" => ~running \/ stop)
        /\ r.pc = "hop" => r.on = hops /\ hops \in M!Loop
  <2>1. CASE M!Top(l)
    <3>1. CASE M!On
      <4> DEFINE r == [loop[l] EXCEPT !.pc = "hop", !.on = hops]
      <4>1. r \in ProbeLoops /\ loop' = [loop EXCEPT ![l] = r] /\ r.pc = "hop"
               /\ r.on = hops /\ r.target = loop[l].target
        BY <2>1, <3>1 DEF M!Top, ProbeLoops, ProbeTyped
      <4>2. ProbeLives(l) /\ hops \in M!Loop
        BY <2>1, <3>1 DEF M!Top, ProbeLives, M!On, ProbePlaced
      <4> HIDE DEF r
      <4> QED
        BY <4>1, <4>2
    <3>2. CASE ~M!On
      <4> DEFINE r == [loop[l] EXCEPT !.pc = "ended"]
      <4>1. r \in ProbeLoops /\ loop' = [loop EXCEPT ![l] = r] /\ r.pc = "ended"
               /\ r.target = loop[l].target
        BY <2>1, <3>2 DEF M!Top, ProbeLoops, ProbeTyped
      <4>2. ProbeLives(l) /\ (~running \/ stop)
        BY <2>1, <3>2 DEF M!Top, ProbeLives, M!On
      <4> HIDE DEF r
      <4> QED
        BY <4>1, <4>2
    <3> QED
      BY <3>1, <3>2
  <2>2. CASE M!Hop(l) \/ M!HopLeft(l)
    <3> DEFINE r == [loop[l] EXCEPT !.pc = "wait"]
    <3>1. r \in ProbeLoops /\ loop' = [loop EXCEPT ![l] = r] /\ r.pc = "wait"
             /\ r.target = loop[l].target
      BY <2>2 DEF M!Hop, M!HopLeft, ProbeLoops, ProbeTyped
    <3>2. ProbeLives(l)
      BY <2>2 DEF M!Hop, M!HopLeft, ProbeLives
    <3> HIDE DEF r
    <3> QED
      BY <3>1, <3>2
  <2>3. CASE M!Wait(l)
    <3> DEFINE r == [loop[l] EXCEPT !.pc = "top"]
    <3>1. r \in ProbeLoops /\ loop' = [loop EXCEPT ![l] = r] /\ r.pc = "top"
             /\ r.target = loop[l].target
      BY <2>3 DEF M!Wait, ProbeLoops, ProbeTyped
    <3>2. ProbeLives(l)
      BY <2>3 DEF M!Wait, ProbeLives
    <3> HIDE DEF r
    <3> QED
      BY <3>1, <3>2
  <2> QED
    BY <2>1, <2>2, <2>3 DEF M!LoopStep
<1>2. /\ loop' \in [M!Loop -> ProbeLoops] /\ loop'[l] = r
          /\ \A k \in M!Loop \ {l} : loop'[k] = loop[k]
  BY <1>1, ProbeLoopGoes
<1>3. UNCHANGED <<running, stop, hops, aim, thread, call, turn, probeOverlap, probeFaults>>
  BY DEF M!LoopStep, M!Top, M!Hop, M!HopLeft, M!Wait, M!state
<1>4. mixed' = mixed \/ (loop[l].pc = "hop"
         /\ mixed' = IF aim[loop[l].on] = loop[l].target THEN mixed
                                                              ELSE mixed \cup {loop[l].on})
  BY DEF M!LoopStep, M!Top, M!Hop, M!HopLeft, M!Wait, M!state
<1>5. mixed' \subseteq M!Loop
  BY <1>4 DEF ProbeTyped, ProbePlaced
<1>6. ProbeTyped' /\ ProbePlaced'
  BY <1>1, <1>2, <1>3, <1>5 DEF ProbeTyped, ProbePlaced
<1>7. ASSUME ~probeOverlap', probeFaults' = 0
      PROVE (ProbeOneCall /\ ProbeOneLoop /\ ProbeHalfway /\ ProbeSteady)'
  <2>1. ProbeOneCall /\ ProbeOneLoop /\ ProbeHalfway /\ ProbeSteady
    BY <1>3, <1>7 DEF ProbeAlone
  <2>2. ProbeOneCall'
    BY <1>3, <2>1 DEF ProbeOneCall, M!At
  <2>3. mixed' = {}
    BY <1>1, <1>4, <2>1 DEF ProbeOneLoop
  <2>4. ProbeOneLoop'
    BY <1>1, <1>2, <1>3, <2>1, <2>3 DEF ProbeOneLoop, ProbeLives
  <2>5. ProbeHalfway'
    BY <1>1, <1>2, <1>3, <2>1 DEF ProbeHalfway, ProbeLives, M!At
  <2>6. ProbeSteady'
    BY <1>1, <1>2, <1>3, <2>1 DEF ProbeSteady, ProbeLives
  <2> QED
    BY <2>2, <2>4, <2>5, <2>6
<1> QED
  BY <1>6, <1>7 DEF ProbeAlone

LEMMA ProbeNextInv == ASSUME MtrSized, ProbeInv, [M!Next]_probeVars PROVE ProbeInv'
<1>1. CASE UNCHANGED probeVars
  BY <1>1 DEF probeVars, ProbeInv, ProbeTyped, ProbePlaced, ProbeAlone, ProbeOneCall,
     ProbeOneLoop, ProbeHalfway, ProbeSteady, M!At, ProbeLives
<1> QED
  BY <1>1, ProbeRequestInv, ProbeFanInv, ProbeStopInv, ProbeJoinInv, ProbeSetInv,
     ProbeClearInv, ProbeSpawnInv, ProbeLoopInv
  DEF M!Next, M!CallStep

LEMMA ProbeSound == ASSUME MtrSized, ProbeInv PROVE M!TypeOK /\ M!ProbesAlone
<1> USE DEF MtrSized, ProbeInv
<1>1. M!TypeOK
  BY DEF M!TypeOK, ProbeTyped, ProbeLoops, ProbeCalls
<1>2. ASSUME ~probeOverlap, probeFaults = 0
      PROVE  /\ Cardinality(M!Alive) <= 1 /\ mixed = {}
             /\ running /\ (\A c \in Caller : M!At(c, "rest")) => thread \in M!Alive
  <2>1. ProbeOneLoop /\ ProbeSteady
    BY <1>2 DEF ProbeAlone
  <2>2. M!Alive \subseteq {thread}
    BY <2>1 DEF ProbeOneLoop, ProbeLives, M!Alive
  <2>3. Cardinality(M!Alive) <= 1
    <3>1. M!Alive = {} \/ M!Alive = {thread}
      BY <2>2
    <3>2. Cardinality({}) = 0 /\ Cardinality({thread}) = 1
      BY FS_EmptySet, FS_Singleton
    <3> QED
      BY <3>1, <3>2
  <2>4. running /\ (\A c \in Caller : M!At(c, "rest")) => thread \in M!Alive
    BY <2>1 DEF ProbeSteady, ProbeLives, M!Alive, M!At
  <2> QED
    BY <2>1, <2>3, <2>4 DEF ProbeOneLoop
<1> QED
  BY <1>1, <1>2, ProbeCount DEF M!ProbesAlone

-----------------------------------------------------------------------------
(* The pings: every sample is in one place.                                 *)

LEMMA PingCount == \A s : P!Cardinality(s) = Cardinality(s)
  BY Zenon DEF P!Cardinality, Cardinality

PingFlushings == [pc : {"rest", "copy", "clear", "save"}, batch : Seq(P!Sample)]

PingTyped == P!TypeOK /\ since < pingNext

\* Whoever stops it comes once; after that one sample at most.
PingStopped == /\ pingRunning => pingThread \notin {"new", "none"}
               /\ closer # "rest" => ~pingRunning /\ pingThread \notin {"new", "none"}
               /\ caught = {} \/ (pingThread # "ping" /\ closer # "rest"
                   /\ \E s \in P!Sample : caught = {s})

\* Where the flushes are, and who has the lock.
PingFlushy == /\ \A a \in P!Actor : flush[a].pc # "rest" => P!Flushing(a)
              /\ \A a \in P!Actor : flush[a].pc \in {"rest", "copy"}
                  => flush[a].batch = <<>>
              /\ \A a \in P!Actor : flush[a].pc = "clear" <=> pingLock = a
              /\ closer = "rest" => left = Flushes
              /\ closer \in {"join", "close", "gone"} => left < Flushes
              /\ closer \in {"join", "gone"} => flush["closer"].pc = "rest"
              /\ closer \in {"rest", "flush", "join"} => left >= Flushes - 1
              /\ closer = "gone" => left = 0

\* A sample on its way is in one place and not saved.
PingOnePlace ==
    /\ \A s \in P!Sample : saved[s] <= 1 /\ (s >= pingNext => saved[s] = 0)
    /\ \A s \in P!InSeq(pending) : saved[s] = 0 /\ s < pingNext
    /\ \A a \in P!Actor : \A s \in P!InSeq(flush[a].batch) : saved[s] = 0 /\ s < pingNext
    /\ \A s \in P!Sample : s \notin P!InSeq(flush["loop"].batch)
        \/ s \notin P!InSeq(flush["closer"].batch)
    /\ \A a \in P!Actor : flush[a].pc = "save" =>
          \A s \in P!InSeq(flush[a].batch) : s \notin P!InSeq(pending)
    /\ \A a \in P!Actor : flush[a].pc = "clear" =>
          /\ P!InSeq(flush[a].batch) \subseteq P!InSeq(pending)
          /\ P!InSeq(pending) \subseteq P!InSeq(flush[a].batch) \cup caught

\* Every sample is somewhere.
PingSomewhere == \A s \in P!Sample : Dump < s /\ s < pingNext =>
    \/ saved[s] = 1 \/ s \in P!InSeq(pending) \/ s \in refused \/ s \in caught
    \/ \E a \in P!Actor : s \in P!InSeq(flush[a].batch)

\* After a thread that ended in time the next flush empties the buffer.
PingEmptied == closer \in {"close", "gone"} /\ ~late =>
    /\ pingThread = "ended"
    /\ left < Flushes - 1 \/ flush["closer"].pc = "save" => pending = <<>>

PingInv == PingTyped /\ PingStopped /\ PingFlushy /\ PingOnePlace /\ PingSomewhere
   /\ PingEmptied

LEMMA PingTwo == "loop" \in P!Actor /\ "closer" \in P!Actor
   /\ P!Actor = {"loop", "closer"} /\ "none" \notin P!Actor
  BY DEF P!Actor

LEMMA PingEmptyIn == P!InSeq(<<>>) = {}
  BY DEF P!InSeq

LEMMA PingAppendIn ==
  ASSUME NEW s \in Seq(P!Sample), NEW n \in P!Sample
  PROVE  Append(s, n) \in Seq(P!Sample) /\ P!InSeq(Append(s, n)) = P!InSeq(s) \cup {n}
<1>1. Append(s, n) \in Seq(P!Sample) /\ Len(Append(s, n)) = Len(s) + 1 /\ Len(s) \in Nat
  OBVIOUS
<1>2. \A i \in 1 .. Len(s) : Append(s, n)[i] = s[i]
  OBVIOUS
<1>3. Append(s, n)[Len(s) + 1] = n
  OBVIOUS
<1>4. DOMAIN s = 1 .. Len(s) /\ DOMAIN Append(s, n) = 1 .. Len(s) + 1
  BY <1>1
<1> HIDE DEF P!Sample
<1>5. 1 .. Len(s) + 1 = (1 .. Len(s)) \cup {Len(s) + 1}
  BY <1>1
<1> QED
  BY <1>1, <1>2, <1>3, <1>4, <1>5 DEF P!InSeq

LEMMA PingInitInv == ASSUME PingerSized, P!Init PROVE PingInv
<1> USE DEF PingerSized, P!Init
<1>0. P!Rest \in PingFlushings /\ P!Rest.pc = "rest" /\ P!Rest.batch = <<>>
  BY DEF P!Rest, PingFlushings
<1>1. flush \in [P!Actor -> PingFlushings]
  BY <1>0
<1>2. pending \in Seq(P!Sample) /\ pingNext \in 1 .. MaxPing + 1
         /\ since \in 0 .. MaxPing /\ since < pingNext
  OBVIOUS
<1>3. saved \in [P!Sample -> 0 .. 2] /\ left \in 0 .. Flushes
         /\ pingFaults \in 0 .. MaxFailed
  OBVIOUS
<1>4. PingTyped
  BY <1>1, <1>2, <1>3 DEF PingTyped, P!TypeOK, PingFlushings
<1>5. \A a \in P!Actor : flush[a] = P!Rest
  OBVIOUS
<1>6. PingStopped /\ PingEmptied
  BY DEF PingStopped, PingEmptied
<1>7. PingFlushy
  BY <1>0, <1>5, PingTwo DEF PingFlushy
<1>8. PingOnePlace
  BY <1>0, <1>5, PingEmptyIn, PingTwo DEF PingOnePlace
<1>9. PingSomewhere
  BY DEF PingSomewhere, P!Sample
<1> QED
  BY <1>4, <1>6, <1>7, <1>8, <1>9 DEF PingInv

\* A flush goes on; the other does not.
LEMMA PingFlushGoes ==
  ASSUME PingerSized, PingInv, NEW a \in P!Actor, NEW r \in PingFlushings,
         flush' = [flush EXCEPT ![a] = r]
  PROVE  /\ flush' \in [P!Actor -> PingFlushings] /\ flush'[a] = r
         /\ \A b \in P!Actor \ {a} : flush'[b] = flush[b]
  BY DEF PingInv, PingTyped, P!TypeOK, PingFlushings

\* Nothing is moved.
LEMMA PingQuietInv ==
  ASSUME PingerSized, PingInv,
         UNCHANGED <<pending, pingNext, flush, pingLock, saved, caught, refused>>,
         since' \in 0 .. MaxPing, since' < pingNext, pingRunning' \in BOOLEAN,
         pingThread' \in {"new", "none", "ping", "due", "flush", "wait", "ended"},
         closer' \in {"rest", "flush", "join", "close", "gone"}, left' \in 0 .. Flushes,
         late' \in BOOLEAN, pingFaults' \in 0 .. MaxFailed,
         PingStopped', PingEmptied',
         \A a \in P!Actor : flush[a].pc # "rest" => P!Flushing(a)',
         closer' = "rest" => left' = Flushes,
         closer' \in {"join", "close", "gone"} => left' < Flushes,
         closer' \in {"join", "gone"} => flush["closer"].pc = "rest",
         closer' \in {"rest", "flush", "join"} => left' >= Flushes - 1,
         closer' = "gone" => left' = 0
  PROVE  PingInv'
<1> USE DEF PingInv
<1>1. PingTyped'
  BY DEF PingTyped, P!TypeOK
<1>2. PingFlushy'
  BY DEF PingFlushy
<1>3. PingOnePlace' /\ PingSomewhere'
  BY DEF PingOnePlace, PingSomewhere
<1> QED
  BY <1>1, <1>2, <1>3

LEMMA PingStartInv == ASSUME PingerSized, PingInv, P!Recover \/ P!Start PROVE PingInv'
<1> USE DEF PingerSized, PingInv
<1>1. /\ UNCHANGED <<pending, pingNext, since, closer, left, flush, pingLock, saved,
                     caught, refused, late, pingFaults>>
      /\ pingThread' \in {"none", "ping"} /\ pingThread \in {"new", "none"}
      /\ pingRunning' \in BOOLEAN /\ (pingRunning' => pingRunning \/ pingThread' = "ping")
  <2>1. CASE P!Recover
    BY <2>1 DEF P!Recover, PingTyped, P!TypeOK
  <2>2. CASE P!Start
    BY <2>2 DEF P!Start
  <2> QED
    BY <2>1, <2>2
<1>2. closer = "rest" /\ ~pingRunning /\ caught = {}
  BY <1>1 DEF PingStopped
<1>3. PingStopped' /\ PingEmptied'
  BY <1>1, <1>2 DEF PingStopped, PingEmptied
<1>4. \A a \in P!Actor : flush[a].pc # "rest" => P!Flushing(a)'
  BY <1>1, <1>2, PingTwo DEF PingFlushy, P!Flushing
<1>5. P!TypeOK /\ PingFlushy /\ since < pingNext
  BY DEF PingTyped
<1> QED
  BY <1>1, <1>3, <1>4, <1>5, PingQuietInv DEF P!TypeOK, PingFlushy

LEMMA PingLoopInv ==
  ASSUME PingerSized, PingInv, P!PingFails \/ P!Due \/ P!Again
  PROVE  PingInv'
<1> USE DEF PingerSized, PingInv
<1>1. /\ UNCHANGED <<pending, pingNext, pingRunning, closer, left, flush, pingLock, saved,
                     caught, refused, late>>
      /\ pingThread \in {"ping", "due", "wait"}
      /\ pingThread' \in {"due", "flush", "wait", "ping", "ended"}
      /\ pingThread' = "ping" => pingRunning
      /\ pingFaults' \in 0 .. MaxFailed /\ (since' = since \/ since' = 0)
  BY DEF P!PingFails, P!Due, P!Again, PingTyped, P!TypeOK
<1>2. since' \in 0 .. MaxPing /\ since' < pingNext
  BY <1>1 DEF PingTyped, P!TypeOK
<1>3. PingStopped' /\ PingEmptied'
  BY <1>1 DEF PingStopped, PingEmptied
<1>4. \A a \in P!Actor : flush[a].pc # "rest" => P!Flushing(a)'
  BY <1>1, PingTwo DEF PingFlushy, P!Flushing
<1>5. P!TypeOK /\ PingFlushy
  BY DEF PingTyped
<1> QED
  BY <1>1, <1>2, <1>3, <1>4, <1>5, PingQuietInv DEF P!TypeOK, PingFlushy

LEMMA PingCloserInv ==
  ASSUME PingerSized, PingInv, P!Stop \/ P!ToJoin \/ P!Join \/ P!Exit
  PROVE  PingInv'
<1> USE DEF PingerSized, PingInv
<1>0. P!TypeOK /\ PingFlushy /\ PingStopped /\ PingEmptied /\ left \in 0 .. Flushes
  BY DEF PingTyped, P!TypeOK
<1>1. UNCHANGED <<pending, pingNext, since, pingThread, left, flush, pingLock, saved,
                  caught, refused>>
  BY DEF P!Stop, P!ToJoin, P!Join, P!Exit
<1>2. pingRunning' \in BOOLEAN /\ pingFaults' \in 0 .. MaxFailed /\ late' \in BOOLEAN
  <2>0. pingRunning \in BOOLEAN /\ pingFaults \in 0 .. MaxFailed /\ late \in BOOLEAN
    BY <1>0 DEF P!TypeOK
  <2>1. CASE P!Stop \/ P!ToJoin \/ P!Exit
    <3>1. (pingRunning' = pingRunning \/ pingRunning' = FALSE)
             /\ UNCHANGED <<pingFaults, late>>
      BY <2>1 DEF P!Stop, P!ToJoin, P!Exit
    <3> QED
      BY <2>0, <3>1
  <2>2. CASE P!Join
    <3>1. pingFaults' \in 0 .. MaxFailed
      BY <2>0, <2>2 DEF P!Join
    <3>2. pingRunning' = pingRunning /\ (late' = late \/ late' = TRUE)
      BY <2>2 DEF P!Join
    <3> QED
      BY <2>0, <3>1, <3>2
  <2> QED
    BY <2>1, <2>2
<1>3. CASE P!Stop
  <2>1. closer = "rest" /\ closer' = "flush" /\ pingRunning /\ pingRunning' = FALSE
           /\ caught = {}
    BY <1>3, <1>0 DEF P!Stop, PingStopped
  <2>2. PingStopped' /\ PingEmptied'
    BY <1>0, <1>1, <2>1 DEF PingStopped, PingEmptied
  <2>3. \A a \in P!Actor : flush[a].pc # "rest" => P!Flushing(a)'
    BY <1>0, <1>1, <2>1 DEF PingFlushy, P!Flushing
  <2> QED
    BY <1>0, <1>1, <1>2, <2>1, <2>2, <2>3, PingQuietInv DEF P!TypeOK, PingFlushy, PingTyped
<1>4. CASE P!ToJoin
  <2>1. closer = "flush" /\ closer' = "join" /\ left < Flushes
           /\ flush["closer"].pc = "rest" /\ pingRunning' = pingRunning
    BY <1>4 DEF P!ToJoin
  <2>2. PingStopped' /\ PingEmptied'
    BY <1>0, <1>1, <2>1 DEF PingStopped, PingEmptied
  <2>3. \A a \in P!Actor : flush[a].pc # "rest" => P!Flushing(a)'
    BY <1>0, <1>1, <2>1, PingTwo DEF PingFlushy, P!Flushing
  <2> QED
    BY <1>0, <1>1, <1>2, <2>1, <2>2, <2>3, PingQuietInv DEF P!TypeOK, PingFlushy, PingTyped
<1>5. CASE P!Join
  <2>1. closer = "join" /\ closer' = "close" /\ pingRunning' = pingRunning /\ (~late'
           => pingThread = "ended")
    BY <1>5 DEF P!Join
  <2>2. flush["closer"].pc = "rest" /\ left = Flushes - 1
    BY <1>0, <2>1 DEF PingFlushy
  <2>3. PingStopped' /\ PingEmptied'
    BY <1>0, <1>1, <2>1, <2>2 DEF PingStopped, PingEmptied
  <2>4. \A a \in P!Actor : flush[a].pc # "rest" => P!Flushing(a)'
    BY <1>0, <1>1, <2>1, <2>2, PingTwo DEF PingFlushy, P!Flushing
  <2> QED
    BY <1>0, <1>1, <1>2, <2>1, <2>2, <2>3, <2>4, PingQuietInv DEF P!TypeOK, PingFlushy,
       PingTyped
<1>6. CASE P!Exit
  <2>1. closer = "close" /\ closer' = "gone" /\ left = 0 /\ flush["closer"].pc = "rest"
           /\ pingRunning' = pingRunning
        /\ late' = late
    BY <1>6 DEF P!Exit
  <2>2. PingStopped' /\ PingEmptied'
    BY <1>0, <1>1, <2>1 DEF PingStopped, PingEmptied
  <2>3. \A a \in P!Actor : flush[a].pc # "rest" => P!Flushing(a)'
    BY <1>0, <1>1, <2>1, PingTwo DEF PingFlushy, P!Flushing
  <2> QED
    BY <1>0, <1>1, <1>2, <2>1, <2>2, <2>3, PingQuietInv DEF P!TypeOK, PingFlushy, PingTyped
<1> QED
  BY <1>3, <1>4, <1>5, <1>6

LEMMA PingPingInv == ASSUME PingerSized, PingInv, P!Ping PROVE PingInv'
<1> USE DEF PingerSized, PingInv
<1>0. pingNext \in P!Sample /\ pending \in Seq(P!Sample) /\ pingNext \in Nat
         /\ pingNext <= MaxPing /\ since \in 0 .. MaxPing
      /\ since < pingNext
  BY DEF P!Ping, PingTyped, P!TypeOK, P!Sample
<1>1. pending' \in Seq(P!Sample) /\ P!InSeq(pending') = P!InSeq(pending) \cup {pingNext}
  BY <1>0, PingAppendIn DEF P!Ping
<1>2. /\ UNCHANGED <<pingRunning, closer, left, flush, pingLock, saved, refused, late,
                     pingFaults>>
      /\ pingNext' = pingNext + 1 /\ since' = since + 1 /\ pingThread' = "due"
      /\ pingThread = "ping"
      /\ caught' = IF flush["closer"].pc = "clear" THEN caught \cup {pingNext} ELSE caught
  BY DEF P!Ping
<1>3. caught = {} /\ (flush["closer"].pc # "rest" => closer # "rest")
         /\ flush["loop"].pc = "rest"
  BY <1>2, PingTwo DEF PingStopped, PingFlushy, P!Flushing
<1>4. PingTyped'
  <2>1. pingNext' \in 1 .. MaxPing + 1 /\ since' \in 0 .. MaxPing /\ since' < pingNext'
    BY <1>0, <1>2
  <2>2. caught' \subseteq P!Sample
    BY <1>0, <1>2, <1>3
  <2> QED
    BY <1>1, <1>2, <2>1, <2>2 DEF PingTyped, P!TypeOK
<1>5. PingStopped'
  BY <1>0, <1>2, <1>3 DEF PingStopped
<1>6. PingFlushy'
  BY <1>2, <1>3, PingTwo DEF PingFlushy, P!Flushing
<1>7. PingOnePlace'
  <2>1. \A s \in P!Sample : saved'[s] <= 1 /\ (s >= pingNext' => saved'[s] = 0)
    BY <1>0, <1>2 DEF PingOnePlace, P!Sample
  <2>2. \A a \in P!Actor : \A s \in P!InSeq(flush[a].batch) : saved[s] = 0 /\ s < pingNext
    BY DEF PingOnePlace
  <2>3. \A a \in P!Actor : P!InSeq(flush[a].batch) \subseteq P!Sample
    BY DEF PingTyped, P!TypeOK, P!InSeq
  <2>4. \A s \in P!InSeq(pending') : saved'[s] = 0 /\ s < pingNext'
    <3>1. P!InSeq(pending) \subseteq P!Sample
      BY <1>0 DEF P!InSeq
    <3> QED
      BY <1>0, <1>1, <1>2, <3>1 DEF PingOnePlace, P!Sample
  <2>5. \A a \in P!Actor : \A s \in P!InSeq(flush'[a].batch) : saved'[s] = 0
           /\ s < pingNext' /\ s # pingNext
    <3> SUFFICES ASSUME NEW a \in P!Actor, NEW s \in P!InSeq(flush[a].batch)
                 PROVE  saved[s] = 0 /\ s < pingNext + 1 /\ s # pingNext
      BY <1>2
    <3>1. s \in Nat
      BY <2>3 DEF P!Sample
    <3> QED
      BY <1>0, <2>2, <3>1
  <2>6. \A a \in P!Actor : flush'[a].pc = "save"
           => \A s \in P!InSeq(flush'[a].batch) : s \notin P!InSeq(pending')
    BY <1>1, <1>2, <2>5 DEF PingOnePlace
  <2>7. \A a \in P!Actor : flush'[a].pc = "clear" =>
          /\ P!InSeq(flush'[a].batch) \subseteq P!InSeq(pending')
          /\ P!InSeq(pending') \subseteq P!InSeq(flush'[a].batch) \cup caught'
    BY <1>1, <1>2, <1>3, PingTwo DEF PingOnePlace
  <2>8. \A s \in P!Sample : s \notin P!InSeq(flush'["loop"].batch)
           \/ s \notin P!InSeq(flush'["closer"].batch)
    BY <1>2 DEF PingOnePlace
  <2> QED
    BY <2>1, <2>4, <2>5, <2>6, <2>7, <2>8 DEF PingOnePlace
<1>8. PingSomewhere'
  <2> SUFFICES ASSUME NEW s \in P!Sample, Dump < s, s < pingNext'
               PROVE  \/ saved'[s] = 1 \/ s \in P!InSeq(pending') \/ s \in refused'
                          \/ s \in caught'
                      \/ \E a \in P!Actor : s \in P!InSeq(flush'[a].batch)
    BY DEF PingSomewhere
  <2>1. s < pingNext \/ s = pingNext
    BY <1>0, <1>2 DEF P!Sample
  <2> QED
    BY <1>1, <1>2, <1>3, <2>1 DEF PingSomewhere
<1>9. PingEmptied'
  BY <1>2 DEF PingEmptied
<1> QED
  BY <1>4, <1>5, <1>6, <1>7, <1>8, <1>9

\* A flush is over: the closer has one less to do, the thread waits.
LEMMA PingOverInv ==
  ASSUME PingerSized, PingInv, NEW a \in P!Actor, P!Flushing(a), P!Flushed(a),
         UNCHANGED <<pingRunning, closer, late>>
  PROVE  /\ left' \in 0 .. Flushes
         /\ pingThread' \in {"new", "none", "ping", "due", "flush", "wait", "ended"}
         /\ \A b \in P!Actor \ {a} : P!Flushing(b) <=> P!Flushing(b)'
         /\ closer # "rest" => pingThread' \notin {"new", "none"}
         /\ pingRunning => pingThread' \notin {"new", "none"}
         /\ pingThread' = "ping" => pingThread = "ping"
         /\ closer = "rest" => left' = Flushes
         /\ closer \in {"join", "close", "gone"} => left' < Flushes
         /\ closer \in {"rest", "flush", "join"} => left' >= Flushes - 1
         /\ closer = "gone" => left' = 0
<1> USE DEF PingerSized, PingInv
<1>1. CASE a = "loop"
  BY <1>1, PingTwo DEF P!Flushing, P!Flushed, PingTyped, P!TypeOK, PingFlushy, PingStopped
<1>2. CASE a = "closer"
  BY <1>2, PingTwo DEF P!Flushing, P!Flushed, PingTyped, P!TypeOK, PingFlushy, PingStopped
<1> QED
  BY <1>1, <1>2, PingTwo

LEMMA PingEnterInv ==
  ASSUME PingerSized, PingInv, NEW a \in P!Actor, P!Enter(a)
  PROVE  PingInv'
<1> USE DEF PingerSized, PingInv
<1>0. /\ P!Flushing(a) /\ flush[a].pc = "rest"
      /\ UNCHANGED <<pending, pingNext, since, pingRunning, closer, pingLock, saved,
                     caught, refused, late, pingFaults>>
  BY DEF P!Enter
<1>1. CASE pending = <<>>
  <2>1. P!Flushed(a) /\ UNCHANGED flush
    BY <1>1 DEF P!Enter
  <2>2. /\ left' \in 0 .. Flushes
        /\ pingThread' \in {"new", "none", "ping", "due", "flush", "wait", "ended"}
        /\ \A b \in P!Actor \ {a} : P!Flushing(b) <=> P!Flushing(b)'
        /\ closer # "rest" => pingThread' \notin {"new", "none"}
        /\ pingRunning => pingThread' \notin {"new", "none"}
        /\ pingThread' = "ping" => pingThread = "ping"
        /\ closer = "rest" => left' = Flushes
        /\ closer \in {"join", "close", "gone"} => left' < Flushes
        /\ closer \in {"rest", "flush", "join"} => left' >= Flushes - 1
        /\ closer = "gone" => left' = 0
    BY <1>0, <2>1, PingOverInv
  <2>3. PingStopped'
    BY <1>0, <2>2 DEF PingStopped
  <2>4. PingEmptied'
    BY <1>0, <1>1, <2>1, PingTwo DEF PingEmptied, P!Flushed, P!Flushing
  <2>5. \A b \in P!Actor : flush[b].pc # "rest" => P!Flushing(b)'
    BY <1>0, <2>2 DEF PingFlushy
  <2>6. P!TypeOK /\ PingFlushy /\ since < pingNext
    BY DEF PingTyped
  <2> QED
    BY <1>0, <2>1, <2>2, <2>3, <2>4, <2>5, <2>6, PingQuietInv DEF P!TypeOK, PingFlushy
<1>2. CASE pending # <<>>
  <2> DEFINE r == [flush[a] EXCEPT !.pc = "copy"]
  <2>1. r \in PingFlushings /\ r.pc = "copy" /\ r.batch = flush[a].batch
    BY DEF PingTyped, P!TypeOK, PingFlushings
  <2>2. flush' = [flush EXCEPT ![a] = r] /\ UNCHANGED <<pingThread, left>>
    BY <1>2 DEF P!Enter, PingTyped, P!TypeOK
  <2> HIDE DEF r
  <2>3. /\ flush' \in [P!Actor -> PingFlushings] /\ flush'[a] = r
            /\ \A b \in P!Actor \ {a} : flush'[b] = flush[b]
    BY <2>1, <2>2, PingFlushGoes
  <2>4. PingTyped'
    BY <1>0, <2>2, <2>3 DEF PingTyped, P!TypeOK, PingFlushings
  <2>5. PingStopped'
    BY <1>0, <2>2 DEF PingStopped
  <2>6. \A b \in P!Actor : P!Flushing(b)' = P!Flushing(b)
    BY <1>0, <2>2 DEF P!Flushing
  <2>7. PingFlushy'
    BY <1>0, <2>1, <2>2, <2>3, <2>6, PingTwo DEF PingFlushy, P!Flushing
  <2>8. \A b \in P!Actor : flush'[b].batch = flush[b].batch
           /\ (flush'[b].pc \in {"save", "clear"} <=> flush[b].pc \in {"save", "clear"})
        /\ (flush'[b].pc = "save" <=> flush[b].pc = "save")
    BY <1>0, <2>1, <2>3
  <2>9. PingOnePlace' /\ PingSomewhere'
    BY <1>0, <2>8, PingTwo DEF PingOnePlace, PingSomewhere
  <2>10. PingEmptied'
    BY <1>0, <2>2, <2>8, PingTwo DEF PingEmptied
  <2> QED
    BY <2>4, <2>5, <2>7, <2>9, <2>10
<1> QED
  BY <1>1, <1>2

LEMMA PingCopyInv ==
  ASSUME PingerSized, PingInv, NEW a \in P!Actor, P!Copy(a)
  PROVE  PingInv'
<1> USE DEF PingerSized, PingInv
<1> DEFINE r == [pc |-> "clear", batch |-> pending]
<1>0. /\ flush[a].pc = "copy" /\ pingLock = "none" /\ pingLock' = a
      /\ flush' = [flush EXCEPT ![a] = r]
      /\ UNCHANGED <<pending, pingNext, since, pingRunning, pingThread, closer, left,
                     saved, caught, refused, late, pingFaults>>
  BY DEF P!Copy
<1>1. r \in PingFlushings /\ r.pc = "clear" /\ r.batch = pending
  BY DEF PingTyped, P!TypeOK, PingFlushings
<1> HIDE DEF r
<1>2. /\ flush' \in [P!Actor -> PingFlushings] /\ flush'[a] = r
          /\ \A b \in P!Actor \ {a} : flush'[b] = flush[b]
  BY <1>0, <1>1, PingFlushGoes
<1>3. PingTyped'
  BY <1>0, <1>2, PingTwo DEF PingTyped, P!TypeOK, PingFlushings
<1>4. PingStopped'
  BY <1>0 DEF PingStopped
<1>5. P!Flushing(a) /\ \A b \in P!Actor : P!Flushing(b)' = P!Flushing(b)
  BY <1>0 DEF P!Flushing, PingFlushy
<1>6. PingFlushy'
  <2>1. \A b \in P!Actor \ {a} : flush[b].pc # "clear"
    BY <1>0, PingTwo DEF PingFlushy
  <2>2. \A b \in P!Actor : flush'[b].pc # "rest" => P!Flushing(b)'
    BY <1>2, <1>5 DEF PingFlushy
  <2>3. \A b \in P!Actor : flush'[b].pc = "clear" <=> pingLock' = b
    BY <1>0, <1>1, <1>2, <2>1
  <2>4. \A b \in P!Actor : flush'[b].pc \in {"rest", "copy"} => flush'[b].batch = <<>>
    BY <1>1, <1>2 DEF PingFlushy
  <2>5. closer \in {"join", "gone"} => flush'["closer"].pc = "rest"
    BY <1>0, <1>2, PingTwo DEF PingFlushy
  <2> QED
    BY <1>0, <2>2, <2>3, <2>4, <2>5 DEF PingFlushy
<1>7. flush[a].batch = <<>> /\ P!InSeq(flush[a].batch) = {}
  BY <1>0, PingEmptyIn DEF PingFlushy
<1>8. PingOnePlace'
  <2>1. \A s \in P!InSeq(pending) : saved[s] = 0 /\ s < pingNext
    BY DEF PingOnePlace
  <2>2. \A b \in P!Actor \ {a} : flush[b].pc # "clear"
           /\ \A s \in P!InSeq(flush[b].batch) : s \notin P!InSeq(pending)
    <3> SUFFICES ASSUME NEW b \in P!Actor \ {a}
                 PROVE  flush[b].pc # "clear"
                          /\ \A s \in P!InSeq(flush[b].batch) : s \notin P!InSeq(pending)
      OBVIOUS
    <3>1. flush[b].pc # "clear"
      BY <1>0, PingTwo DEF PingFlushy
    <3>2. CASE flush[b].pc = "save"
      BY <3>1, <3>2 DEF PingOnePlace
    <3>3. CASE flush[b].pc \in {"rest", "copy"}
      BY <3>1, <3>3, PingEmptyIn DEF PingFlushy
    <3> QED
      BY <3>1, <3>2, <3>3 DEF PingTyped, P!TypeOK
  <2>3. \A s \in P!Sample : s \notin P!InSeq(flush'["loop"].batch)
           \/ s \notin P!InSeq(flush'["closer"].batch)
    BY <1>1, <1>2, <2>2, PingTwo
  <2>4. \A b \in P!Actor : \A s \in P!InSeq(flush'[b].batch) : saved[s] = 0 /\ s < pingNext
    BY <1>1, <1>2, <2>1 DEF PingOnePlace
  <2>5. \A b \in P!Actor : flush'[b].pc = "save"
           => \A s \in P!InSeq(flush'[b].batch) : s \notin P!InSeq(pending)
    BY <1>1, <1>2, <2>2
  <2>6. \A b \in P!Actor : flush'[b].pc = "clear" =>
          /\ P!InSeq(flush'[b].batch) \subseteq P!InSeq(pending)
          /\ P!InSeq(pending) \subseteq P!InSeq(flush'[b].batch) \cup caught
    BY <1>1, <1>2, <2>2
  <2> QED
    BY <1>0, <2>1, <2>3, <2>4, <2>5, <2>6 DEF PingOnePlace
<1>9. PingSomewhere'
  BY <1>0, <1>2, <1>7 DEF PingSomewhere
<1>10. PingEmptied'
  <2>1. flush'["closer"].pc = "save" => flush["closer"].pc = "save"
    BY <1>1, <1>2, PingTwo
  <2> QED
    BY <1>0, <2>1 DEF PingEmptied
<1> QED
  BY <1>3, <1>4, <1>6, <1>8, <1>9, <1>10

LEMMA PingClearInv ==
  ASSUME PingerSized, PingInv, NEW a \in P!Actor, P!Clear(a)
  PROVE  PingInv'
<1> USE DEF PingerSized, PingInv
<1> DEFINE r == [flush[a] EXCEPT !.pc = "save"]
<1>0. /\ flush[a].pc = "clear" /\ pending' = <<>> /\ pingLock' = "none"
      /\ flush' = [flush EXCEPT ![a] = r]
      /\ UNCHANGED <<pingNext, since, pingRunning, pingThread, closer, left, saved, caught,
                     refused, late, pingFaults>>
  BY DEF P!Clear, P!Kept, PingTyped, P!TypeOK
<1>1. r \in PingFlushings /\ r.pc = "save" /\ r.batch = flush[a].batch
  BY DEF PingTyped, P!TypeOK, PingFlushings
<1> HIDE DEF r
<1>2. /\ flush' \in [P!Actor -> PingFlushings] /\ flush'[a] = r
          /\ \A b \in P!Actor \ {a} : flush'[b] = flush[b]
  BY <1>0, <1>1, PingFlushGoes
<1>3. PingTyped'
  <2>1. pending' \in Seq(P!Sample)
    BY <1>0
  <2> QED
    BY <1>0, <1>2, <2>1, PingTwo DEF PingTyped, P!TypeOK, PingFlushings
<1>4. PingStopped'
  BY <1>0 DEF PingStopped
<1>5. \A b \in P!Actor : P!Flushing(b)' = P!Flushing(b)
  BY <1>0 DEF P!Flushing
<1>6. PingFlushy'
  <2>1. pingLock = a
    BY <1>0 DEF PingFlushy
  <2>2. \A b \in P!Actor : flush'[b].pc # "rest" => P!Flushing(b)'
    BY <1>0, <1>2, <1>5 DEF PingFlushy
  <2>3. \A b \in P!Actor : flush'[b].pc = "clear" <=> pingLock' = b
    BY <1>0, <1>1, <1>2, <2>1, PingTwo DEF PingFlushy
  <2>4. \A b \in P!Actor : flush'[b].pc \in {"rest", "copy"} => flush'[b].batch = <<>>
    BY <1>1, <1>2 DEF PingFlushy
  <2>5. closer \in {"join", "gone"} => flush'["closer"].pc = "rest"
    BY <1>0, <1>2, PingTwo DEF PingFlushy
  <2> QED
    BY <1>0, <2>2, <2>3, <2>4, <2>5 DEF PingFlushy
<1>7. \A b \in P!Actor : flush'[b].batch = flush[b].batch
  BY <1>1, <1>2
<1>8. P!InSeq(pending') = {}
  BY <1>0, PingEmptyIn
<1>9. PingOnePlace'
  <2>1. \A b \in P!Actor : flush'[b].pc # "clear"
    BY <1>0, <1>1, <1>2 DEF PingFlushy
  <2> QED
    BY <1>0, <1>7, <1>8, <2>1 DEF PingOnePlace
<1>10. PingSomewhere'
  <2>1. P!InSeq(pending) \subseteq P!InSeq(flush[a].batch) \cup caught
    BY <1>0 DEF PingOnePlace
  <2> QED
    BY <1>0, <1>7, <1>8, <2>1 DEF PingSomewhere
<1>11. PingEmptied'
  BY <1>0 DEF PingEmptied
<1> QED
  BY <1>3, <1>4, <1>6, <1>9, <1>10, <1>11

LEMMA PingSaveInv ==
  ASSUME PingerSized, PingInv, NEW a \in P!Actor, P!Save(a)
  PROVE  PingInv'
<1> USE DEF PingerSized, PingInv
<1> DEFINE B == P!InSeq(flush[a].batch)
<1>0. /\ flush[a].pc = "save" /\ flush' = [flush EXCEPT ![a] = P!Rest] /\ P!Flushed(a)
      /\ UNCHANGED <<pending, pingNext, since, pingRunning, closer, pingLock, caught, late>>
  BY DEF P!Save
<1>1. P!Rest \in PingFlushings /\ P!Rest.pc = "rest" /\ P!Rest.batch = <<>>
  BY DEF P!Rest, PingFlushings
<1>2. /\ flush' \in [P!Actor -> PingFlushings] /\ flush'[a] = P!Rest
          /\ \A b \in P!Actor \ {a} : flush'[b] = flush[b]
  BY <1>0, <1>1, PingFlushGoes
<1>3. B \subseteq P!Sample /\ \A s \in B : saved[s] = 0 /\ s < pingNext
         /\ s \notin P!InSeq(pending)
  <2>1. B \subseteq P!Sample
    BY DEF PingTyped, P!TypeOK, P!InSeq
  <2> QED
    BY <1>0, <2>1 DEF PingOnePlace
<1> HIDE DEF B
<1>4. \/ /\ saved' = [s \in P!Sample |-> IF s \in B THEN 1 ELSE saved[s]]
         /\ UNCHANGED <<refused, pingFaults>>
      \/ pingFaults' \in 0 .. MaxFailed /\ refused' = refused \cup B /\ UNCHANGED saved
  <2>1. CASE pingFaults' = pingFaults + 1 /\ pingFaults < MaxFailed
    <3>1. pingFaults' \in 0 .. MaxFailed
      BY <2>1 DEF PingTyped, P!TypeOK
    <3>2. refused' = refused \cup B /\ UNCHANGED saved
      BY <2>1, <3>1 DEF P!Save, B, PingTyped, P!TypeOK
    <3> QED
      BY <3>1, <3>2
  <2>2. CASE ~(pingFaults' = pingFaults + 1 /\ pingFaults < MaxFailed)
    <3>1. /\ saved' = [s \in P!Sample |-> IF s \in B
              /\ saved[s] < 2 THEN saved[s] + 1 ELSE saved[s]]
          /\ UNCHANGED <<refused, pingFaults>>
      BY <2>2 DEF P!Save, B
    <3>2. \A s \in P!Sample : (IF s \in B /\ saved[s] < 2 THEN saved[s] + 1 ELSE saved[s])
                                = IF s \in B THEN 1 ELSE saved[s]
      BY <1>3
    <3> QED
      BY <3>1, <3>2
  <2> QED
    BY <2>1, <2>2
<1>5. /\ saved' \in [P!Sample -> 0 .. 2] /\ refused' \subseteq P!Sample
      /\ pingFaults' \in 0 .. MaxFailed
      /\ refused \subseteq refused'
  BY <1>3, <1>4 DEF PingTyped, P!TypeOK
<1>6. \A s \in P!Sample : /\ s \notin B => saved'[s] = saved[s]
                          /\ saved'[s] = 1 \/ saved'[s] = saved[s]
                          /\ s \in B => saved'[s] = 1 \/ s \in refused'
  BY <1>4 DEF PingTyped, P!TypeOK
<1>7. P!Flushing(a)
  BY <1>0 DEF PingFlushy
<1>8. /\ left' \in 0 .. Flushes
      /\ pingThread' \in {"new", "none", "ping", "due", "flush", "wait", "ended"}
      /\ \A b \in P!Actor \ {a} : P!Flushing(b) <=> P!Flushing(b)'
      /\ closer # "rest" => pingThread' \notin {"new", "none"}
      /\ pingRunning => pingThread' \notin {"new", "none"}
      /\ pingThread' = "ping" => pingThread = "ping"
      /\ closer = "rest" => left' = Flushes
      /\ closer \in {"join", "close", "gone"} => left' < Flushes
      /\ closer \in {"rest", "flush", "join"} => left' >= Flushes - 1
      /\ closer = "gone" => left' = 0
  BY <1>0, <1>7, PingOverInv
<1>9. PingTyped'
  BY <1>0, <1>2, <1>5, <1>8 DEF PingTyped, P!TypeOK, PingFlushings
<1>10. PingStopped'
  BY <1>0, <1>8 DEF PingStopped
<1>11. PingFlushy'
  <2>1. \A b \in P!Actor : flush'[b].pc # "rest" => P!Flushing(b)'
    BY <1>1, <1>2, <1>8 DEF PingFlushy
  <2>2. \A b \in P!Actor : flush'[b].pc \in {"rest", "copy"} => flush'[b].batch = <<>>
    BY <1>1, <1>2 DEF PingFlushy
  <2>3. \A b \in P!Actor : flush'[b].pc = "clear" <=> pingLock' = b
    BY <1>0, <1>1, <1>2 DEF PingFlushy
  <2>4. closer \in {"join", "gone"} => flush'["closer"].pc = "rest"
    BY <1>0, <1>1, <1>2, PingTwo DEF PingFlushy
  <2> QED
    BY <1>0, <1>8, <2>1, <2>2, <2>3, <2>4 DEF PingFlushy
<1>12. \A b \in P!Actor : P!InSeq(flush'[b].batch) = IF b = a THEN {} ELSE P!InSeq(flush[b].batch)
  BY <1>1, <1>2, PingEmptyIn
<1>13. \A b \in P!Actor \ {a} : \A s \in P!InSeq(flush[b].batch) : s \in P!Sample
          /\ s \notin B
  <2>1. \A b \in P!Actor : P!InSeq(flush[b].batch) \subseteq P!Sample
    BY DEF PingTyped, P!TypeOK, P!InSeq
  <2> QED
    BY <2>1, PingTwo DEF PingOnePlace, B
<1>14. PingOnePlace'
  <2>1. \A s \in P!Sample : saved'[s] <= 1 /\ (s >= pingNext => saved'[s] = 0)
    <3> SUFFICES ASSUME NEW s \in P!Sample
                 PROVE saved'[s] <= 1 /\ (s >= pingNext => saved'[s] = 0)
      OBVIOUS
    <3>1. saved[s] <= 1 /\ (s >= pingNext => saved[s] = 0)
      BY DEF PingOnePlace
    <3>2. s >= pingNext => s \notin B
      BY <1>3 DEF P!Sample, PingTyped, P!TypeOK
    <3> QED
      BY <1>6, <3>1, <3>2
  <2>2. \A s \in P!InSeq(pending) : saved'[s] = 0 /\ s < pingNext
    <3>1. P!InSeq(pending) \subseteq P!Sample
      BY DEF PingTyped, P!TypeOK, P!InSeq
    <3> QED
      BY <1>3, <1>6, <3>1 DEF PingOnePlace
  <2>3. \A b \in P!Actor \ {a} : \A s \in P!InSeq(flush[b].batch) : saved'[s] = 0
           /\ s < pingNext
    BY <1>6, <1>13 DEF PingOnePlace
  <2>4. \A b \in P!Actor : \A s \in P!InSeq(flush'[b].batch) : saved'[s] = 0 /\ s < pingNext
    BY <1>12, <2>3
  <2>5. \A s \in P!Sample : s \notin P!InSeq(flush'["loop"].batch)
           \/ s \notin P!InSeq(flush'["closer"].batch)
    BY <1>12, PingTwo
  <2>6. \A b \in P!Actor : flush'[b].pc = "save"
           => \A s \in P!InSeq(flush'[b].batch) : s \notin P!InSeq(pending)
    BY <1>2, <1>12 DEF PingOnePlace
  <2>7. \A b \in P!Actor : flush'[b].pc = "clear" =>
          /\ P!InSeq(flush'[b].batch) \subseteq P!InSeq(pending)
          /\ P!InSeq(pending) \subseteq P!InSeq(flush'[b].batch) \cup caught
    BY <1>1, <1>2, <1>12 DEF PingOnePlace
  <2> QED
    BY <1>0, <2>1, <2>2, <2>4, <2>5, <2>6, <2>7 DEF PingOnePlace
<1>15. PingSomewhere'
  <2> SUFFICES ASSUME NEW s \in P!Sample, Dump < s, s < pingNext
               PROVE  \/ saved'[s] = 1 \/ s \in P!InSeq(pending) \/ s \in refused'
                          \/ s \in caught
                      \/ \E b \in P!Actor : s \in P!InSeq(flush'[b].batch)
    BY <1>0 DEF PingSomewhere
  <2>1. \/ saved[s] = 1 \/ s \in P!InSeq(pending) \/ s \in refused \/ s \in caught
        \/ \E b \in P!Actor : s \in P!InSeq(flush[b].batch)
    BY DEF PingSomewhere
  <2>2. s \in B => saved'[s] = 1 \/ s \in refused'
    BY <1>6
  <2>3. saved[s] = 1 => saved'[s] = 1
    BY <1>6
  <2> QED
    BY <1>5, <1>12, <2>1, <2>2, <2>3 DEF B
<1>16. PingEmptied'
  <2> SUFFICES ASSUME closer \in {"close", "gone"}, ~late
               PROVE  /\ pingThread' = "ended"
                      /\ left' < Flushes - 1 \/ flush'["closer"].pc = "save"
                          => pending = <<>>
    BY <1>0 DEF PingEmptied
  <2>1. pingThread = "ended" /\ a # "loop"
    BY <1>7, PingTwo DEF PingEmptied, P!Flushing
  <2>2. a = "closer" /\ pingThread' = pingThread
    BY <1>0, <2>1, PingTwo DEF P!Flushed
  <2>3. pending = <<>>
    BY <1>0, <2>2 DEF PingEmptied
  <2> QED
    BY <2>1, <2>2, <2>3
<1> QED
  BY <1>9, <1>10, <1>11, <1>14, <1>15, <1>16

LEMMA PingNextInv == ASSUME PingerSized, PingInv, [P!Next]_pingVars PROVE PingInv'
<1>1. CASE UNCHANGED pingVars
  BY <1>1 DEF pingVars, PingInv, PingTyped, P!TypeOK, PingStopped, PingFlushy, P!Flushing,
     PingOnePlace, PingSomewhere, PingEmptied
<1> QED
  BY <1>1, PingStartInv, PingPingInv, PingLoopInv, PingEnterInv, PingCopyInv, PingClearInv,
     PingSaveInv, PingCloserInv
  DEF P!Next, P!Loop, P!Flush

LEMMA PingSound == ASSUME PingerSized, PingInv PROVE P!TypeOK /\ P!SamplesKept
<1> USE DEF PingerSized, PingInv
<1>1. Cardinality(caught) <= 1
  <2>1. CASE caught = {}
    BY <2>1, FS_EmptySet
  <2>2. CASE caught # {}
    <3>1. PICK s \in P!Sample : caught = {s}
      BY <2>2 DEF PingStopped
    <3> QED
      BY <3>1, FS_Singleton
  <2> QED
    BY <2>1, <2>2
<1>2. \A s \in P!Taken : saved[s] = 1 \/ s \in P!Held \/ s \in refused \/ s \in caught
  BY DEF PingSomewhere, P!Taken, P!Held
<1>3. ASSUME closer = "gone", ~late, Flushes > 1
      PROVE  P!Taken \subseteq {s \in P!Sample : saved[s] = 1} \cup refused \cup caught
  <2>1. pingThread = "ended" /\ \A a \in P!Actor : flush[a].pc = "rest"
    BY <1>3, PingTwo DEF PingEmptied, PingFlushy, P!Flushing
  <2>2. left < Flushes - 1
    BY <1>3 DEF PingFlushy, PingTyped, P!TypeOK
  <2>3. pending = <<>>
    BY <1>3, <2>2 DEF PingEmptied
  <2>4. \A a \in P!Actor : P!InSeq(flush[a].batch) = {}
    BY <2>1, PingEmptyIn DEF PingFlushy
  <2>5. P!Held = {}
    BY <2>3, <2>4, PingEmptyIn DEF P!Held
  <2> QED
    BY <1>2, <2>5 DEF P!Taken
<1>4. \A s \in P!Sample : saved[s] <= 1
  BY DEF PingOnePlace
<1> QED
  BY <1>1, <1>2, <1>3, <1>4, PingCount DEF P!SamplesKept, PingTyped

-----------------------------------------------------------------------------
(* The traffic: what was counted is the sum of what is written, under way, lost*)
(* or still to write.                                                       *)

LEMMA SniffCount == \A s : S!Cardinality(s) = Cardinality(s)
  BY Zenon DEF S!Cardinality, Cardinality

SniffWrites == [pc : {"rest", "take", "row"}, bytes : Nat]

SniffPlaces == {"none", "count", "record", "write", "wait", "ended"}

SniffTyped ==
    /\ sniffRunning \in BOOLEAN /\ stopped \in BOOLEAN /\ mode \in [S!Loop -> {"real", "psutil"}]
    /\ sniffLoop \in [S!Loop -> SniffPlaces]
    /\ count \in Nat /\ sniffMark \in Nat /\ sniffSeen \in 0 .. MaxCount
    /\ weight \in [Host -> Nat] /\ added \in Nat
    /\ write \in [S!Writer -> SniffWrites]
    /\ sniffLock \in S!Loop \cup {-1}
    /\ stopping \in {"rest", "write", "join"}
    /\ sniffSaved \in Nat /\ lost \in Nat
    /\ tries \in 0 .. MaxFailed /\ sniffFaults \in 0 .. MaxFailed

\* Who writes: the thread with the lock, and whoever stops it.
SniffHeld == /\ \A l \in S!Loop : l # sniffLock => write[l] = S!Rest
                /\ sniffLoop[l] # "write"
             /\ \A w \in S!Writer : write[w].pc # "row" => write[w].bytes = 0
             /\ sniffLock \in S!Loop => write[sniffLock].pc # "rest"

\* Every byte is in one place.
SniffSummed == sniffSeen = sniffSaved + lost + (count - sniffMark) + S!UnderWay
          /\ sniffMark <= count /\ count <= sniffSeen

\* More addresses than the bound are those added since the last cleaning.
SniffLight == Cardinality(S!Ips) <= MaxIps + added

SniffInv == SniffTyped /\ SniffHeld /\ SniffSummed /\ SniffLight

LEMMA SniffWriterHas ==
  ASSUME SnifferSized
  PROVE  0 \in S!Writer /\ S!Loop \subseteq S!Writer /\ 0 \notin S!Loop
           /\ -1 \notin S!Loop /\ S!Writer = S!Loop \cup {0}
  BY DEF S!Writer, S!Loop, SnifferSized

LEMMA SniffRestWrites == S!Rest \in SniffWrites /\ S!Rest.pc = "rest" /\ S!Rest.bytes = 0
  BY DEF S!Rest, SniffWrites

LEMMA SniffInitInv == ASSUME SnifferSized, S!Init PROVE SniffInv
<1> USE DEF SnifferSized, S!Init
<1>1. S!Rest \in SniffWrites
  BY SniffRestWrites
<1>2. write \in [S!Writer -> SniffWrites]
  BY <1>1
<1>3. sniffLoop \in [S!Loop -> SniffPlaces]
         /\ weight \in [Host -> Nat]
  BY DEF SniffPlaces
<1>4. SniffTyped
  <2>1. sniffSeen \in 0 .. MaxCount /\ tries \in 0 .. MaxFailed
           /\ sniffFaults \in 0 .. MaxFailed
    OBVIOUS
  <2>2. sniffLock \in S!Loop \cup {-1} /\ stopping \in {"rest", "write", "join"}
           /\ mode \in [S!Loop -> {"real", "psutil"}]
    OBVIOUS
  <2> QED
    BY <1>2, <1>3, <2>1, <2>2 DEF SniffTyped
<1>5. S!UnderWay = 0
  BY SniffWriterHas, SniffRestWrites DEF S!UnderWay
<1>6. SniffHeld
  BY SniffWriterHas, SniffRestWrites DEF SniffHeld
<1>7. S!Ips = {}
  BY DEF S!Ips
<1>8. SniffSummed /\ SniffLight
  BY <1>5, <1>7, FS_EmptySet DEF SniffSummed, SniffLight
<1> QED
  BY <1>4, <1>6, <1>8 DEF SniffInv

\* The weights stay where they are.
LEMMA SniffLightStays ==
  ASSUME SniffLight, UNCHANGED S!addresses
  PROVE  SniffLight'
  BY DEF SniffLight, S!Ips, S!addresses

\* A section that ends, with a cleaning or without.
LEMMA SniffEnds ==
  ASSUME SnifferSized, SniffTyped, SniffLight, S!SectionEnds
  PROVE  weight' \in [Host -> Nat] /\ added' \in Nat /\ SniffLight'
<1> USE DEF SnifferSized
<1>1. CASE UNCHANGED S!addresses
  BY <1>1, SniffLightStays DEF SniffTyped, S!addresses
<1>2. CASE added' = 0 /\ Cardinality(S!Ips) <= MaxIps /\ UNCHANGED weight
  <2>1. S!Ips' = S!Ips
    BY <1>2 DEF S!Ips
  <2> QED
    BY <1>2, <2>1 DEF SniffLight, SniffTyped
<1>3. ASSUME added' = 0, NEW kept \in SUBSET S!Ips, Cardinality(kept) = KeepIps,
             weight' = [i \in Host |-> IF i \in kept THEN weight[i] ELSE 0]
      PROVE  weight' \in [Host -> Nat] /\ added' \in Nat /\ SniffLight'
  <2>1. weight' \in [Host -> Nat] /\ added' \in Nat
    BY <1>3 DEF SniffTyped
  <2>2. S!Ips' \subseteq kept /\ kept \subseteq Host
    BY <1>3 DEF S!Ips
  <2>3. IsFiniteSet(kept)
    BY <2>2, FS_Subset
  <2>4. Cardinality(S!Ips') <= Cardinality(kept) /\ IsFiniteSet(S!Ips')
    BY <2>2, <2>3, FS_Subset
  <2>5. Cardinality(S!Ips') \in Nat
    BY <2>4, FS_CardinalityType
  <2> QED
    BY <1>3, <2>1, <2>4, <2>5 DEF SniffLight
<1> QED
  BY <1>1, <1>2, <1>3, SniffCount DEF S!SectionEnds, S!Cleaned

\* Nothing about the bytes changes.
LEMMA SniffQuietInv ==
  ASSUME SnifferSized, SniffInv,
         UNCHANGED <<S!numbers, S!addresses, write, sniffLock, sniffSaved, lost>>,
         sniffRunning' \in BOOLEAN, stopped' \in BOOLEAN, mode' \in [S!Loop -> {"real", "psutil"}],
         sniffLoop' \in [S!Loop -> SniffPlaces],
         \A l \in S!Loop : sniffLoop'[l] = "write" => sniffLoop[l] = "write",
         stopping' \in {"rest", "write", "join"},
         tries' \in 0 .. MaxFailed, sniffFaults' \in 0 .. MaxFailed
  PROVE  SniffInv'
<1> USE DEF SniffInv
<1>1. SniffTyped'
  BY DEF SniffTyped, S!numbers, S!addresses
<1>2. SniffHeld'
  BY DEF SniffHeld
<1>3. SniffSummed'
  BY DEF SniffSummed, S!UnderWay, S!numbers
<1>4. SniffLight'
  BY SniffLightStays
<1> QED
  BY <1>1, <1>2, <1>3, <1>4

LEMMA SniffStartInv ==
  ASSUME SnifferSized, SniffInv, NEW l \in S!Loop, S!Start(l)
  PROVE  SniffInv'
<1>1. UNCHANGED <<S!numbers, S!addresses, write, sniffLock, sniffSaved, lost, stopping, sniffFaults>>
      /\ sniffRunning' \in BOOLEAN /\ stopped' \in BOOLEAN
  BY DEF S!Start
<1>2. mode' \in [S!Loop -> {"real", "psutil"}] /\ tries' \in 0 .. MaxFailed
  BY DEF S!Start, SniffInv, SniffTyped, SnifferSized
<1>3. /\ sniffLoop' \in [S!Loop -> SniffPlaces]
      /\ \A k \in S!Loop : sniffLoop'[k] = "write" => sniffLoop[k] = "write"
  BY DEF S!Start, SniffInv, SniffTyped, SniffPlaces
<1>4. stopping' \in {"rest", "write", "join"} /\ sniffFaults' \in 0 .. MaxFailed
  BY <1>1 DEF SniffInv, SniffTyped
<1> QED
  BY <1>1, <1>2, <1>3, <1>4, SniffQuietInv

LEMMA SniffLoopInv ==
  ASSUME SnifferSized, SniffInv, NEW l \in S!Loop, S!CountNothing(l) \/ S!Again(l)
  PROVE  SniffInv'
<1>1. UNCHANGED <<S!numbers, S!addresses, write, sniffLock, sniffSaved, lost, stopping, sniffFaults,
                  sniffRunning, stopped, mode, tries>>
  BY DEF S!CountNothing, S!Again
<1>3. /\ sniffLoop' \in [S!Loop -> SniffPlaces]
      /\ \A k \in S!Loop : sniffLoop'[k] = "write" => sniffLoop[k] = "write"
  BY DEF S!CountNothing, S!Again, SniffInv, SniffTyped, SniffPlaces
<1>4. /\ stopping' \in {"rest", "write", "join"} /\ sniffFaults' \in 0 .. MaxFailed
      /\ tries' \in 0 .. MaxFailed /\ sniffRunning' \in BOOLEAN /\ stopped' \in BOOLEAN
      /\ mode' \in [S!Loop -> {"real", "psutil"}]
  BY <1>1 DEF SniffInv, SniffTyped
<1> QED
  BY <1>1, <1>3, <1>4, SniffQuietInv

LEMMA SniffWrittenInv ==
  ASSUME SnifferSized, SniffInv, S!Written \/ S!Joined
  PROVE  SniffInv'
<1>1. UNCHANGED <<S!numbers, S!addresses, write, sniffLock, sniffSaved, lost, sniffLoop, sniffRunning,
                  stopped, mode, tries>>
  BY DEF S!Written, S!Joined
<1>2. stopping' \in {"rest", "write", "join"}
  BY DEF S!Written, S!Joined
<1>3. sniffFaults' \in 0 .. MaxFailed
  BY DEF S!Written, S!Joined, SniffInv, SniffTyped, SnifferSized
<1>4. /\ tries' \in 0 .. MaxFailed /\ sniffRunning' \in BOOLEAN /\ stopped' \in BOOLEAN
      /\ mode' \in [S!Loop -> {"real", "psutil"}]
      /\ sniffLoop' \in [S!Loop -> SniffPlaces]
  BY <1>1 DEF SniffInv, SniffTyped
<1> QED
  BY <1>1, <1>2, <1>3, <1>4, SniffQuietInv

\* Whoever stops it begins to write.
LEMMA SniffStopInv == ASSUME SnifferSized, SniffInv, S!Stop \/ S!Flush PROVE SniffInv'
<1> USE DEF SnifferSized, SniffInv
<1> DEFINE r == [write[0] EXCEPT !.pc = "take"]
<1>0. 0 \in S!Writer /\ S!Loop \subseteq S!Writer /\ 0 \notin S!Loop
  BY SniffWriterHas
<1>1. /\ write' = [write EXCEPT ![0] = r] /\ write[0].pc = "rest"
      /\ UNCHANGED <<mode, sniffLoop, S!numbers, S!addresses, sniffLock, sniffSaved, lost, tries,
                     sniffFaults>>
      /\ sniffRunning' \in BOOLEAN /\ stopped' \in BOOLEAN
      /\ stopping' \in {"rest", "write", "join"}
  BY <1>0 DEF S!Stop, S!Flush, SniffTyped
<1>2. r \in SniffWrites /\ r.pc = "take" /\ r.bytes = write[0].bytes /\ write[0].bytes = 0
  BY <1>0, <1>1 DEF SniffTyped, SniffWrites, SniffHeld
<1> HIDE DEF r
<1>3. /\ write' \in [S!Writer -> SniffWrites] /\ write'[0] = r
      /\ \A w \in S!Writer \ {0} : write'[w] = write[w]
  BY <1>0, <1>1, <1>2 DEF SniffTyped
<1>4. SniffTyped'
  BY <1>1, <1>3 DEF SniffTyped, S!numbers, S!addresses
<1>5. \A l \in S!Loop : write'[l] = write[l]
  BY <1>0, <1>3
<1>6. SniffHeld'
  BY <1>0, <1>1, <1>2, <1>3, <1>5 DEF SniffHeld
<1>7. S!UnderWay' = S!UnderWay
  BY <1>1, <1>2, <1>3, <1>5 DEF S!UnderWay, SniffTyped
<1>8. SniffSummed'
  BY <1>1, <1>7 DEF SniffSummed, S!numbers
<1>9. SniffLight'
  BY <1>1, SniffLightStays
<1> QED
  BY <1>4, <1>6, <1>8, <1>9

LEMMA SniffTakeInv ==
  ASSUME SnifferSized, SniffInv, NEW w \in S!Writer, S!Take(w)
  PROVE  SniffInv'
<1> USE DEF SnifferSized, SniffInv
<1> DEFINE r == [pc |-> "row", bytes |-> count - sniffMark]
<1>0. 0 \in S!Writer /\ S!Loop \subseteq S!Writer /\ 0 \notin S!Loop /\ -1 \notin S!Loop
         /\ S!Writer = S!Loop \cup {0}
  BY SniffWriterHas
<1>1. /\ write' = [write EXCEPT ![w] = r] /\ write[w].pc = "take"
      /\ sniffMark' = S!Marked /\ count' = IF count > Wrap THEN 0 ELSE count
      /\ UNCHANGED <<sniffRunning, stopped, mode, sniffLoop, S!addresses, sniffSeen, sniffLock,
                     stopping, sniffSaved, lost,
                     tries, sniffFaults>>
      /\ (sniffLock = w \/ (w = 0 /\ sniffLock = -1))
  <2>1. ~(count < sniffMark)
    BY DEF SniffSummed, SniffTyped
  <2> QED
    BY <2>1 DEF S!Take
<1>2. r \in SniffWrites /\ r.pc = "row" /\ r.bytes = count - sniffMark
  BY DEF SniffTyped, SniffSummed, SniffWrites
<1> HIDE DEF r
<1>3. /\ write' \in [S!Writer -> SniffWrites] /\ write'[w] = r
      /\ \A v \in S!Writer \ {w} : write'[v] = write[v]
  BY <1>1, <1>2 DEF SniffTyped
<1>4. sniffMark' \in Nat /\ count' = sniffMark'
  BY <1>1 DEF S!Marked, SniffTyped
<1>5. SniffTyped'
  BY <1>1, <1>3, <1>4 DEF SniffTyped, S!addresses
<1>6. SniffHeld'
  BY <1>0, <1>1, <1>2, <1>3 DEF SniffHeld
<1>7. write[w].bytes = 0 /\ write[w] \in SniffWrites
  BY <1>1 DEF SniffHeld, SniffTyped
<1>8. S!UnderWay' = S!UnderWay + (count - sniffMark)
  <2>1. CASE w = 0 /\ sniffLock = -1
    BY <1>0, <1>1, <1>2, <1>3, <1>7, <2>1 DEF S!UnderWay, SniffTyped
  <2>2. CASE sniffLock = w
    <3>1. w \in S!Loop /\ w # 0 /\ w # -1
      BY <1>0, <2>2 DEF SniffTyped
    <3>2. write'[0] = write[0] /\ write[0].bytes \in Nat
      BY <1>0, <1>3, <3>1 DEF SniffTyped, SniffWrites
    <3>3. S!UnderWay = write[0].bytes + 0
             /\ S!UnderWay' = write[0].bytes + (count - sniffMark)
      BY <1>1, <1>2, <1>3, <1>7, <2>2, <3>1, <3>2 DEF S!UnderWay
    <3> QED
      BY <3>2, <3>3 DEF SniffTyped
  <2> QED
    BY <1>1, <2>1, <2>2
<1>9. S!UnderWay \in Nat
  <2>1. write[0].bytes \in Nat /\ (sniffLock \in S!Loop => write[sniffLock].bytes \in Nat)
    BY <1>0 DEF SniffTyped, SniffWrites
  <2> QED
    BY <1>0, <2>1 DEF S!UnderWay, SniffTyped
<1>10. SniffSummed'
  BY <1>1, <1>4, <1>8, <1>9 DEF SniffSummed, SniffTyped
<1>11. SniffLight'
  BY <1>1, SniffLightStays
<1> QED
  BY <1>5, <1>6, <1>10, <1>11

LEMMA SniffRowInv ==
  ASSUME SnifferSized, SniffInv, NEW w \in S!Writer, S!Row(w)
  PROVE  SniffInv'
<1> USE DEF SnifferSized, SniffInv
<1>0. 0 \in S!Writer /\ S!Loop \subseteq S!Writer /\ 0 \notin S!Loop /\ -1 \notin S!Loop
         /\ S!Writer = S!Loop \cup {0}
  BY SniffWriterHas
<1>1. /\ write' = [write EXCEPT ![w] = S!Rest] /\ write[w].pc = "row"
      /\ sniffLock' = IF sniffLock = w THEN -1 ELSE sniffLock
      /\ sniffLoop' = IF w = 0 THEN sniffLoop ELSE [sniffLoop EXCEPT ![w] = "wait"]
      /\ S!SectionEnds
      /\ UNCHANGED <<sniffRunning, stopped, mode, S!numbers, stopping, tries>>
  BY <1>0 DEF S!Row, S!SectionEnds
<1>2. PICK b \in Nat : b = write[w].bytes
  BY DEF SniffTyped, SniffWrites
<1>3. \/ sniffSaved' = sniffSaved + b /\ UNCHANGED <<lost, sniffFaults>>
      \/ sniffFaults' \in 0 .. MaxFailed /\ lost' = lost + b /\ UNCHANGED sniffSaved
  BY <1>2 DEF S!Row, SniffTyped
<1>4. S!Rest \in SniffWrites /\ S!Rest.pc = "rest" /\ S!Rest.bytes = 0
  BY SniffRestWrites
<1>5. /\ write' \in [S!Writer -> SniffWrites] /\ write'[w] = S!Rest
      /\ \A v \in S!Writer \ {w} : write'[v] = write[v]
  BY <1>1, <1>4 DEF SniffTyped
<1>6. sniffSaved' \in Nat /\ lost' \in Nat /\ sniffFaults' \in 0 .. MaxFailed
      /\ ((sniffSaved' = sniffSaved + b /\ lost' = lost) \/ (sniffSaved' = sniffSaved
          /\ lost' = lost + b))
  BY <1>2, <1>3 DEF SniffTyped
<1>7. w = 0 \/ w = sniffLock
  BY <1>0, <1>1, <1>4 DEF SniffHeld
<1>8. sniffLock' \in S!Loop \cup {-1}
         /\ sniffLoop' \in [S!Loop -> SniffPlaces]
  BY <1>0, <1>1 DEF SniffTyped, SniffPlaces
<1>9. SniffTyped'
  BY <1>1, <1>5, <1>6, <1>8, SniffEnds DEF SniffTyped, S!numbers
<1>10. SniffHeld'
  <2>1. CASE w = 0
    <3>1. sniffLock' = sniffLock /\ sniffLoop' = sniffLoop
             /\ \A l \in S!Loop : write'[l] = write[l]
      BY <1>0, <1>1, <1>5, <2>1 DEF SniffTyped
    <3> QED
      BY <1>0, <1>4, <1>5, <2>1, <3>1 DEF SniffHeld
  <2>2. CASE w # 0
    <3>1. sniffLock = w /\ sniffLock' = -1 /\ w \in S!Loop
      BY <1>0, <1>1, <1>7, <2>2
    <3>2. sniffLoop'[w] = "wait" /\ \A l \in S!Loop \ {w} : sniffLoop'[l] = sniffLoop[l]
      BY <1>1, <2>2, <3>1 DEF SniffTyped
    <3> QED
      BY <1>0, <1>4, <1>5, <3>1, <3>2 DEF SniffHeld
  <2> QED
    BY <2>1, <2>2
<1>11. S!UnderWay = S!UnderWay' + b /\ S!UnderWay' \in Int
  <2>0. write[0].bytes \in Nat
    BY <1>0 DEF SniffTyped, SniffWrites
  <2>1. CASE w = 0
    <3>1. sniffLock' = sniffLock /\ \A l \in S!Loop : write'[l] = write[l]
             /\ write[l].bytes \in Nat
      BY <1>0, <1>1, <1>5, <2>1 DEF SniffTyped, SniffWrites
    <3>2. write'[0].bytes = 0
      BY <1>4, <1>5, <2>1
    <3> DEFINE m == IF sniffLock = -1 THEN 0 ELSE write[sniffLock].bytes
    <3>3. m \in Nat
      BY <3>1 DEF SniffTyped
    <3>4. S!UnderWay = b + m /\ S!UnderWay' = 0 + m
      BY <1>2, <2>1, <3>1, <3>2 DEF S!UnderWay, SniffTyped
    <3> HIDE DEF m
    <3> QED
      BY <1>2, <3>3, <3>4
  <2>2. CASE w # 0
    <3>1. sniffLock = w /\ sniffLock' = -1 /\ w # -1 /\ write'[0] = write[0]
      BY <1>0, <1>1, <1>5, <1>7, <2>2
    <3>2. S!UnderWay = write[0].bytes + b /\ S!UnderWay' = write[0].bytes + 0
      BY <1>2, <3>1 DEF S!UnderWay
    <3> QED
      BY <1>2, <2>0, <3>2
  <2> QED
    BY <2>1, <2>2
<1>12. SniffSummed'
  <2>1. /\ sniffSeen = sniffSaved + lost + (count - sniffMark) + S!UnderWay
        /\ sniffMark <= count /\ count <= sniffSeen
        /\ sniffSeen \in Nat /\ sniffSaved \in Nat /\ lost \in Nat /\ count \in Nat
        /\ sniffMark \in Nat
    BY DEF SniffSummed, SniffTyped
  <2>2. UNCHANGED <<sniffSeen, count, sniffMark>>
    BY <1>1 DEF S!numbers
  <2> HIDE DEF SniffInv
  <2>3. PICK s \in Nat, l \in Nat, u \in Int : s = sniffSaved' /\ l = lost'
           /\ u = S!UnderWay'
    BY <1>6, <1>11
  <2>4. s + l = sniffSaved + lost + b
    BY <1>2, <1>6, <2>1, <2>3
  <2>5. S!UnderWay = u + b
    BY <1>11, <2>3
  <2>6. sniffSeen = s + l + (count - sniffMark) + u
    <3>1. PICK v \in Int : v = S!UnderWay /\ v = u + b
      BY <2>5
    <3>2. sniffSeen = sniffSaved + lost + (count - sniffMark) + v
      BY <2>1, <3>1
    <3> QED
      BY <2>1, <2>4, <3>1, <3>2
  <2> QED
    BY <2>1, <2>2, <2>3, <2>6 DEF SniffSummed
<1>13. SniffLight'
  BY <1>1, SniffEnds
<1> QED
  BY <1>9, <1>10, <1>12, <1>13

-----------------------------------------------------------------------------
\* A packet adds one address at most.
LEMMA SniffAddInv ==
  ASSUME SnifferSized, SniffInv, NEW l \in S!Loop, S!AddPacket(l)
  PROVE  SniffInv'
<1> USE DEF SnifferSized, SniffInv
<1>1. PICK i \in Host : weight' = [weight EXCEPT ![i] = @ + 1]
  BY DEF S!AddPacket
<1>2. /\ added' = added + 1 /\ sniffLoop' = [sniffLoop EXCEPT ![l] = "record"]
      /\ UNCHANGED <<sniffRunning, stopped, mode, S!numbers, write, sniffLock, stopping,
                     sniffSaved, lost, tries, sniffFaults>>
  BY DEF S!AddPacket
<1>3. weight' \in [Host -> Nat] /\ added' \in Nat
         /\ sniffLoop' \in [S!Loop -> SniffPlaces]
  BY <1>1, <1>2 DEF SniffTyped, SniffPlaces
<1>4. SniffTyped'
  BY <1>2, <1>3 DEF SniffTyped, S!numbers
<1>5. SniffHeld'
  BY <1>2 DEF SniffHeld, SniffTyped
<1>6. SniffSummed'
  BY <1>2 DEF SniffSummed, S!UnderWay, S!numbers
<1>7. SniffLight'
  <2>1. S!Ips' \subseteq S!Ips \cup {i} /\ S!Ips \subseteq Host
    BY <1>1 DEF S!Ips, SniffTyped
  <2>2. IsFiniteSet(S!Ips) /\ Cardinality(S!Ips) \in Nat
    BY <2>1, FS_Subset, FS_CardinalityType
  <2>3. IsFiniteSet(S!Ips \cup {i})
        /\ Cardinality(S!Ips \cup {i}) <= Cardinality(S!Ips) + 1
    <3>1. IsFiniteSet(S!Ips \cup {i})
      BY <2>2, FS_AddElement
    <3> QED
      BY <2>2, <3>1, OneAdded
  <2>4. IsFiniteSet(S!Ips') /\ Cardinality(S!Ips') <= Cardinality(S!Ips \cup {i})
    BY <2>1, <2>3, FS_Subset
  <2>5. Cardinality(S!Ips') \in Nat /\ Cardinality(S!Ips \cup {i}) \in Nat
    BY <2>3, <2>4, FS_CardinalityType
  <2> QED
    BY <1>2, <2>2, <2>3, <2>4, <2>5 DEF SniffLight, SniffTyped
<1> QED
  BY <1>4, <1>5, <1>6, <1>7

LEMMA SniffRecordInv ==
  ASSUME SnifferSized, SniffInv, NEW l \in S!Loop, S!Record(l)
  PROVE  SniffInv'
<1> USE DEF SnifferSized, SniffInv
<1>0. 0 \in S!Writer /\ S!Loop \subseteq S!Writer /\ 0 \notin S!Loop /\ -1 \notin S!Loop
         /\ S!Writer = S!Loop \cup {0}
  BY SniffWriterHas
<1>1. /\ sniffLoop[l] \in {"count", "record"} /\ sniffLock = -1 /\ sniffSeen < MaxCount
      /\ count' = count + 1 /\ sniffSeen' = sniffSeen + 1
      /\ UNCHANGED <<sniffRunning, stopped, mode, sniffMark, stopping, sniffSaved, lost,
                     tries, sniffFaults>>
  BY DEF S!Record
<1>2. write[l] = S!Rest
  BY <1>0, <1>1 DEF SniffHeld
<1> DEFINE r == [write[l] EXCEPT !.pc = "take"]
<1>3. r \in SniffWrites /\ r.pc = "take" /\ r.bytes = 0
  BY <1>2 DEF S!Rest, SniffWrites
<1>4. \/ sniffLoop' = [sniffLoop EXCEPT ![l] = "wait"] /\ UNCHANGED <<write, sniffLock>>
      \/ sniffLoop' = [sniffLoop EXCEPT ![l] = "write"]
          /\ write' = [write EXCEPT ![l] = r] /\ sniffLock' = l
  BY <1>0 DEF S!Record, SniffTyped
<1> HIDE DEF r
<1>5. sniffLoop' \in [S!Loop -> SniffPlaces]
         /\ sniffLock' \in S!Loop \cup {-1}
  BY <1>4 DEF SniffTyped, SniffPlaces
<1>6. /\ write' \in [S!Writer -> SniffWrites]
          /\ \A v \in S!Writer \ {l} : write'[v] = write[v]
      /\ write'[l].bytes = 0
  BY <1>0, <1>2, <1>3, <1>4, SniffRestWrites DEF SniffTyped
<1>7. weight' \in [Host -> Nat] /\ added' \in Nat /\ SniffLight'
  <2>1. S!SectionEnds
    BY DEF S!Record, S!SectionEnds
  <2> QED
    BY <2>1, SniffEnds
<1>9. SniffTyped'
  <2>1. count' \in Nat /\ sniffSeen' \in 0 .. MaxCount
    BY <1>1 DEF SniffTyped
  <2> QED
    BY <1>1, <1>5, <1>6, <1>7, <2>1 DEF SniffTyped
<1>10. SniffHeld'
  <2>1. CASE sniffLoop' = [sniffLoop EXCEPT ![l] = "wait"] /\ UNCHANGED <<write, sniffLock>>
    BY <1>0, <1>1, <2>1 DEF SniffHeld, SniffTyped
  <2>2. CASE sniffLoop' = [sniffLoop EXCEPT ![l] = "write"]
           /\ write' = [write EXCEPT ![l] = r] /\ sniffLock' = l
    <3>1. write'[l] = r /\ \A k \in S!Loop \ {l} : sniffLoop'[k] = sniffLoop[k]
             /\ write'[k] = write[k]
      BY <1>0, <1>6, <2>2 DEF SniffTyped
    <3>2. \A k \in S!Loop : k # sniffLock
      BY <1>0, <1>1
    <3>3. \A w \in S!Writer : write'[w].pc # "row" => write'[w].bytes = 0
      BY <1>6 DEF SniffHeld
    <3> QED
      BY <1>0, <1>3, <2>2, <3>1, <3>2, <3>3 DEF SniffHeld
  <2> QED
    BY <1>4, <2>1, <2>2
<1>11. S!UnderWay' = S!UnderWay
  <2>1. write'[0] = write[0] /\ write[0].bytes \in Nat
    BY <1>0, <1>6 DEF SniffTyped, SniffWrites
  <2>2. S!UnderWay = write[0].bytes
    BY <1>1, <2>1 DEF S!UnderWay
  <2>3. S!UnderWay' = write[0].bytes
    BY <1>0, <1>1, <1>4, <1>6, <2>1 DEF S!UnderWay
  <2> QED
    BY <2>2, <2>3
<1>12. S!UnderWay \in Nat
  BY <1>0, <1>1 DEF S!UnderWay, SniffTyped, SniffWrites
<1>13. SniffSummed'
  BY <1>1, <1>11, <1>12 DEF SniffSummed, SniffTyped
<1> QED
  BY <1>7, <1>9, <1>10, <1>13

LEMMA SniffNextInv == ASSUME SnifferSized, SniffInv, [S!Next]_sniffVars PROVE SniffInv'
<1>1. CASE UNCHANGED sniffVars
  BY <1>1 DEF sniffVars, SniffInv, SniffTyped, SniffHeld, SniffSummed, SniffLight,
     S!UnderWay, S!Ips
<1> QED
  BY <1>1, SniffStartInv, SniffAddInv, SniffRecordInv, SniffLoopInv, SniffTakeInv, SniffRowInv,
     SniffStopInv, SniffWrittenInv DEF S!Next

LEMMA SniffSound == ASSUME SnifferSized, SniffInv PROVE S!TypeOK /\ S!BytesCounted
<1> USE DEF SnifferSized, SniffInv
<1>0. 0 \in S!Writer /\ S!Loop \subseteq S!Writer /\ 0 \notin S!Loop /\ -1 \notin S!Loop
         /\ S!Writer = S!Loop \cup {0}
  BY SniffWriterHas
<1>1. \A w \in S!Writer : write[w].bytes \in Nat
  BY DEF SniffTyped, SniffWrites
<1>2. S!UnderWay = write[0].bytes + (IF sniffLock = -1 THEN 0 ELSE write[sniffLock].bytes)
  BY DEF S!UnderWay
<1>3. (IF sniffLock = -1 THEN 0 ELSE write[sniffLock].bytes) \in Nat
  BY <1>0, <1>1 DEF SniffTyped
<1>4. /\ sniffSeen \in Nat /\ sniffSeen <= MaxCount /\ count <= sniffSeen
      /\ sniffMark <= sniffSeen
      /\ sniffSaved <= sniffSeen /\ lost <= sniffSeen /\ S!UnderWay <= sniffSeen
      /\ count >= sniffMark
  <2>1. S!UnderWay \in Nat
    BY <1>0, <1>1, <1>2, <1>3
  <2> QED
    BY <2>1 DEF SniffSummed, SniffTyped
<1>5. \A w \in S!Writer : write[w].bytes <= sniffSeen
  <2>1. write[0].bytes <= sniffSeen /\ (sniffLock # -1
           => write[sniffLock].bytes <= sniffSeen)
    BY <1>0, <1>1, <1>2, <1>3, <1>4 DEF SniffTyped
  <2>2. \A l \in S!Loop \ {sniffLock} : write[l].bytes = 0
    BY SniffRestWrites DEF SniffHeld
  <2> QED
    BY <1>0, <1>4, <2>1, <2>2
<1>7. write \in [S!Writer -> [pc : {"rest", "take", "row"}, bytes : 0 .. MaxCount]]
  <2>2. \A w \in S!Writer : write[w] \in [pc : {"rest", "take", "row"},
                                          bytes : 0 .. MaxCount]
    <3> SUFFICES ASSUME NEW w \in S!Writer
                 PROVE  write[w] \in [pc : {"rest", "take", "row"}, bytes : 0 .. MaxCount]
      OBVIOUS
    <3>1. write[w] \in SniffWrites /\ write[w].bytes \in 0 .. MaxCount
      BY <1>1, <1>4, <1>5 DEF SniffTyped
    <3> QED
      BY <3>1 DEF SniffWrites
  <2>3. write \in [S!Writer -> SniffWrites]
    BY DEF SniffTyped
  <2> QED
    BY <2>2, <2>3
<1>8. S!TypeOK
  <2>1. /\ count \in 0 .. MaxCount /\ sniffMark \in 0 .. MaxCount
        /\ sniffSeen \in 0 .. MaxCount
        /\ sniffSaved \in 0 .. MaxCount /\ lost \in 0 .. MaxCount
    BY <1>4 DEF SniffTyped
  <2> QED
    BY <1>7, <2>1 DEF S!TypeOK, SniffTyped, SniffPlaces
<1>9. \A l \in S!Loop \ {sniffLock} : write[l].bytes = 0
  BY SniffRestWrites DEF SniffHeld
<1> QED
  BY <1>8, <1>9, SniffCount DEF S!BytesCounted, SniffSummed, SniffLight, SniffTyped

-----------------------------------------------------------------------------
(* The works, backups and checks: a stale resource has its event or somebody who*)
(* is about to write it, and who runs a check has read what there is.       *)

DutySteps(mix) == [pc : {"rest", "look", "tell", "note", "read", "put"},
                   left : SUBSET (Resource[mix] \cup Custom[mix]),
                   at : Resource[mix] \cup Custom[mix] \cup {0}, day : D(mix)!Never .. MaxDuty[mix], got : [Custom[mix] -> Nat]]

DutyTyped(mix) ==
    /\ dutyNow \in 0 .. MaxDuty[mix]
    /\ done \in [Task[mix] -> D(mix)!Never .. MaxDuty[mix]]
    /\ about \in [Task[mix] -> D(mix)!Never .. MaxDuty[mix]]
    /\ due \subseteq Task[mix]
    /\ alert \in [D(mix)!Kind -> D(mix)!Never .. MaxDuty[mix]]
    /\ copy \in [Resource[mix] -> D(mix)!Never .. MaxDuty[mix]]
    /\ dutyRow \in [Resource[mix] -> {"none", "ok", "stale"}]
    /\ event \subseteq (Resource[mix] \X (0 .. MaxDuty[mix]) \X Runner[mix])
    /\ dutyRun \in [Runner[mix] -> DutySteps(mix)]
    /\ dutyResult \in [Custom[mix] -> Nat] /\ ran \in [Custom[mix] -> Nat]
    /\ clash \in BOOLEAN

\* What a runner is at.
DutyPlaced(mix) == \A n \in Runner[mix] :
    /\ D(mix)!At(n, "look") => dutyRun[n].left \subseteq Resource[mix]
    /\ D(mix)!At(n, "tell") \/ D(mix)!At(n, "note") => dutyRun[n].at \in Resource[mix]
        /\ dutyRun[n].left \subseteq Resource[mix]
    /\ D(mix)!At(n, "note") => dutyRun[n].day \in 0 .. MaxDuty[mix]
    /\ D(mix)!At(n, "read") \/ D(mix)!At(n, "put") => dutyRun[n].at \in Custom[mix]
    /\ D(mix)!At(n, "rest") \/ D(mix)!At(n, "look") => dutyRun[n].at = 0

DutyNoticed(mix) == \A r \in Resource[mix] : dutyRow[r] = "stale" =>
              (\E e \in event : e[1] = r) \/ \E n \in Runner[mix] : dutyRun[n].at = r
DutyOnce(mix) == \A e, f \in event : e[1] = f[1] /\ e[2] = f[2] => e = f

\* One runner at a time: what is read is what there is but for the own check.
DutyAlone(mix) == \A n, m \in Runner[mix] : ~D(mix)!At(n, "rest")
   /\ ~D(mix)!At(m, "rest") => n = m
DutyRead(mix) == \A n \in Runner[mix] : D(mix)!At(n, "put") =>
           \A c \in Custom[mix] : dutyRun[n].got[c] = IF c = dutyRun[n].at THEN ran[c] ELSE dutyResult[c]
DutyCurrent(mix) == \A c \in Custom[mix] : dutyResult[c] = ran[c]
   \/ \E n \in Runner[mix] : dutyRun[n].at = c

DutyInv(mix) == /\ DutyTyped(mix) /\ DutyPlaced(mix) /\ DutyNoticed(mix) /\ DutyOnce(mix)
                /\ ~clash => DutyAlone(mix) /\ DutyRead(mix) /\ DutyCurrent(mix)

LEMMA DutyRestSteps ==
  ASSUME NEW mix, DutiesSized(mix)
  PROVE
  /\ D(mix)!Rest \in DutySteps(mix) /\ D(mix)!Rest.pc = "rest" /\ D(mix)!Rest.at = 0
  /\ D(mix)!Rest.left = {}
  /\ D(mix)!Rest = [pc |-> "rest", left |-> {}, at |-> 0, day |-> D(mix)!Never,
                    got |-> D(mix)!Rest.got]
  /\ D(mix)!Rest.got \in [Custom[mix] -> Nat]
  /\ D(mix)!Rest.day \in D(mix)!Never .. MaxDuty[mix]
<1>1. [c \in Custom[mix] |-> 0] \in [Custom[mix] -> Nat]
  OBVIOUS
<1>2. D(mix)!Never \in D(mix)!Never .. MaxDuty[mix]
  BY DEF D!Never, DutiesSized
<1> QED
  BY <1>1, <1>2 DEF D!Rest, DutySteps

LEMMA DutyInitInv == ASSUME NEW mix, DutiesSized(mix), D(mix)!Init PROVE DutyInv(mix)
<1> USE DEF DutiesSized, D!Init
<1>1. D(mix)!Rest \in DutySteps(mix)
  BY DutyRestSteps
<1>2. DutyTyped(mix)
  <2>1. dutyRun \in [Runner[mix] -> DutySteps(mix)]
    BY <1>1
  <2>2. dutyNow \in 0 .. MaxDuty[mix]
    OBVIOUS
  <2>5. due \subseteq Task[mix] /\ clash \in BOOLEAN
    OBVIOUS
  <2>6. event \subseteq (Resource[mix] \X (0 .. MaxDuty[mix]) \X Runner[mix])
    <3>1. event = {}
      OBVIOUS
    <3> QED
      BY <3>1
  <2>3. /\ done \in [Task[mix] -> D(mix)!Never .. MaxDuty[mix]]
        /\ about \in [Task[mix] -> D(mix)!Never .. MaxDuty[mix]]
        /\ alert \in [D(mix)!Kind -> D(mix)!Never .. MaxDuty[mix]]
        /\ copy \in [Resource[mix] -> D(mix)!Never .. MaxDuty[mix]]
    <3>1. D(mix)!Never \in D(mix)!Never .. MaxDuty[mix]
      BY DEF D!Never
    <3> QED
      BY <3>1
  <2>4. /\ dutyRow \in [Resource[mix] -> {"none", "ok", "stale"}]
        /\ dutyResult \in [Custom[mix] -> Nat] /\ ran \in [Custom[mix] -> Nat]
    OBVIOUS
  <2> QED
    BY <2>1, <2>2, <2>3, <2>4, <2>5, <2>6 DEF DutyTyped
<1>3. DutyPlaced(mix) /\ DutyNoticed(mix) /\ DutyOnce(mix) /\ DutyAlone(mix)
         /\ DutyRead(mix) /\ DutyCurrent(mix)
  BY DEF DutyPlaced, DutyNoticed, DutyOnce, DutyAlone, DutyRead, DutyCurrent, D!At, D!Rest
<1> QED
  BY <1>2, <1>3 DEF DutyInv

\* A runner goes on; nobody else does.
LEMMA DutyGoes ==
  ASSUME NEW mix, DutiesSized(mix), DutyInv(mix), NEW n \in Runner[mix],
         NEW r \in DutySteps(mix), dutyRun' = [dutyRun EXCEPT ![n] = r]
  PROVE  /\ dutyRun' \in [Runner[mix] -> DutySteps(mix)] /\ dutyRun'[n] = r
         /\ \A m \in Runner[mix] \ {n} : dutyRun'[m] = dutyRun[m]
  BY DEF DutyInv, DutyTyped

LEMMA DutyPlanInv ==
  ASSUME NEW mix, DutiesSized(mix), DutyInv(mix),
         D(mix)!Round \/ D(mix)!Tick \/ \E t \in Task[mix] : D(mix)!MarkDone(t) \/ D(mix)!Tell(t)
  PROVE  DutyInv(mix)'
<1> USE DEF DutiesSized, DutyInv
<1>1. UNCHANGED <<copy, dutyRow, event, dutyRun, dutyResult, ran, clash>> \/ D(mix)!Tick
  BY DEF D!Round, D!MarkDone, D!Tell, D!backups, D!checks
<1>2. UNCHANGED <<dutyRow, event, dutyRun, dutyResult, ran, clash, copy>>
  BY <1>1 DEF D!Tick, D!backups, D!checks
<1>3. dutyNow' \in 0 .. MaxDuty[mix]
         /\ alert' \in [D(mix)!Kind -> D(mix)!Never .. MaxDuty[mix]]
  BY DEF D!Round, D!Tick, D!MarkDone, D!Tell, DutyTyped, D!plan, D!Never, D!Kind
<1>4. /\ done' \in [Task[mix] -> D(mix)!Never .. MaxDuty[mix]]
      /\ about' \in [Task[mix] -> D(mix)!Never .. MaxDuty[mix]]
      /\ due' \subseteq Task[mix]
  BY DEF D!Round, D!Tick, D!MarkDone, D!Tell, DutyTyped, D!plan, D!Never
<1>5. DutyTyped(mix)'
  BY <1>2, <1>3, <1>4 DEF DutyTyped
<1>6. DutyPlaced(mix)' /\ DutyNoticed(mix)' /\ DutyOnce(mix)' /\ (~clash'
         => DutyAlone(mix)' /\ DutyRead(mix)' /\ DutyCurrent(mix)')
  BY <1>2 DEF DutyPlaced, DutyNoticed, DutyOnce, DutyAlone, DutyRead, DutyCurrent, D!At
<1> QED
  BY <1>5, <1>6

LEMMA DutyCopyInv ==
  ASSUME NEW mix, DutiesSized(mix), DutyInv(mix), NEW r \in Resource[mix], D(mix)!Copy(r)
  PROVE  DutyInv(mix)'
<1> USE DEF DutiesSized, DutyInv, D!Copy
<1>1. DutyTyped(mix)'
  BY DEF DutyTyped, D!plan, D!checks, D!Never
<1>2. DutyPlaced(mix)' /\ DutyNoticed(mix)' /\ DutyOnce(mix)' /\ (~clash'
         => DutyAlone(mix)' /\ DutyRead(mix)' /\ DutyCurrent(mix)')
  BY DEF DutyPlaced, DutyNoticed, DutyOnce, DutyAlone, DutyRead, DutyCurrent, D!At, D!checks
<1> QED
  BY <1>1, <1>2

LEMMA DutyBeginInv ==
  ASSUME NEW mix, DutiesSized(mix), DutyInv(mix), NEW n \in Runner[mix], D(mix)!Begin(n)
  PROVE  DutyInv(mix)'
<1> USE DEF DutiesSized, DutyInv
<1> DEFINE r == [D(mix)!Rest EXCEPT !.pc = "look", !.left = Resource[mix]]
<1>1. r \in DutySteps(mix) /\ r.pc = "look" /\ r.left = Resource[mix] /\ r.at = 0
  BY DutyRestSteps DEF DutySteps
<1>2. dutyRun' = [dutyRun EXCEPT ![n] = r]
  BY DEF D!Begin
<1> HIDE DEF r
<1>3. dutyRun' \in [Runner[mix] -> DutySteps(mix)] /\ dutyRun'[n] = r
         /\ \A m \in Runner[mix] \ {n} : dutyRun'[m] = dutyRun[m]
  BY <1>1, <1>2, DutyGoes
<1>4. DutyTyped(mix)'
  BY <1>3 DEF D!Begin, DutyTyped, D!plan, D!backups, D!checks, D!At
<1>5. DutyPlaced(mix)' /\ DutyOnce(mix)'
  BY <1>1, <1>3 DEF D!Begin, DutyPlaced, DutyOnce, D!At, D!backups
<1>6. DutyNoticed(mix)'
  BY <1>3 DEF D!Begin, DutyNoticed, DutyPlaced, D!At, D!backups
<1>7. ASSUME ~clash' PROVE DutyAlone(mix)' /\ DutyRead(mix)' /\ DutyCurrent(mix)'
  <2>1. ~clash /\ \A m \in Runner[mix] : D(mix)!At(m, "rest")
    BY <1>7 DEF D!Begin, DutyTyped
  <2>2. DutyAlone(mix)' /\ DutyRead(mix)'
    BY <1>1, <1>3, <2>1 DEF DutyAlone, DutyRead, D!At
  <2>3. DutyCurrent(mix)'
    BY <1>3, <2>1 DEF DutyCurrent, D!Begin, DutyPlaced, D!At, D!checks
  <2> QED
    BY <2>2, <2>3
<1> QED
  BY <1>4, <1>5, <1>6, <1>7

LEMMA DutyLookInv ==
  ASSUME NEW mix, DutiesSized(mix), DutyInv(mix), NEW n \in Runner[mix], D(mix)!Look(n)
  PROVE  DutyInv(mix)'
<1> USE DEF DutiesSized, DutyInv
<1> DEFINE r == D(mix)!First(dutyRun[n].left)
           s == IF D(mix)!Fresh(r) THEN [dutyRun[n] EXCEPT !.left = @ \ {r}]
                ELSE [dutyRun[n] EXCEPT !.pc = "tell", !.left = @ \ {r}, !.at = r]
<1>1. r \in Resource[mix] /\ dutyRun[n].left \subseteq Resource[mix] /\ dutyRun[n].at = 0
  BY DEF D!Look, D!First, DutyPlaced
<1>2. /\ dutyRow' = [dutyRow EXCEPT ![r] = IF D(mix)!Fresh(r) THEN "ok" ELSE "stale"]
      /\ dutyRun' = [dutyRun EXCEPT ![n] = s]
  BY DEF D!Look
<1> HIDE DEF r
<1>3. dutyRun[n] \in DutySteps(mix) /\ dutyRun[n].pc = "look"
  BY DEF D!Look, D!At, DutyTyped
<1>4. /\ s \in DutySteps(mix) /\ s.left \subseteq Resource[mix]
      /\ \/ s.pc = "look" /\ s.at = 0 /\ D(mix)!Fresh(r)
         \/ s.pc = "tell" /\ s.at = r
  <2>1. CASE D(mix)!Fresh(r)
    BY <1>1, <1>3, <2>1 DEF DutySteps
  <2>2. CASE ~D(mix)!Fresh(r)
    BY <1>1, <1>3, <2>2 DEF DutySteps
  <2> QED
    BY <2>1, <2>2
<1> HIDE DEF s
<1>5. dutyRun' \in [Runner[mix] -> DutySteps(mix)] /\ dutyRun'[n] = s
         /\ \A m \in Runner[mix] \ {n} : dutyRun'[m] = dutyRun[m]
  BY <1>2, <1>4, DutyGoes
<1>6. DutyTyped(mix)'
  BY <1>1, <1>2, <1>5 DEF D!Look, DutyTyped, D!plan, D!checks
<1>7. DutyPlaced(mix)' /\ DutyOnce(mix)'
  BY <1>1, <1>4, <1>5 DEF D!Look, DutyPlaced, DutyOnce, D!At
<1>8. DutyNoticed(mix)'
  <2> SUFFICES ASSUME NEW x \in Resource[mix], dutyRow'[x] = "stale"
               PROVE  (\E e \in event' : e[1] = x)
                        \/ \E m \in Runner[mix] : dutyRun'[m].at = x
    BY DEF DutyNoticed
  <2>1. CASE x = r
    BY <1>1, <1>2, <1>4, <1>5, <2>1 DEF DutyTyped
  <2>2. CASE x # r
    <3>1. dutyRow[x] = "stale" /\ event' = event
      BY <1>2, <2>2 DEF DutyTyped, D!Look
    <3> QED
      BY <1>1, <1>5, <3>1 DEF DutyNoticed
  <2> QED
    BY <2>1, <2>2
<1>9. ASSUME ~clash' PROVE DutyAlone(mix)' /\ DutyRead(mix)' /\ DutyCurrent(mix)'
  <2>1. ~clash /\ UNCHANGED <<dutyResult, ran>>
    BY <1>9 DEF D!Look, D!checks
  <2>2. DutyAlone(mix)' /\ DutyRead(mix)'
    BY <1>3, <1>4, <1>5, <2>1 DEF DutyAlone, DutyRead, D!At
  <2>3. DutyCurrent(mix)'
    BY <1>1, <1>5, <2>1 DEF DutyCurrent
  <2> QED
    BY <2>2, <2>3
<1> QED
  BY <1>6, <1>7, <1>8, <1>9

LEMMA DutyDayTyped ==
  ASSUME NEW mix, DutiesSized(mix), DutyInv(mix)
  PROVE  D(mix)!Day(dutyNow) \in 0 .. MaxDuty[mix]
<1>1. dutyNow \in Nat /\ dutyNow <= MaxDuty[mix] /\ Moments[mix] \in Nat \ {0}
         /\ MaxDuty[mix] \in Nat
  BY DEF DutiesSized, DutyInv, DutyTyped
<1>2. dutyNow \div Moments[mix] \in Nat /\ dutyNow \div Moments[mix] <= dutyNow
  BY <1>1
<1> QED
  BY <1>1, <1>2 DEF D!Day

LEMMA DutyTellStaleInv ==
  ASSUME NEW mix, DutiesSized(mix), DutyInv(mix), NEW n \in Runner[mix], D(mix)!TellStale(n)
  PROVE  DutyInv(mix)'
<1> USE DEF DutiesSized, DutyInv
<1> DEFINE s == [dutyRun[n] EXCEPT !.pc = "note", !.day = D(mix)!Day(dutyNow)]
<1>1. dutyRun' = [dutyRun EXCEPT ![n] = s]
  BY DEF D!TellStale, DutyTyped
<1>2. dutyRun[n] \in DutySteps(mix) /\ dutyRun[n].pc = "tell"
  BY DEF D!TellStale, D!At, DutyTyped
<1>3. /\ s \in DutySteps(mix) /\ s.pc = "note" /\ s.at = dutyRun[n].at
      /\ s.left = dutyRun[n].left
      /\ s.day = D(mix)!Day(dutyNow)
  <2>1. D(mix)!Day(dutyNow) \in D(mix)!Never .. MaxDuty[mix]
    BY DutyDayTyped DEF D!Never
  <2> QED
    BY <1>2, <2>1 DEF DutySteps
<1> HIDE DEF s
<1>4. dutyRun' \in [Runner[mix] -> DutySteps(mix)] /\ dutyRun'[n] = s
         /\ \A m \in Runner[mix] \ {n} : dutyRun'[m] = dutyRun[m]
  BY <1>1, <1>3, DutyGoes
<1>5. DutyTyped(mix)'
  BY <1>4 DEF D!TellStale, DutyTyped, D!plan, D!backups, D!checks, D!Kind, D!Never
<1>6. DutyPlaced(mix)' /\ DutyOnce(mix)'
  BY <1>2, <1>3, <1>4, DutyDayTyped DEF D!TellStale, DutyPlaced, DutyOnce, D!At, D!backups
<1>7. DutyNoticed(mix)'
  BY <1>3, <1>4 DEF D!TellStale, DutyNoticed, D!backups
<1>8. ASSUME ~clash' PROVE DutyAlone(mix)' /\ DutyRead(mix)' /\ DutyCurrent(mix)'
  BY <1>2, <1>3, <1>4, <1>8 DEF D!TellStale, DutyAlone, DutyRead, DutyCurrent, D!At,
     D!checks
<1> QED
  BY <1>5, <1>6, <1>7, <1>8

LEMMA DutyNoteInv ==
  ASSUME NEW mix, DutiesSized(mix), DutyInv(mix), NEW n \in Runner[mix], D(mix)!Note(n)
  PROVE  DutyInv(mix)'
<1> USE DEF DutiesSized, DutyInv
<1> DEFINE s == [dutyRun[n] EXCEPT !.pc = "look", !.at = 0]
           x == dutyRun[n].at
           d == dutyRun[n].day
<1>1. dutyRun' = [dutyRun EXCEPT ![n] = s]
  BY DEF D!Note, DutyTyped
<1>2. dutyRun[n] \in DutySteps(mix) /\ dutyRun[n].pc = "note" /\ x \in Resource[mix]
         /\ d \in 0 .. MaxDuty[mix] /\ dutyRun[n].left \subseteq Resource[mix]
  BY DEF D!Note, D!At, DutyTyped, DutyPlaced
<1>3. s \in DutySteps(mix) /\ s.pc = "look" /\ s.at = 0 /\ s.left = dutyRun[n].left
  BY <1>2 DEF DutySteps
<1> HIDE DEF s
<1>4. dutyRun' \in [Runner[mix] -> DutySteps(mix)] /\ dutyRun'[n] = s
         /\ \A m \in Runner[mix] \ {n} : dutyRun'[m] = dutyRun[m]
  BY <1>1, <1>3, DutyGoes
<1>5. \/ event' = event /\ D(mix)!Noted(x, d)
      \/ event' = event \cup {<<x, d, n>>} /\ ~D(mix)!Noted(x, d)
  <2>1. CASE D(mix)!Noted(x, d)
    BY <2>1 DEF D!Note
  <2>2. CASE ~D(mix)!Noted(x, d)
    BY <2>2 DEF D!Note
  <2> QED
    BY <2>1, <2>2
<1>6. /\ event' \subseteq (Resource[mix] \X (0 .. MaxDuty[mix]) \X Runner[mix])
      /\ event \subseteq event' /\ \E e \in event' : e[1] = x
  <2>1. CASE event' = event /\ D(mix)!Noted(x, d)
    BY <2>1 DEF D!Noted, DutyTyped
  <2>2. CASE event' = event \cup {<<x, d, n>>}
    <3>1. <<x, d, n>> \in Resource[mix] \X (0 .. MaxDuty[mix]) \X Runner[mix]
      BY <1>2
    <3> QED
      BY <2>2, <3>1 DEF DutyTyped
  <2> QED
    BY <1>5, <2>1, <2>2
<1>7. DutyTyped(mix)'
  BY <1>4, <1>6 DEF D!Note, DutyTyped, D!plan, D!checks
<1>8. DutyPlaced(mix)'
  BY <1>2, <1>3, <1>4 DEF DutyPlaced, D!At
<1>9. DutyOnce(mix)'
  BY <1>5 DEF DutyOnce, D!Noted
<1>10. DutyNoticed(mix)'
  <2> SUFFICES ASSUME NEW y \in Resource[mix], dutyRow'[y] = "stale"
               PROVE  (\E e \in event' : e[1] = y)
                        \/ \E m \in Runner[mix] : dutyRun'[m].at = y
    BY DEF DutyNoticed
  <2>1. dutyRow[y] = "stale"
    BY DEF D!Note
  <2> QED
    BY <1>4, <1>6, <2>1 DEF DutyNoticed
<1>11. ASSUME ~clash' PROVE DutyAlone(mix)' /\ DutyRead(mix)' /\ DutyCurrent(mix)'
  <2>1. ~clash /\ UNCHANGED <<dutyResult, ran>>
    BY <1>11 DEF D!Note, D!checks
  <2>2. DutyAlone(mix)' /\ DutyRead(mix)'
    BY <1>2, <1>3, <1>4, <2>1 DEF DutyAlone, DutyRead, D!At
  <2>3. x \notin Custom[mix]
    BY <1>2
  <2>4. DutyCurrent(mix)'
    BY <1>4, <2>1, <2>3 DEF DutyCurrent
  <2> QED
    BY <2>2, <2>4
<1> QED
  BY <1>7, <1>8, <1>9, <1>10, <1>11

LEMMA DutyFinishInv ==
  ASSUME NEW mix, DutiesSized(mix), DutyInv(mix), NEW n \in Runner[mix], D(mix)!Finish(n)
  PROVE  DutyInv(mix)'
<1> USE DEF DutiesSized, DutyInv
<1>1. D(mix)!Rest \in DutySteps(mix) /\ D(mix)!Rest.pc = "rest" /\ D(mix)!Rest.at = 0
  BY DutyRestSteps
<1>2. dutyRun' \in [Runner[mix] -> DutySteps(mix)] /\ dutyRun'[n] = D(mix)!Rest
         /\ \A m \in Runner[mix] \ {n} : dutyRun'[m] = dutyRun[m]
  BY <1>1, DutyGoes DEF D!Finish
<1>3. DutyTyped(mix)'
  BY <1>2 DEF D!Finish, DutyTyped, D!plan, D!backups, D!checks
<1>4. DutyPlaced(mix)' /\ DutyOnce(mix)'
  BY <1>1, <1>2 DEF D!Finish, DutyPlaced, DutyOnce, D!At, D!backups
<1>5. dutyRun[n].at = 0
  BY DEF D!Finish, DutyPlaced
<1>6. DutyNoticed(mix)'
  BY <1>2, <1>5 DEF D!Finish, DutyNoticed, D!backups
<1>7. ASSUME ~clash' PROVE DutyAlone(mix)' /\ DutyRead(mix)' /\ DutyCurrent(mix)'
  BY <1>1, <1>2, <1>5, <1>7 DEF D!Finish, DutyAlone, DutyRead, DutyCurrent, D!At, D!checks
<1> QED
  BY <1>3, <1>4, <1>6, <1>7

LEMMA DutyRunCheckInv ==
  ASSUME NEW mix, DutiesSized(mix), DutyInv(mix), NEW n \in Runner[mix],
         NEW c \in Custom[mix], D(mix)!RunCheck(n, c)
  PROVE  DutyInv(mix)'
<1> USE DEF DutiesSized, DutyInv
<1> DEFINE s == [D(mix)!Rest EXCEPT !.pc = "read", !.at = c]
<1>1. s \in DutySteps(mix) /\ s.pc = "read" /\ s.at = c
  BY DutyRestSteps DEF DutySteps
<1>2. dutyRun' = [dutyRun EXCEPT ![n] = s]
  BY DEF D!RunCheck
<1> HIDE DEF s
<1>3. dutyRun' \in [Runner[mix] -> DutySteps(mix)] /\ dutyRun'[n] = s
         /\ \A m \in Runner[mix] \ {n} : dutyRun'[m] = dutyRun[m]
  BY <1>1, <1>2, DutyGoes
<1>4. ran' = [ran EXCEPT ![c] = @ + 1] /\ ran' \in [Custom[mix] -> Nat]
         /\ dutyResult' = dutyResult
  BY DEF D!RunCheck, DutyTyped
<1>5. DutyTyped(mix)'
  BY <1>3, <1>4 DEF D!RunCheck, DutyTyped, D!plan, D!backups, D!At
<1>6. DutyPlaced(mix)' /\ DutyOnce(mix)'
  BY <1>1, <1>3 DEF D!RunCheck, DutyPlaced, DutyOnce, D!At, D!backups
<1>7. DutyNoticed(mix)'
  BY <1>3 DEF D!RunCheck, DutyNoticed, DutyPlaced, D!At, D!backups
<1>8. ASSUME ~clash' PROVE DutyAlone(mix)' /\ DutyRead(mix)' /\ DutyCurrent(mix)'
  <2>1. ~clash /\ \A m \in Runner[mix] : D(mix)!At(m, "rest")
    BY <1>8 DEF D!RunCheck, DutyTyped
  <2>2. DutyAlone(mix)' /\ DutyRead(mix)'
    BY <1>1, <1>3, <2>1 DEF DutyAlone, DutyRead, D!At
  <2>3. DutyCurrent(mix)'
    BY <1>1, <1>3, <1>4, <2>1 DEF DutyCurrent, DutyPlaced, DutyTyped
  <2> QED
    BY <2>2, <2>3
<1> QED
  BY <1>5, <1>6, <1>7, <1>8

LEMMA DutyReadResultsInv ==
  ASSUME NEW mix, DutiesSized(mix), DutyInv(mix), NEW n \in Runner[mix],
         D(mix)!ReadResults(n)
  PROVE  DutyInv(mix)'
<1> USE DEF DutiesSized, DutyInv
<1> DEFINE g == [dutyResult EXCEPT ![dutyRun[n].at] = ran[dutyRun[n].at]]
           s == [dutyRun[n] EXCEPT !.pc = "put", !.got = g]
<1>1. dutyRun' = [dutyRun EXCEPT ![n] = s]
  BY DEF D!ReadResults, DutyTyped
<1>2. dutyRun[n] \in DutySteps(mix) /\ dutyRun[n].pc = "read"
         /\ dutyRun[n].at \in Custom[mix]
  BY DEF D!ReadResults, D!At, DutyTyped, DutyPlaced
<1>3. g \in [Custom[mix] -> Nat]
         /\ \A c \in Custom[mix] : g[c] = IF c = dutyRun[n].at THEN ran[c] ELSE dutyResult[c]
  BY <1>2 DEF DutyTyped
<1> HIDE DEF g
<1>4. s \in DutySteps(mix) /\ s.pc = "put" /\ s.at = dutyRun[n].at /\ s.got = g
  BY <1>2, <1>3 DEF DutySteps
<1> HIDE DEF s
<1>5. dutyRun' \in [Runner[mix] -> DutySteps(mix)] /\ dutyRun'[n] = s
         /\ \A m \in Runner[mix] \ {n} : dutyRun'[m] = dutyRun[m]
  BY <1>1, <1>4, DutyGoes
<1>6. UNCHANGED <<dutyResult, ran, dutyRow, event, clash>>
  BY DEF D!ReadResults, D!backups, D!checks
<1>7. DutyTyped(mix)'
  BY <1>5 DEF D!ReadResults, DutyTyped, D!plan, D!backups, D!checks
<1>8. DutyPlaced(mix)' /\ DutyOnce(mix)' /\ DutyNoticed(mix)'
  BY <1>2, <1>4, <1>5, <1>6 DEF DutyPlaced, DutyOnce, DutyNoticed, D!At
<1>9. ASSUME ~clash' PROVE DutyAlone(mix)' /\ DutyRead(mix)' /\ DutyCurrent(mix)'
  BY <1>2, <1>3, <1>4, <1>5, <1>6, <1>9 DEF DutyAlone, DutyRead, DutyCurrent, D!At
<1> QED
  BY <1>7, <1>8, <1>9

LEMMA DutyPutResultsInv ==
  ASSUME NEW mix, DutiesSized(mix), DutyInv(mix), NEW n \in Runner[mix],
         D(mix)!PutResults(n)
  PROVE  DutyInv(mix)'
<1> USE DEF DutiesSized, DutyInv
<1>1. D(mix)!Rest \in DutySteps(mix) /\ D(mix)!Rest.pc = "rest" /\ D(mix)!Rest.at = 0
  BY DutyRestSteps
<1>2. dutyRun' \in [Runner[mix] -> DutySteps(mix)] /\ dutyRun'[n] = D(mix)!Rest
         /\ \A m \in Runner[mix] \ {n} : dutyRun'[m] = dutyRun[m]
  BY <1>1, DutyGoes DEF D!PutResults
<1>3. dutyRun[n] \in DutySteps(mix) /\ dutyRun[n].pc = "put" /\ dutyRun[n].at \in Custom[mix]
  BY DEF D!PutResults, D!At, DutyTyped, DutyPlaced
<1>4. dutyResult' = dutyRun[n].got /\ dutyResult' \in [Custom[mix] -> Nat] /\ ran' = ran
  BY <1>3 DEF D!PutResults, D!Merged, DutySteps
<1>5. DutyTyped(mix)'
  BY <1>2, <1>4 DEF D!PutResults, DutyTyped, D!plan, D!backups
<1>6. DutyPlaced(mix)' /\ DutyOnce(mix)'
  BY <1>1, <1>2 DEF D!PutResults, DutyPlaced, DutyOnce, D!At, D!backups
<1>7. DutyNoticed(mix)'
  <2>1. dutyRun[n].at \notin Resource[mix]
    BY <1>3
  <2> QED
    BY <1>2, <2>1 DEF D!PutResults, DutyNoticed, D!backups
<1>8. ASSUME ~clash' PROVE DutyAlone(mix)' /\ DutyRead(mix)' /\ DutyCurrent(mix)'
  <2>1. ~clash
    BY <1>8 DEF D!PutResults
  <2>2. \A m \in Runner[mix] : D(mix)!At(m, "rest")'
    BY <1>1, <1>2, <1>3, <2>1 DEF DutyAlone, D!At
  <2>3. DutyAlone(mix)' /\ DutyRead(mix)'
    BY <2>2 DEF DutyAlone, DutyRead, D!At
  <2>4. \A m \in Runner[mix] \ {n} : dutyRun[m].at = 0
    BY <1>3, <2>1 DEF DutyAlone, DutyPlaced, D!At
  <2>5. \A c \in Custom[mix] : dutyResult'[c] = ran[c] \/ (c # dutyRun[n].at
           /\ dutyResult'[c] = dutyResult[c])
    BY <1>3, <1>4, <2>1 DEF DutyRead, D!At
  <2>6. ASSUME NEW c \in Custom[mix] PROVE dutyResult'[c] = ran[c]
    <3>1. c # 0
      OBVIOUS
    <3>2. CASE dutyResult'[c] = ran[c]
      BY <3>2
    <3>3. CASE c # dutyRun[n].at /\ dutyResult'[c] = dutyResult[c]
      <4>1. \A m \in Runner[mix] : dutyRun[m].at # c
        BY <2>4, <3>1, <3>3
      <4> QED
        BY <2>1, <3>3, <4>1 DEF DutyCurrent
    <3> QED
      BY <2>5, <3>2, <3>3
  <2>7. DutyCurrent(mix)'
    BY <1>4, <2>6 DEF DutyCurrent
  <2> QED
    BY <2>3, <2>7
<1> QED
  BY <1>5, <1>6, <1>7, <1>8

LEMMA DutyNextInv ==
  ASSUME NEW mix, DutiesSized(mix), DutyInv(mix), [D(mix)!Next]_dutyVars
  PROVE  DutyInv(mix)'
<1>1. CASE UNCHANGED dutyVars
  BY <1>1 DEF dutyVars, DutyInv, DutyTyped, DutyPlaced, DutyNoticed, DutyOnce, DutyAlone,
     DutyRead, DutyCurrent, D!At
<1> QED
  BY <1>1, DutyPlanInv, DutyCopyInv, DutyBeginInv, DutyLookInv, DutyTellStaleInv,
     DutyNoteInv, DutyFinishInv, DutyRunCheckInv,
     DutyReadResultsInv, DutyPutResultsInv DEF D!Next

LEMMA DutySound ==
  ASSUME NEW mix, DutiesSized(mix), DutyInv(mix)
  PROVE  D(mix)!TypeOK /\ D(mix)!DutiesDone
  BY DEF DutyInv, D!TypeOK, DutyTyped, DutySteps, D!DutiesDone, DutyNoticed, DutyOnce,
     DutyCurrent

-----------------------------------------------------------------------------
(* The quotas: what was counted has gone through, and the answers are no more*)
(* than the table holds.                                                    *)

LEMMA QuotaCount == \A s : Q!Cardinality(s) = Cardinality(s)
  BY Zenon DEF Q!Cardinality, Cardinality

QuotaCalls == [pc : {"rest", "sum", "alert", "keep"}, at : 0 .. MaxWait, used : Nat]

QuotaTyped ==
    /\ quotaNow \in 0 .. MaxWait /\ quotaSince \in 0 .. MaxWait
    /\ counter \in [Nic -> Q!Never .. MaxBytes + 1]
    /\ quotaLast \in [Nic -> Q!Never .. MaxBytes + 1]
    /\ speed \in 0 .. MaxBytes /\ total \in Nat /\ moved \in 0 .. MaxBytes
    /\ ticks \in 0 .. MaxTicks /\ rows \in Nat
    /\ cache \in [at : Q!Never .. MaxWait, used : Nat]
    /\ quotaMark \in Q!Never .. MaxWait
    /\ quotaTold \in [Q!Level -> Q!Never .. MaxWait]
    /\ ask \in [Reader -> QuotaCalls]

\* What was counted and what the next look will count has gone through.
QuotaThrough == /\ total + Cardinality(Q!Growth) <= moved
                /\ \A n \in Nic : counter[n] <= moved + 1

\* The answers of today are no more than the table holds, and none is of later.
QuotaWithin == /\ quotaSince <= quotaNow
               /\ cache.at <= quotaNow /\ (cache.at >= quotaSince => cache.used <= rows)
               /\ \A r \in Reader : /\ ask[r].at <= quotaNow
                                    /\ ask[r].at >= quotaSince => ask[r].used <= rows

\* The mark is a time at which a level was told.
QuotaMarked == /\ quotaMark # Q!Never => \E l \in Q!Level : quotaTold[l] = quotaMark
               /\ quotaMark <= quotaNow /\ \A l \in Q!Level : quotaTold[l] <= quotaNow
               /\ \A r \in Reader : ask[r].pc = "keep" /\ Q!LevelOf(ask[r].used) # {}
                     => \E l \in Q!Level : quotaTold[l] # Q!Never
                        /\ quotaTold[l] >= ask[r].at - Hour

QuotaInv == QuotaTyped /\ QuotaThrough /\ QuotaWithin /\ QuotaMarked

\* What the next look will count is finite.
LEMMA QuotaGrowthFinite ==
  ASSUME QuotaSized, QuotaTyped
  PROVE  /\ Q!Growth \subseteq Nic \X (0 .. MaxBytes + 1) /\ IsFiniteSet(Q!Growth)
         /\ Cardinality(Q!Growth) \in Nat
         /\ \A n, b : <<n, b>> \in Q!Growth <=> n \in Nic /\ b \in Q!Grown(n)
<1>1. \A n, b : <<n, b>> \in Q!Growth <=> n \in Nic /\ b \in Q!Grown(n)
  BY DEF Q!Growth
<1>2. \A n \in Nic : Q!Grown(n) \subseteq 0 .. MaxBytes + 1
  <2> SUFFICES ASSUME NEW n \in Nic PROVE Q!Grown(n) \subseteq 0 .. MaxBytes + 1
    OBVIOUS
  <2>1. counter[n] \in Q!Never .. MaxBytes + 1 /\ quotaLast[n] \in Q!Never .. MaxBytes + 1
    BY DEF QuotaTyped
  <2> QED
    BY <2>1 DEF Q!Grown, Q!Never, QuotaSized
<1>3. Q!Growth \subseteq Nic \X (0 .. MaxBytes + 1)
  BY <1>2 DEF Q!Growth
<1>4. IsFiniteSet(Nic \X (0 .. MaxBytes + 1))
  <2>1. 0 \in Int /\ MaxBytes + 1 \in Int
    BY DEF QuotaSized
  <2>2. IsFiniteSet(0 .. MaxBytes + 1)
    BY <2>1, FS_Interval
  <2> QED
    BY <2>2, FS_Product DEF QuotaSized
<1> QED
  BY <1>1, <1>3, <1>4, FS_Subset, FS_CardinalityType

LEMMA QuotaInitInv == ASSUME QuotaSized, Q!Init PROVE QuotaInv
<1> USE DEF QuotaSized, Q!Init
<1>1. Q!Growth = {}
  BY DEF Q!Growth, Q!Grown
<1>2. Q!Rest \in QuotaCalls
  BY DEF Q!Rest, QuotaCalls
<1>3. /\ quotaNow \in 0 .. MaxWait /\ quotaSince \in 0 .. MaxWait
      /\ quotaMark \in Q!Never .. MaxWait
      /\ cache \in [at : Q!Never .. MaxWait, used : Nat]
      /\ speed \in 0 .. MaxBytes /\ total \in Nat /\ moved \in 0 .. MaxBytes
      /\ ticks \in 0 .. MaxTicks /\ rows \in Nat
  BY DEF Q!Never
<1>4. counter \in [Nic -> Q!Never .. MaxBytes + 1]
         /\ quotaLast \in [Nic -> Q!Never .. MaxBytes + 1]
  BY DEF Q!Never
<1>5. quotaTold \in [Q!Level -> Q!Never .. MaxWait] /\ ask \in [Reader -> QuotaCalls]
  BY <1>2 DEF Q!Never
<1>6. QuotaTyped
  BY <1>3, <1>4, <1>5 DEF QuotaTyped
<1>7. QuotaThrough
  BY <1>1, FS_EmptySet DEF QuotaThrough
<1>8. QuotaWithin /\ QuotaMarked
  BY DEF QuotaWithin, QuotaMarked, Q!Rest, Q!Never
<1> QED
  BY <1>6, <1>7, <1>8 DEF QuotaInv

LEMMA QuotaMoveInv == ASSUME QuotaSized, QuotaInv, NEW n \in Nic, Q!Move(n) PROVE QuotaInv'
<1> USE DEF QuotaSized, QuotaInv, Q!Move
<1>1. counter' \in [Nic -> Q!Never .. MaxBytes + 1] /\ moved' \in 0 .. MaxBytes
  <2>1. counter[n] \in Q!Never .. MaxBytes + 1 /\ moved \in Nat /\ counter[n] <= moved + 1
    BY DEF QuotaTyped, QuotaThrough
  <2>2. counter[n] + 1 \in Q!Never .. MaxBytes + 1 /\ moved' \in 0 .. MaxBytes
    BY <2>1 DEF Q!Never
  <2> QED
    BY <2>2 DEF QuotaTyped
<1>2. QuotaTyped'
  BY <1>1 DEF QuotaTyped, Q!quota
<1>3. QuotaWithin' /\ QuotaMarked'
  BY DEF QuotaWithin, QuotaMarked, Q!quota, Q!LevelOf
<1>4. counter'[n] = counter[n] + 1 /\ \A m \in Nic \ {n} : counter'[m] = counter[m]
  BY DEF QuotaTyped
<1>5. \A m \in Nic : \A b : b \in Q!Grown(m)' => b \in Q!Grown(m) \/ (m = n
         /\ b = counter'[n])
  <2> SUFFICES ASSUME NEW m \in Nic, NEW b, b \in Q!Grown(m)'
               PROVE b \in Q!Grown(m) \/ (m = n /\ b = counter'[n])
    OBVIOUS
  <2>1. quotaLast[m] \in Int /\ counter[m] \in Int /\ quotaLast' = quotaLast
    BY DEF QuotaTyped, Q!Never
  <2>2. CASE m = n
    <3>1. quotaLast[n] # Q!Never /\ counter'[n] = counter[n] + 1
             /\ b \in quotaLast[n] + 1 .. counter[n] + 1
      BY <1>4, <2>1, <2>2 DEF Q!Grown
    <3> QED
      BY <2>1, <2>2, <3>1 DEF Q!Grown
  <2>3. CASE m # n
    BY <1>4, <2>1, <2>3 DEF Q!Grown
  <2> QED
    BY <2>2, <2>3
<1> DEFINE x == <<n, counter'[n]>>
<1>6. Q!Growth' \subseteq Q!Growth \cup {x}
  BY <1>5 DEF Q!Growth
<1>7. /\ Cardinality(Q!Growth') <= Cardinality(Q!Growth) + 1
      /\ Cardinality(Q!Growth') \in Nat /\ Cardinality(Q!Growth) \in Nat
  <2>1. IsFiniteSet(Q!Growth) /\ Cardinality(Q!Growth) \in Nat
    BY QuotaGrowthFinite
  <2>2. Cardinality(Q!Growth \cup {x}) \in Nat
           /\ Cardinality(Q!Growth \cup {x}) <= Cardinality(Q!Growth) + 1
    BY <2>1, OneAdded
  <2>3. IsFiniteSet(Q!Growth \cup {x})
    BY <2>1, FS_AddElement
  <2>4. IsFiniteSet(Q!Growth') /\ Cardinality(Q!Growth') <= Cardinality(Q!Growth \cup {x})
    BY <1>6, <2>3, FS_Subset
  <2>5. Cardinality(Q!Growth') \in Nat
    BY <2>4, FS_CardinalityType
  <2> QED
    BY <2>1, <2>2, <2>4, <2>5
<1>9. QuotaThrough'
  <2>1. \A m \in Nic : counter'[m] <= moved' + 1
    BY <1>4 DEF QuotaThrough, QuotaTyped
  <2>2. total' = total /\ moved' = moved + 1
    OBVIOUS
  <2>3. total + Cardinality(Q!Growth) <= moved
    BY DEF QuotaThrough
  <2> QED
    BY <1>7, <2>1, <2>2, <2>3 DEF QuotaThrough, QuotaTyped
<1> QED
  BY <1>2, <1>3, <1>9

LEMMA QuotaReplugInv ==
  ASSUME QuotaSized, QuotaInv, NEW n \in Nic, Q!Replug(n)
  PROVE  QuotaInv'
<1> USE DEF QuotaSized, QuotaInv, Q!Replug
<1>1. counter' \in [Nic -> Q!Never .. MaxBytes + 1]
  BY DEF QuotaTyped, Q!Never
<1>2. QuotaTyped'
  BY <1>1 DEF QuotaTyped, Q!quota
<1>3. QuotaWithin' /\ QuotaMarked'
  BY DEF QuotaWithin, QuotaMarked, Q!quota, Q!LevelOf
<1>4. counter'[n] \in {0, Q!Never} /\ \A m \in Nic \ {n} : counter'[m] = counter[m]
  BY DEF QuotaTyped
<1>5. \A m \in Nic : \A b : b \in Q!Grown(m)' => b \in Q!Grown(m)
  <2> SUFFICES ASSUME NEW m \in Nic, NEW b, b \in Q!Grown(m)' PROVE b \in Q!Grown(m)
    OBVIOUS
  <2>1. quotaLast[m] \in Q!Never .. MaxBytes + 1 /\ quotaLast' = quotaLast
    BY DEF QuotaTyped, Q!Never
  <2>2. CASE m = n
    BY <1>4, <2>1, <2>2 DEF Q!Grown, Q!Never
  <2>3. CASE m # n
    BY <1>4, <2>1, <2>3 DEF Q!Grown
  <2> QED
    BY <2>2, <2>3
<1>6. Q!Growth' \subseteq Q!Growth
  BY <1>5 DEF Q!Growth
<1>7. Cardinality(Q!Growth') <= Cardinality(Q!Growth) /\ Cardinality(Q!Growth') \in Nat
         /\ Cardinality(Q!Growth) \in Nat
  BY <1>6, QuotaGrowthFinite, FS_Subset, FS_CardinalityType
<1>8. QuotaThrough'
  <2>1. \A m \in Nic : counter'[m] <= moved' + 1
    BY <1>4 DEF QuotaThrough, QuotaTyped, Q!Never
  <2> QED
    BY <1>7, <2>1 DEF QuotaThrough, QuotaTyped
<1> QED
  BY <1>2, <1>3, <1>8

LEMMA QuotaLookInv == ASSUME QuotaSized, QuotaInv, Q!Look PROVE QuotaInv'
<1> USE DEF QuotaSized, QuotaInv, Q!Look
<1>1. quotaLast' \in [Nic -> Q!Never .. MaxBytes + 1]
  BY DEF QuotaTyped, Q!Never
<1>2. Cardinality(Q!Growth) \in Nat /\ total + Cardinality(Q!Growth) <= moved
  BY QuotaGrowthFinite DEF QuotaThrough
<1>3. speed' \in 0 .. MaxBytes /\ total' \in Nat /\ total' <= moved
  BY <1>2, QuotaCount DEF QuotaTyped
<1>4. QuotaTyped'
  BY <1>1, <1>3 DEF QuotaTyped, Q!quota
<1>5. QuotaWithin' /\ QuotaMarked'
  BY DEF QuotaWithin, QuotaMarked, Q!quota, Q!LevelOf
<1>6. \A n \in Nic : Q!Grown(n)' = {}
  <2> SUFFICES ASSUME NEW n \in Nic PROVE Q!Grown(n)' = {}
    OBVIOUS
  <2>1. counter' = counter /\ counter[n] \in Int
           /\ quotaLast'[n] = IF counter[n] = 0 THEN Q!Never ELSE counter[n]
    BY DEF QuotaTyped, Q!Never
  <2> QED
    BY <2>1 DEF Q!Grown, Q!Never
<1>7. Q!Growth' = {}
  BY <1>6 DEF Q!Growth
<1>8. QuotaThrough'
  BY <1>3, <1>7, FS_EmptySet DEF QuotaThrough, QuotaTyped
<1> QED
  BY <1>4, <1>5, <1>8

\* What is counted does not hang on what is asked.
LEMMA QuotaThroughStays ==
  ASSUME QuotaThrough, UNCHANGED Q!counters
  PROVE  QuotaThrough'
<1>1. Q!Growth' = Q!Growth
  BY DEF Q!Growth, Q!Grown, Q!counters
<1> QED
  BY <1>1 DEF QuotaThrough, Q!counters

\* A call goes on; nobody else's does.
LEMMA QuotaGoes ==
  ASSUME QuotaSized, QuotaInv, NEW r \in Reader, NEW c \in QuotaCalls,
         ask' = [ask EXCEPT ![r] = c]
  PROVE  /\ ask' \in [Reader -> QuotaCalls] /\ ask'[r] = c
         /\ \A s \in Reader \ {r} : ask'[s] = ask[s]
  BY DEF QuotaInv, QuotaTyped

\* A call before its answer.
LEMMA QuotaAskingInv ==
  ASSUME QuotaSized, QuotaInv, NEW r \in Reader, NEW c \in QuotaCalls,
         ask' = [ask EXCEPT ![r] = c],
         c.pc # "keep", c.used <= rows', c.at <= quotaNow, rows' \in Nat, rows' >= rows,
         ticks' \in 0 .. MaxTicks, UNCHANGED <<quotaNow, quotaSince, Q!counters, cache, quotaMark,
                                               quotaTold>>
  PROVE  QuotaInv'
<1> USE DEF QuotaSized, QuotaInv
<1>1. ask' \in [Reader -> QuotaCalls] /\ ask'[r] = c
         /\ \A s \in Reader \ {r} : ask'[s] = ask[s]
  BY QuotaGoes
<1>2. QuotaTyped'
  BY <1>1 DEF QuotaTyped, Q!counters
<1>3. QuotaThrough'
  BY QuotaThroughStays
<1>4. \A s \in Reader : ask[s] \in QuotaCalls
  BY DEF QuotaTyped
<1>5. QuotaWithin'
  BY <1>1, <1>4 DEF QuotaWithin, QuotaCalls, QuotaTyped
<1>6. QuotaMarked'
  <2>1. \A s \in Reader : ask'[s].pc = "keep" => ask'[s] = ask[s]
    BY <1>1
  <2> QED
    BY <2>1 DEF QuotaMarked, Q!LevelOf
<1> QED
  BY <1>2, <1>3, <1>5, <1>6

LEMMA QuotaBeginsTyped ==
  ASSUME QuotaSized, QuotaInv
  PROVE  LET c == [Q!Rest EXCEPT !.pc = "sum", !.at = quotaNow]
         IN  c \in QuotaCalls /\ c.pc = "sum" /\ c.used = 0 /\ c.at = quotaNow
  BY DEF Q!Rest, QuotaCalls, QuotaInv, QuotaTyped

LEMMA QuotaTickOnlyInv == ASSUME QuotaSized, QuotaInv, Q!TickOnly PROVE QuotaInv'
<1> USE DEF QuotaSized, QuotaInv
<1>1. ticks' \in 0 .. MaxTicks
         /\ UNCHANGED <<quotaNow, quotaSince, Q!counters, cache, quotaMark, quotaTold>>
  BY DEF Q!TickOnly, QuotaTyped
<1>2. CASE UNCHANGED <<rows, ask>>
  <2>1. QuotaTyped'
    BY <1>1, <1>2 DEF QuotaTyped, Q!counters
  <2>2. QuotaThrough'
    BY <1>1, QuotaThroughStays
  <2>3. QuotaWithin' /\ QuotaMarked'
    BY <1>1, <1>2 DEF QuotaWithin, QuotaMarked, Q!LevelOf
  <2> QED
    BY <2>1, <2>2, <2>3
<1>3. CASE /\ rows' = rows + speed * Period
           /\ ask' = [ask EXCEPT ![Ticker] = [Q!Rest EXCEPT !.pc = "sum", !.at = quotaNow]]
  <2>1. rows' \in Nat /\ rows' >= rows
    <3>1. rows \in Nat /\ speed \in Nat /\ speed * Period \in Nat
      BY DEF QuotaTyped
    <3> QED
      BY <1>3, <3>1
  <2> DEFINE c == [Q!Rest EXCEPT !.pc = "sum", !.at = quotaNow]
  <2>2. c \in QuotaCalls /\ c.pc = "sum" /\ c.used = 0 /\ c.at = quotaNow
    BY QuotaBeginsTyped
  <2> HIDE DEF c
  <2>3. ask' = [ask EXCEPT ![Ticker] = c] /\ c.pc # "keep" /\ c.used <= rows'
           /\ c.at <= quotaNow
    BY <1>3, <2>1, <2>2 DEF c, QuotaTyped
  <2> QED
    BY <1>1, <2>1, <2>2, <2>3, QuotaAskingInv
<1> QED
  BY <1>2, <1>3 DEF Q!TickOnly

LEMMA QuotaAskInv == ASSUME QuotaSized, QuotaInv, NEW r \in Reader, Q!Ask(r) PROVE QuotaInv'
<1> USE DEF QuotaSized, QuotaInv
<1> DEFINE c == [Q!Rest EXCEPT !.pc = "sum", !.at = quotaNow]
<1>1. c \in QuotaCalls /\ c.pc = "sum" /\ c.used = 0 /\ c.at = quotaNow
  BY QuotaBeginsTyped
<1>2. ask' = [ask EXCEPT ![r] = c]
         /\ UNCHANGED <<quotaNow, quotaSince, Q!counters, cache, quotaMark, quotaTold, ticks, rows>>
  BY DEF Q!Ask
<1> HIDE DEF c
<1>3. c.pc # "keep" /\ c.used <= rows' /\ c.at <= quotaNow /\ rows' \in Nat /\ rows' >= rows
      /\ ticks' \in 0 .. MaxTicks
  BY <1>1, <1>2 DEF QuotaTyped
<1> QED
  BY <1>1, <1>2, <1>3, QuotaAskingInv

LEMMA QuotaSumInv == ASSUME QuotaSized, QuotaInv, NEW r \in Reader, Q!Sum(r) PROVE QuotaInv'
<1> USE DEF QuotaSized, QuotaInv
<1> DEFINE c ==
       IF Q!Cached(r) THEN Q!Rest ELSE [ask[r] EXCEPT !.pc = "alert", !.used = rows]
<1>0. ask[r] \in QuotaCalls /\ rows \in Nat /\ quotaNow \in Nat
  BY DEF QuotaTyped
<1>1. ask' = [ask EXCEPT ![r] = c]
         /\ UNCHANGED <<quotaNow, quotaSince, Q!counters, cache, quotaMark, quotaTold, ticks, rows>>
  BY DEF Q!Sum, QuotaTyped
<1>2. c \in QuotaCalls /\ c.pc # "keep" /\ c.used <= rows /\ c.at <= quotaNow
  <2>1. CASE Q!Cached(r)
    BY <1>0, <2>1 DEF Q!Rest, QuotaCalls
  <2>2. CASE ~Q!Cached(r)
    <3>1. ask[r].at <= quotaNow
      BY DEF QuotaWithin
    <3> DEFINE d == [ask[r] EXCEPT !.pc = "alert", !.used = rows]
    <3>2. d \in QuotaCalls /\ d.pc = "alert" /\ d.used = rows /\ d.at = ask[r].at
      BY <1>0 DEF QuotaCalls
    <3>3. c = d
      BY <2>2
    <3> HIDE DEF c, d
    <3> QED
      BY <1>0, <3>1, <3>2, <3>3
  <2> QED
    BY <2>1, <2>2
<1> HIDE DEF c
<1>3. c.used <= rows' /\ rows' \in Nat /\ rows' >= rows /\ ticks' \in 0 .. MaxTicks
  BY <1>1, <1>2 DEF QuotaTyped
<1> QED
  BY <1>1, <1>2, <1>3, QuotaAskingInv

LEMMA QuotaAlertInv ==
  ASSUME QuotaSized, QuotaInv, NEW r \in Reader, Q!Alert(r)
  PROVE  QuotaInv'
<1> USE DEF QuotaSized, QuotaInv
<1> DEFINE levels == IF quotaMark # Q!Never
       /\ quotaNow - quotaMark < Hour THEN {} ELSE Q!LevelOf(ask[r].used)
           c == [ask[r] EXCEPT !.pc = "keep"]
<1>1. /\ quotaTold' = [l \in Q!Level |-> IF l \in levels THEN quotaNow ELSE quotaTold[l]]
      /\ quotaMark' = IF levels = {} THEN quotaMark ELSE quotaNow
      /\ ask' = [ask EXCEPT ![r] = c]
      /\ UNCHANGED <<quotaNow, quotaSince, Q!counters, ticks, rows, cache>>
  BY DEF Q!Alert, QuotaTyped
<1>2. c \in QuotaCalls /\ c.pc = "keep" /\ c.used = ask[r].used /\ c.at = ask[r].at
  BY DEF QuotaTyped, QuotaCalls
<1>3. levels \subseteq Q!Level
  BY DEF Q!LevelOf, Q!Level
<1>4. levels = {} => Q!LevelOf(c.used) = {} \/ (quotaMark # Q!Never
         /\ quotaNow - quotaMark < Hour)
  BY <1>2
<1> HIDE DEF c, levels
<1>5. ask' \in [Reader -> QuotaCalls] /\ ask'[r] = c
         /\ \A s \in Reader \ {r} : ask'[s] = ask[s]
  BY <1>1, <1>2, QuotaGoes
<1>6. quotaTold' \in [Q!Level -> Q!Never .. MaxWait] /\ quotaMark' \in Q!Never .. MaxWait
  BY <1>1, <1>3 DEF QuotaTyped, Q!Never
<1>7. QuotaTyped'
  BY <1>1, <1>5, <1>6 DEF QuotaTyped, Q!counters
<1>8. QuotaThrough'
  BY <1>1, QuotaThroughStays
<1>9. QuotaWithin'
  BY <1>1, <1>2, <1>5 DEF QuotaWithin
<1>10. \A l \in Q!Level : quotaTold'[l] >= quotaTold[l] /\ quotaTold'[l] <= quotaNow
          /\ quotaTold'[l] \in Int /\ quotaTold[l] \in Int
  BY <1>1 DEF QuotaTyped, QuotaMarked, Q!Never
<1>11. /\ quotaMark' # Q!Never => \E l \in Q!Level : quotaTold'[l] = quotaMark'
       /\ quotaMark' <= quotaNow
  <2>1. CASE levels = {}
    BY <1>1, <2>1 DEF QuotaMarked, QuotaTyped
  <2>2. CASE levels # {}
    BY <1>1, <1>3, <2>2 DEF QuotaTyped
  <2> QED
    BY <2>1, <2>2
<1>12. ASSUME Q!LevelOf(c.used) # {}
       PROVE  \E l \in Q!Level : quotaTold'[l] # Q!Never /\ quotaTold'[l] >= c.at - Hour
  <2>0. c.at <= quotaNow /\ c.at \in Nat /\ quotaNow \in Nat /\ quotaMark \in Int
    BY <1>2 DEF QuotaWithin, QuotaTyped, QuotaCalls, Q!Never
  <2>1. CASE levels = {}
    <3>1. quotaMark # Q!Never /\ quotaNow - quotaMark < Hour /\ quotaMark' = quotaMark
      BY <1>1, <1>4, <1>12, <2>1
    <3>2. PICK l \in Q!Level : quotaTold'[l] = quotaMark
      BY <1>11, <3>1
    <3> QED
      BY <2>0, <3>1, <3>2
  <2>2. CASE levels # {}
    <3>1. PICK l \in Q!Level : quotaTold'[l] = quotaNow
      BY <1>1, <1>3, <2>2
    <3> QED
      BY <2>0, <3>1 DEF Q!Never
  <2> QED
    BY <2>1, <2>2
<1>13. ASSUME NEW s \in Reader, ask'[s].pc = "keep", Q!LevelOf(ask'[s].used) # {}
       PROVE  \E l \in Q!Level : quotaTold'[l] # Q!Never
                /\ quotaTold'[l] >= ask'[s].at - Hour
  <2>1. CASE s = r
    BY <1>5, <1>12, <1>13, <2>1
  <2>2. CASE s # r
    <3>1. ask'[s] = ask[s] /\ ask[s].at \in Nat
      BY <1>5, <2>2 DEF QuotaTyped, QuotaCalls
    <3>2. PICK l \in Q!Level : quotaTold[l] # Q!Never /\ quotaTold[l] >= ask[s].at - Hour
      BY <1>13, <3>1 DEF QuotaMarked
    <3>3. quotaTold[l] \in 0 .. MaxWait
      BY <3>2 DEF QuotaTyped, Q!Never
    <3>4. quotaTold'[l] >= quotaTold[l] /\ quotaTold'[l] \in Int
      BY <1>10
    <3> QED
      BY <3>1, <3>2, <3>3, <3>4 DEF Q!Never
  <2> QED
    BY <2>1, <2>2
<1>14. QuotaMarked'
  BY <1>1, <1>10, <1>11, <1>13 DEF QuotaMarked, Q!LevelOf
<1> QED
  BY <1>7, <1>8, <1>9, <1>14

LEMMA QuotaKeepInv ==
  ASSUME QuotaSized, QuotaInv, NEW r \in Reader, Q!Keep(r)
  PROVE  QuotaInv'
<1> USE DEF QuotaSized, QuotaInv, Q!Keep
<1>1. Q!Rest \in QuotaCalls /\ Q!Rest.used = 0 /\ Q!Rest.at = 0 /\ Q!Rest.pc = "rest"
  BY DEF Q!Rest, QuotaCalls
<1>2. ask' \in [Reader -> QuotaCalls] /\ ask'[r] = Q!Rest
         /\ \A s \in Reader \ {r} : ask'[s] = ask[s]
  BY <1>1, QuotaGoes
<1>3. /\ ask[r] \in QuotaCalls /\ ask[r].at <= quotaNow
      /\ ask[r].at >= quotaSince => ask[r].used <= rows
  BY DEF QuotaTyped, QuotaWithin
<1>4. /\ cache' \in [at : Q!Never .. MaxWait, used : Nat]
      /\ cache'.at = ask[r].at /\ cache'.used = ask[r].used
  BY <1>3 DEF QuotaCalls, Q!Never
<1>5. QuotaTyped'
  BY <1>2, <1>4 DEF QuotaTyped, Q!counters
<1>6. QuotaThrough'
  BY QuotaThroughStays
<1>7. QuotaWithin'
  BY <1>1, <1>2, <1>3, <1>4 DEF QuotaWithin, QuotaTyped
<1>8. QuotaMarked'
  BY <1>1, <1>2 DEF QuotaMarked, Q!LevelOf
<1> QED
  BY <1>5, <1>6, <1>7, <1>8

LEMMA QuotaPassInv == ASSUME QuotaSized, QuotaInv, Q!Pass PROVE QuotaInv'
<1> USE DEF QuotaSized, QuotaInv, Q!Pass
<1>0. /\ quotaNow' \in 0 .. MaxWait /\ quotaSince' \in 0 .. MaxWait /\ rows' \in Nat
      /\ \/ quotaSince' = quotaSince /\ rows' = rows
         \/ quotaSince' = quotaNow + 1
  BY DEF QuotaTyped
<1>1. QuotaTyped'
  BY <1>0 DEF QuotaTyped, Q!counters, Q!quota
<1>2. QuotaThrough'
  BY QuotaThroughStays
<1>3. QuotaWithin'
  <2>1. /\ quotaNow' = quotaNow + 1 /\ quotaNow \in Nat /\ quotaSince \in Nat
        /\ cache.at \in Int /\ cache' = cache /\ ask' = ask
    BY DEF QuotaTyped, Q!Never, Q!quota
  <2>2. \A s \in Reader : ask[s].at \in Nat
    BY DEF QuotaTyped, QuotaCalls
  <2> QED
    BY <1>0, <2>1, <2>2 DEF QuotaWithin
<1>4. QuotaMarked'
  <2>1. quotaNow' = quotaNow + 1 /\ quotaNow \in Nat /\ quotaMark \in Int
    BY DEF QuotaTyped, Q!Never
  <2>2. \A s \in Reader : ask[s].at \in Nat
    BY DEF QuotaTyped, QuotaCalls
  <2>3. \A l \in Q!Level : quotaTold[l] \in Int
    BY DEF QuotaTyped, Q!Never
  <2> QED
    BY <2>1, <2>2, <2>3 DEF QuotaMarked, Q!quota, Q!LevelOf
<1> QED
  BY <1>1, <1>2, <1>3, <1>4

LEMMA QuotaNextInv == ASSUME QuotaSized, QuotaInv, [Q!Next]_quotaVars PROVE QuotaInv'
<1>1. CASE UNCHANGED quotaVars
  <2>1. QuotaThrough'
    BY <1>1, QuotaThroughStays DEF quotaVars, Q!counters, QuotaInv
  <2> QED
    BY <1>1, <2>1 DEF quotaVars, QuotaInv, QuotaTyped, QuotaWithin, QuotaMarked, Q!LevelOf
<1> QED
  BY <1>1, QuotaMoveInv, QuotaReplugInv, QuotaLookInv, QuotaTickOnlyInv, QuotaPassInv,
     QuotaAskInv, QuotaSumInv, QuotaAlertInv, QuotaKeepInv
  DEF Q!Next

LEMMA QuotaSound == ASSUME QuotaSized, QuotaInv PROVE Q!TypeOK /\ Q!QuotaTold
<1> USE DEF QuotaInv
<1>1. Q!TypeOK
  BY DEF Q!TypeOK, QuotaTyped, QuotaCalls
<1>2. Cardinality(Q!Growth) \in Nat
  BY QuotaGrowthFinite
<1>3. total <= moved
  BY <1>2 DEF QuotaThrough, QuotaTyped
<1> QED
  BY <1>1, <1>3 DEF QuotaWithin, QuotaMarked, Q!QuotaTold

-----------------------------------------------------------------------------
(* The windows: who works belongs to a window that waits for it, and a scan *)
(* holds the threats of the checks it has done.                             *)

LEMMA WindowCount == \A s : N!Cardinality(s) = Cardinality(s)
  BY Zenon DEF N!Cardinality, Cardinality

WindowAsked == Server \X N!Answer \X (0 .. MaxAge)
WindowFound == Item \cup Nat \cup WindowAsked
WindowServers == (1 .. 5) \cup (1 .. Cardinality(Server) + 1)

WindowWorkers == [win : N!Win,
                  job : {"trace", "dns", "health", "resolve", "full", "quick"},
                  pc : {"none", "begin", "server", "hop", "ping", "known", "wait", "told",
                        "ask", "scan",
                        "show", "end"},
                  server : WindowServers, hop : 1 .. MaxHops + 1, todo : SUBSET Server,
                  got : SUBSET WindowFound, failed : BOOLEAN]

Windows == [kind : View, open : BOOLEAN, busy : BOOLEAN, first : BOOLEAN]
WindowTracers == [running : BOOLEAN, stop : BOOLEAN, proc : N!Worker \cup {0}]

\* All but the workers.
WindowAround ==
    /\ app \in {"on", "closing"} /\ winNow \in 0 .. MaxAge /\ opened \in 0 .. MaxOpens
    /\ there \subseteq Item
    /\ win \in [N!Win -> Windows]
    /\ line \in [N!Win -> {"idle", "busy", "done", "clean", "doubts", "threats", "error"}]
    /\ shown \in [N!Win -> SUBSET WindowFound]
    /\ tracer \in [N!Win -> WindowTracers]
    /\ DOMAIN dnsCache = N!Win
        /\ \A i \in N!Win : \A s \in DOMAIN dnsCache[i] : dnsCache[i][s] \in N!Answer
    /\ started \in 0 .. MaxWorkers /\ failed \in [N!Win -> BOOLEAN]
    /\ lateWin \in [N!Win -> 0 .. 2] /\ early \subseteq N!Win
    /\ winFaults \in 0 .. MaxFailed

WindowTyped == WindowAround /\ worker \in [N!Worker -> WindowWorkers]

\* What a check is to find.
WindowChecks(job, k) == {x \in N!Threats : x.cat = N!Plan[job][k]}
WindowScans == {"full", "quick"}

\* What a worker of each job is at, and what it has.
WindowStage(r) ==
    /\ r.job = "trace"
        => r.pc \in {"begin", "server", "hop", "ping", "known", "wait", "told", "show",
                     "end"}
    /\ r.job \in {"dns", "health", "resolve"} => r.pc \in {"begin", "ask", "show", "end"}
    /\ r.job \in WindowScans => r.pc \in {"begin", "scan", "show", "end"}
    /\ r.pc \in {"hop", "ping", "known", "wait", "told"} => r.server <= Cardinality(Server)
    /\ r.pc \in {"ping", "known", "wait"} => r.hop <= MaxHops
    /\ r.pc = "begin" => r.server = 1 /\ r.got = {} /\ r.todo = {}

WindowScanned(r) == r.job \in WindowScans /\ r.pc # "end" =>
    /\ r.got \subseteq N!Threats
    /\ ~r.failed => \A k \in 1 .. Len(N!Plan[r.job]) : k < r.server
        => WindowChecks(r.job, k) \subseteq r.got
    /\ r.server \in 1 .. Len(N!Plan[r.job]) + 1
    /\ IF r.pc = "show" THEN r.server = Len(N!Plan[r.job]) + 1 ELSE r.server <= Len(N!Plan[r.job])

WindowHeard(r) == r.job = "dns" => \A p \in r.got : p \in WindowAsked
   /\ p[3] - p[2].at < KeepFor

WindowRight(r) == WindowStage(r) /\ WindowScanned(r) /\ WindowHeard(r)

WindowLabour == \A w \in N!Worker : N!Alive(w) =>
    /\ w <= started /\ worker[w].win <= opened
    /\ worker[w].job \in N!Jobs[win[worker[w].win].kind]
    /\ WindowRight(worker[w])

\* A window has one worker, and knows.
WindowOne == /\ \A w, v \in N!Worker : N!Alive(w) /\ N!Alive(v)
                /\ worker[w].win = worker[v].win => w = v
             /\ \A i \in N!Win : win[i].open =>
                   (win[i].busy <=> \E w \in N!Worker : N!Alive(w) /\ worker[w].win = i)

\* A window that is closed has told its tracer to stop.
WindowClosing == \A i \in N!Win :
    /\ win[i].open => lateWin[i] = 0 /\ i <= opened
    /\ i > opened => lateWin[i] = 0 /\ ~win[i].busy
    /\ ~win[i].open /\ i \notin early =>
          /\ N!Halted(i) /\ lateWin[i] <= 1
          /\ \A w \in N!Worker : N!Alive(w) /\ worker[w].win = i =>
                worker[w].pc # "begin" /\ (worker[w].pc = "ping" => lateWin[i] = 0)

WindowInv == WindowTyped /\ WindowLabour /\ WindowOne /\ WindowClosing /\ N!ScanTrue

LEMMA WindowSize == ASSUME WindowsSized PROVE Cardinality(Server) \in Nat
  BY FS_CardinalityType DEF WindowsSized

LEMMA WindowIdleHas ==
  ASSUME WindowsSized
  PROVE  N!Idle \in WindowWorkers /\ N!Idle.pc = "none"
<1>1. 1 \in WindowServers /\ 1 \in 1 .. MaxHops + 1 /\ 1 \in N!Win
  BY DEF WindowServers, WindowsSized, N!Win
<1> QED
  BY <1>1 DEF N!Idle, WindowWorkers

LEMMA WindowPlans ==
  /\ \A j \in WindowScans : Len(N!Plan[j]) \in {2, 4}
  /\ \A j \in WindowScans : \E k \in 1 .. Len(N!Plan[j]) : N!Plan[j][k] = "connections"
  /\ \A j \in WindowScans : \E k \in 1 .. Len(N!Plan[j]) : N!Plan[j][k] = "hosts"
<1> DEFINE F == <<"connections", "processes", "hosts", "autorun">>
           QQ == <<"connections", "hosts">>
<1>1. N!Plan["full"] = F /\ N!Plan["quick"] = QQ
  BY DEF N!Plan
<1>2. Len(F) = 4 /\ F[1] = "connections" /\ F[3] = "hosts"
  OBVIOUS
<1>3. Len(QQ) = 2 /\ QQ[1] = "connections" /\ QQ[2] = "hosts"
  OBVIOUS
<1> HIDE DEF F, QQ
<1>4. 1 \in 1 .. 4 /\ 3 \in 1 .. 4 /\ 1 \in 1 .. 2 /\ 2 \in 1 .. 2
  OBVIOUS
<1> QED
  BY <1>1, <1>2, <1>3, <1>4 DEF WindowScans

LEMMA WindowInitInv == ASSUME WindowsSized, N!Init PROVE WindowInv
<1> USE DEF WindowsSized, N!Init
<1>0. N!Idle \in WindowWorkers /\ N!Idle.pc = "none"
  BY WindowIdleHas
<1>1. worker \in [N!Worker -> WindowWorkers] /\ \A w \in N!Worker : ~N!Alive(w)
  BY <1>0 DEF N!Alive
<1>2. win \in [N!Win -> Windows] /\ \A i \in N!Win : ~win[i].open /\ ~win[i].busy
  BY DEF Windows
<1>3. tracer \in [N!Win -> WindowTracers] /\ \A i \in N!Win : N!Halted(i)
  BY DEF WindowTracers, N!Halted
<1>4. DOMAIN dnsCache = N!Win /\ \A i \in N!Win : DOMAIN dnsCache[i] = {}
  OBVIOUS
<1>5. WindowAround
  <2>1. app \in {"on", "closing"} /\ winNow \in 0 .. MaxAge /\ opened \in 0 .. MaxOpens
    OBVIOUS
  <2>2. there \subseteq Item
    OBVIOUS
  <2>3. /\ line \in [N!Win -> {"idle", "busy", "done", "clean", "doubts", "threats",
                               "error"}]
        /\ shown \in [N!Win -> SUBSET WindowFound] /\ failed \in [N!Win -> BOOLEAN]
    OBVIOUS
  <2>4. started \in 0 .. MaxWorkers /\ lateWin \in [N!Win -> 0 .. 2]
           /\ early \subseteq N!Win /\ winFaults \in 0 .. MaxFailed
    OBVIOUS
  <2> QED
    BY <1>2, <1>3, <1>4, <2>1, <2>2, <2>3, <2>4 DEF WindowAround
<1>6. WindowLabour
  BY <1>1 DEF WindowLabour
<1>7. WindowOne
  BY <1>1, <1>2 DEF WindowOne
<1>8. WindowClosing
  <2>1. \A i \in N!Win : lateWin[i] = 0
    OBVIOUS
  <2> QED
    BY <1>1, <1>2, <1>3, <2>1 DEF WindowClosing
<1>9. N!ScanTrue
  <2>1. \A i \in N!Win : shown[i] = {} /\ line[i] = "idle"
    OBVIOUS
  <2> QED
    BY <2>1 DEF N!ScanTrue
<1> QED
  BY <1>1, <1>5, <1>6, <1>7, <1>8, <1>9 DEF WindowInv, WindowTyped

-----------------------------------------------------------------------------
\* A worker goes on; nobody else does.
LEMMA WindowGoes ==
  ASSUME WindowsSized, WindowInv, NEW w \in N!Worker, NEW r \in WindowWorkers,
         worker' = [worker EXCEPT ![w] = r]
  PROVE  /\ worker' \in [N!Worker -> WindowWorkers] /\ worker'[w] = r
         /\ \A v \in N!Worker \ {w} : worker'[v] = worker[v]
  BY DEF WindowInv, WindowTyped

LEMMA WindowWorkerHas ==
  ASSUME WindowsSized, WindowInv, NEW w \in N!Worker
  PROVE  /\ worker[w] \in WindowWorkers /\ worker[w].win \in N!Win
         /\ win[worker[w].win] \in Windows
         /\ N!Alive(w) => WindowRight(worker[w])
  BY DEF WindowInv, WindowTyped, WindowAround, WindowWorkers, WindowLabour

\* What there is, and so what a scan is to find, stays.
LEMMA WindowThreatsStay ==
  ASSUME UNCHANGED there
  PROVE  /\ N!Threats' = N!Threats /\ \A r : WindowRight(r)' = WindowRight(r)
         /\ \A j, k : WindowChecks(j, k)' = WindowChecks(j, k)
<1>1. N!Threats' = N!Threats
  BY DEF N!Threats
<1>2. \A j, k : WindowChecks(j, k)' = WindowChecks(j, k)
  BY <1>1 DEF WindowChecks
<1>3. \A r : WindowScanned(r)' = WindowScanned(r)
  BY <1>1, <1>2 DEF WindowScanned
<1> QED
  BY <1>1, <1>2, <1>3 DEF WindowRight, WindowStage, WindowHeard

LEMMA WindowRightAgain ==
  ASSUME UNCHANGED there, NEW w, NEW q, q = worker'[w], WindowRight(q)
  PROVE  WindowRight(worker[w])'
<1>1. N!Threats' = N!Threats
  BY DEF N!Threats
<1> QED
  BY <1>1 DEF WindowRight, WindowStage, WindowScanned, WindowHeard, WindowChecks

LEMMA WindowScanStays ==
  ASSUME N!ScanTrue, UNCHANGED <<there, shown, line, failed>>,
         \A i \in N!Win : win'[i].kind = win[i].kind
  PROVE  N!ScanTrue'
  BY WindowThreatsStay DEF N!ScanTrue

LEMMA WindowAroundStays ==
  ASSUME WindowAround,
         UNCHANGED <<app, there, winNow, opened, win, line, shown, tracer, dnsCache,
                     started,
                             failed, lateWin, early, winFaults>>
  PROVE  WindowAround'
  BY DEF WindowAround

\* A step of a worker that has begun.
LEMMA WindowStepInv ==
  ASSUME WindowsSized, WindowInv, NEW w \in N!Worker, NEW r \in WindowWorkers, N!Alive(w),
         worker' = [worker EXCEPT ![w] = r],
         r.pc \notin {"none", "begin"}, r.win = worker[w].win, r.job = worker[w].job,
         WindowRight(r),
         UNCHANGED <<there, opened, win, started, early, lateWin>>,
         WindowAround', N!ScanTrue',
         r.pc = "ping" => ~N!Halted(r.win),
         \A i \in N!Win : ~win[i].open /\ i \notin early /\ N!Halted(i)
                           /\ (worker[w].pc = "begin" => worker[w].win # i) => N!Halted(i)'
  PROVE  WindowInv'
<1> USE DEF WindowInv
<1>1. /\ worker' \in [N!Worker -> WindowWorkers] /\ worker'[w] = r
      /\ \A v \in N!Worker \ {w} : worker'[v] = worker[v]
  BY WindowGoes
<1>2. /\ \A v \in N!Worker : N!Alive(v)' <=> N!Alive(v)
      /\ \A v \in N!Worker : worker'[v].win = worker[v].win
          /\ worker'[v].job = worker[v].job
  BY <1>1 DEF N!Alive
<1>3. WindowTyped'
  BY <1>1 DEF WindowTyped
<1>4. WindowLabour'
  <2> SUFFICES ASSUME NEW v \in N!Worker, N!Alive(v)
               PROVE  /\ v <= started /\ worker'[v].win <= opened
                      /\ worker'[v].job \in N!Jobs[win[worker'[v].win].kind]
                      /\ WindowRight(worker[v])'
    BY <1>2 DEF WindowLabour
  <2>1. PICK q : q = worker'[v]
    OBVIOUS
  <2>3. WindowRight(q)
    BY <1>1, <2>1 DEF WindowLabour
  <2>2. WindowRight(worker[v])'
    BY <2>1, <2>3, WindowRightAgain
  <2> QED
    BY <1>2, <2>2 DEF WindowLabour
<1>5. WindowOne'
  BY <1>2 DEF WindowOne
<1>6. WindowClosing'
  <2> SUFFICES ASSUME NEW i \in N!Win, ~win[i].open, i \notin early
               PROVE  /\ N!Halted(i)' /\ lateWin[i] <= 1
                      /\ \A v \in N!Worker : N!Alive(v) /\ worker[v].win = i =>
                            worker'[v].pc # "begin" /\ (worker'[v].pc = "ping"
                               => lateWin[i] = 0)
    BY <1>2 DEF WindowClosing
  <2>1. N!Halted(i) /\ lateWin[i] <= 1
        /\ \A v \in N!Worker : N!Alive(v) /\ worker[v].win = i =>
              worker[v].pc # "begin" /\ (worker[v].pc = "ping" => lateWin[i] = 0)
    BY DEF WindowClosing
  <2>2. N!Halted(i)'
    BY <2>1
  <2>3. worker[w].win = i => r.pc # "ping"
    BY <2>1
  <2> QED
    BY <1>1, <2>1, <2>2, <2>3
<1> QED
  BY <1>3, <1>4, <1>5, <1>6

\* The same, of a step that changes nothing but the worker.
LEMMA WindowInnerInv ==
  ASSUME WindowsSized, WindowInv, NEW w \in N!Worker, NEW r \in WindowWorkers, N!Alive(w),
         worker' = [worker EXCEPT ![w] = r],
         r.pc \notin {"none", "begin"}, r.win = worker[w].win, r.job = worker[w].job,
         WindowRight(r),
         UNCHANGED <<app, there, winNow, opened, win, line, shown, tracer, dnsCache,
                     started, failed,
                     early, lateWin>>,
         winFaults' \in 0 .. MaxFailed,
         r.pc = "ping" => ~N!Halted(r.win)
  PROVE  WindowInv'
<1>1. WindowAround'
  BY DEF WindowInv, WindowTyped, WindowAround
<1>2. N!ScanTrue'
  BY WindowScanStays DEF WindowInv
<1>3. \A i \in N!Win : N!Halted(i) => N!Halted(i)'
  BY DEF N!Halted
<1> QED
  BY <1>1, <1>2, <1>3, WindowStepInv

LEMMA WindowBeginInv ==
  ASSUME WindowsSized, WindowInv, NEW w \in N!Worker, N!Begin(w)
  PROVE  WindowInv'
<1> USE DEF WindowsSized, WindowInv
<1> DEFINE o == worker[w]
           i == worker[w].win
<1>0. o \in WindowWorkers /\ i \in N!Win /\ o.pc = "begin" /\ N!Alive(w) /\ WindowRight(o)
  BY WindowWorkerHas DEF N!Begin, N!Alive
<1>00. o.server = 1 /\ o.got = {} /\ o.todo = {}
  BY <1>0 DEF WindowRight, WindowStage
<1>1. UNCHANGED <<app, there, winNow, opened, win, line, shown, dnsCache, started, failed,
                  lateWin, early, winFaults>>
  BY DEF N!Begin
<1>2. N!ScanTrue'
  BY <1>1, WindowScanStays
<1>3. CASE o.job = "trace"
  <2> DEFINE r == [o EXCEPT !.pc = "server"]
  <2>1. /\ worker' = [worker EXCEPT ![w] = r]
        /\ tracer' = [tracer EXCEPT ![i].running = TRUE, ![i].stop = FALSE]
    BY <1>3 DEF N!Begin, N!Set
  <2>2. /\ r \in WindowWorkers /\ r.pc = "server" /\ r.win = i /\ r.job = "trace"
    BY <1>0, <1>3 DEF WindowWorkers
  <2> HIDE DEF r
  <2>3. WindowRight(r)
    BY <2>2 DEF WindowRight, WindowStage, WindowScanned, WindowHeard, WindowScans
  <2>4. tracer' \in [N!Win -> WindowTracers]
           /\ \A j \in N!Win \ {i} : tracer'[j] = tracer[j]
    <3> DEFINE t == [tracer[i] EXCEPT !.running = TRUE, !.stop = FALSE]
    <3>0. tracer \in [N!Win -> WindowTracers]
      BY DEF WindowTyped, WindowAround
    <3>1. t \in WindowTracers
      <4>1. tracer[i] \in WindowTracers
        BY <1>0, <3>0
      <4> QED
        BY <4>1 DEF WindowTracers
    <3>2. tracer' = [tracer EXCEPT ![i] = t]
      BY <1>0, <2>1, <3>0
    <3> HIDE DEF t
    <3> QED
      BY <1>0, <3>0, <3>1, <3>2
  <2>5. WindowAround'
    BY <1>1, <2>4 DEF WindowTyped, WindowAround
  <2>6. \A j \in N!Win : i # j /\ N!Halted(j) => N!Halted(j)'
    BY <2>4 DEF N!Halted
  <2> QED
    BY <1>0, <1>1, <1>2, <1>3, <2>1, <2>2, <2>3, <2>5, <2>6, WindowStepInv
<1>4. CASE o.job \in {"dns", "health", "resolve"}
  <2> DEFINE r == [o EXCEPT !.pc = "ask", !.todo = Server]
  <2>1. worker' = [worker EXCEPT ![w] = r] /\ UNCHANGED tracer
    BY <1>4 DEF N!Begin, N!Set
  <2>2. /\ r \in WindowWorkers /\ r.pc = "ask" /\ r.win = i /\ r.job = o.job /\ r.got = {}
    BY <1>0, <1>00 DEF WindowWorkers
  <2> HIDE DEF r
  <2>3. WindowRight(r)
    BY <1>4, <2>2 DEF WindowRight, WindowStage, WindowScanned, WindowHeard, WindowScans
  <2> QED
    BY <1>0, <1>1, <2>1, <2>2, <2>3, WindowInnerInv DEF WindowTyped, WindowAround
<1>5. CASE o.job \in WindowScans
  <2> DEFINE r == [o EXCEPT !.pc = "scan"]
  <2>1. worker' = [worker EXCEPT ![w] = r] /\ UNCHANGED tracer
    BY <1>5 DEF N!Begin, N!Set, WindowScans
  <2>2. /\ r \in WindowWorkers /\ r.pc = "scan" /\ r.win = i /\ r.job = o.job
        /\ r.got = {} /\ r.server = 1
    BY <1>0, <1>00 DEF WindowWorkers
  <2> HIDE DEF r
  <2>3. WindowRight(r)
    <3>1. Len(N!Plan[r.job]) \in {2, 4}
      BY <1>5, <2>2, WindowPlans
    <3>2. WindowScanned(r)
      <4>1. PICK n : n = Len(N!Plan[r.job]) /\ n \in {2, 4}
        BY <3>1
      <4>2. \A m \in {2, 4} : 1 \in 1 .. m + 1 /\ 1 <= m
        OBVIOUS
      <4>3. \A m : \A k \in 1 .. m : ~(k < 1)
        OBVIOUS
      <4> QED
        BY <2>2, <4>1, <4>2, <4>3 DEF WindowScanned
    <3>3. WindowStage(r) /\ WindowHeard(r)
      BY <1>5, <2>2 DEF WindowStage, WindowHeard, WindowScans
    <3> QED
      BY <3>2, <3>3 DEF WindowRight
  <2> QED
    BY <1>0, <1>1, <2>1, <2>2, <2>3, WindowInnerInv DEF WindowTyped, WindowAround
<1> QED
  BY <1>0, <1>3, <1>4, <1>5 DEF WindowWorkers, WindowScans

LEMMA WindowTraceInv ==
  ASSUME WindowsSized, WindowInv, NEW w \in N!Worker, N!TraceLoop(w)
  PROVE  WindowInv'
<1> USE DEF WindowsSized, WindowInv
<1> DEFINE o == worker[w]
           i == worker[w].win
<1>0. o \in WindowWorkers /\ i \in N!Win /\ o.pc \in {"server", "hop"} /\ N!Alive(w)
         /\ WindowRight(o) /\ o.job = "trace"
  BY WindowWorkerHas DEF N!TraceLoop, N!Alive
<1>1. UNCHANGED <<app, there, winNow, opened, win, line, shown, dnsCache, started, failed,
                  lateWin, early, winFaults>>
  BY DEF N!TraceLoop
<1>2. N!ScanTrue' /\ winFaults' \in 0 .. MaxFailed
  BY <1>1, WindowScanStays DEF WindowTyped, WindowAround
<1>3. CASE o.pc = "server" /\ (o.server > Cardinality(Server) \/ N!Halted(i))
  <2> DEFINE r == [o EXCEPT !.pc = "show"]
  <2>1. worker' = [worker EXCEPT ![w] = r] /\ tracer' = [tracer EXCEPT ![i].running = FALSE]
    BY <1>3, WindowCount DEF N!TraceLoop, N!Set
  <2>2. /\ r \in WindowWorkers /\ r.pc = "show" /\ r.win = i /\ r.job = "trace"
    BY <1>0 DEF WindowWorkers
  <2> HIDE DEF r
  <2>3. WindowRight(r)
    BY <2>2 DEF WindowRight, WindowStage, WindowScanned, WindowHeard, WindowScans
  <2>4. /\ tracer' \in [N!Win -> WindowTracers]
            /\ \A j \in N!Win \ {i} : tracer'[j] = tracer[j]
        /\ ~tracer'[i].running
    BY <1>0, <2>1 DEF WindowTyped, WindowAround, WindowTracers
  <2>5. WindowAround'
    BY <1>1, <2>4 DEF WindowTyped, WindowAround
  <2>6. \A j \in N!Win : N!Halted(j) => N!Halted(j)'
    BY <2>4 DEF N!Halted
  <2> QED
    BY <1>0, <1>1, <1>2, <2>1, <2>2, <2>3, <2>5, <2>6, WindowStepInv
<1>4. CASE o.pc = "server" /\ ~(o.server > Cardinality(Server) \/ N!Halted(i))
  <2> DEFINE r == [o EXCEPT !.pc = "hop", !.hop = 1]
  <2>1. worker' = [worker EXCEPT ![w] = r] /\ UNCHANGED tracer
    BY <1>4, WindowCount DEF N!TraceLoop, N!Set
  <2>2. /\ r \in WindowWorkers /\ r.pc = "hop" /\ r.win = i /\ r.job = "trace"
        /\ r.server = o.server /\ r.hop = 1
    <3>1. 1 \in 1 .. MaxHops + 1
      OBVIOUS
    <3> QED
      BY <1>0, <3>1 DEF WindowWorkers
  <2>3. o.server <= Cardinality(Server)
    <3>1. o.server \in Nat /\ Cardinality(Server) \in Nat
      BY <1>0, WindowSize DEF WindowWorkers, WindowServers
    <3> QED
      BY <1>4, <3>1
  <2> HIDE DEF r
  <2>4. WindowRight(r)
    BY <2>2, <2>3 DEF WindowRight, WindowStage, WindowScanned, WindowHeard, WindowScans
  <2> QED
    BY <1>0, <1>1, <1>2, <2>1, <2>2, <2>4, WindowInnerInv
<1>5. CASE o.pc = "hop" /\ (o.hop > MaxHops \/ N!Halted(i))
  <2> DEFINE r == [o EXCEPT !.pc = "told"]
  <2>1. worker' = [worker EXCEPT ![w] = r] /\ UNCHANGED tracer
    BY <1>5 DEF N!TraceLoop, N!Set
  <2>2. /\ r \in WindowWorkers /\ r.pc = "told" /\ r.win = i /\ r.job = "trace"
        /\ r.server = o.server
    BY <1>0 DEF WindowWorkers
  <2> HIDE DEF r
  <2>4. WindowRight(r)
    BY <1>0, <1>5, <2>2 DEF WindowRight, WindowStage, WindowScanned, WindowHeard,
       WindowScans
  <2> QED
    BY <1>0, <1>1, <1>2, <2>1, <2>2, <2>4, WindowInnerInv
<1>6. CASE o.pc = "hop" /\ ~(o.hop > MaxHops \/ N!Halted(i))
  <2> DEFINE r == [o EXCEPT !.pc = "ping"]
  <2>1. worker' = [worker EXCEPT ![w] = r] /\ UNCHANGED tracer
    BY <1>6 DEF N!TraceLoop, N!Set
  <2>2. /\ r \in WindowWorkers /\ r.pc = "ping" /\ r.win = i /\ r.job = "trace"
        /\ r.server = o.server /\ r.hop = o.hop
    BY <1>0 DEF WindowWorkers
  <2>3. o.hop <= MaxHops
    BY <1>0, <1>6 DEF WindowWorkers
  <2> HIDE DEF r
  <2>4. WindowRight(r)
    BY <1>0, <1>6, <2>2, <2>3 DEF WindowRight, WindowStage, WindowScanned, WindowHeard,
       WindowScans
  <2> QED
    BY <1>0, <1>1, <1>2, <1>6, <2>1, <2>2, <2>4, WindowInnerInv
<1> QED
  BY <1>0, <1>3, <1>4, <1>5, <1>6

LEMMA WindowKnownInv ==
  ASSUME WindowsSized, WindowInv, NEW w \in N!Worker, N!Known(w)
  PROVE  WindowInv'
<1> USE DEF WindowsSized, WindowInv
<1> DEFINE o == worker[w]
           i == worker[w].win
           r == [o EXCEPT !.pc = "wait"]
<1>0. o \in WindowWorkers /\ i \in N!Win /\ o.pc = "known" /\ N!Alive(w) /\ WindowRight(o)
  BY WindowWorkerHas DEF N!Known, N!Alive
<1>1. /\ UNCHANGED <<app, there, winNow, opened, win, line, shown, dnsCache, started,
                     failed, lateWin, early, winFaults>>
      /\ worker' = [worker EXCEPT ![w] = r] /\ tracer' = [tracer EXCEPT ![i].proc = w]
  BY DEF N!Known, N!Set
<1>2. N!ScanTrue'
  BY <1>1, WindowScanStays
<1>3. /\ r \in WindowWorkers /\ r.pc = "wait" /\ r.win = i /\ r.job = o.job
      /\ r.server = o.server /\ r.hop = o.hop
      /\ r.job = "trace"
  BY <1>0 DEF WindowWorkers, WindowRight, WindowStage, WindowScans
<1> HIDE DEF r
<1>4. WindowRight(r)
  BY <1>0, <1>3 DEF WindowRight, WindowStage, WindowScanned, WindowHeard, WindowScans
<1>5. /\ tracer' \in [N!Win -> WindowTracers]
      /\ \A j \in N!Win : tracer'[j].running = tracer[j].running
          /\ tracer'[j].stop = tracer[j].stop
  BY <1>0, <1>1 DEF WindowTyped, WindowAround, WindowTracers
<1>6. WindowAround'
  BY <1>1, <1>5 DEF WindowTyped, WindowAround
<1>7. \A j \in N!Win : N!Halted(j) => N!Halted(j)'
  BY <1>5 DEF N!Halted
<1> QED
  BY <1>0, <1>1, <1>2, <1>3, <1>4, <1>6, <1>7, WindowStepInv

LEMMA WindowHopInv ==
  ASSUME WindowsSized, WindowInv, NEW w \in N!Worker, N!Hop(w)
  PROVE  WindowInv'
<1> USE DEF WindowsSized, WindowInv
<1> DEFINE o == worker[w]
           i == worker[w].win
<1>0. o \in WindowWorkers /\ i \in N!Win /\ o.pc = "wait" /\ N!Alive(w) /\ WindowRight(o)
  BY WindowWorkerHas DEF N!Hop, N!Alive
<1>1. /\ UNCHANGED <<app, there, winNow, opened, win, line, shown, dnsCache, started,
                     failed, lateWin, early, winFaults>>
      /\ tracer' = IF tracer[i].proc = w THEN [tracer EXCEPT ![i].proc = 0] ELSE tracer
  BY DEF N!Hop
<1>2. N!ScanTrue'
  BY <1>1, WindowScanStays
<1>3. PICK arrived \in BOOLEAN :
        worker' = [worker EXCEPT ![w] = [o EXCEPT !.hop = @ + 1,
                                         !.pc = IF arrived THEN "told" ELSE "hop"]]
  BY DEF N!Hop, N!Set
<1> DEFINE r == [o EXCEPT !.hop = @ + 1, !.pc = IF arrived THEN "told" ELSE "hop"]
<1>4. o.job = "trace" /\ o.hop <= MaxHops /\ o.server <= Cardinality(Server)
  BY <1>0 DEF WindowRight, WindowStage, WindowWorkers, WindowScans
<1>5. /\ r \in WindowWorkers /\ r.pc \in {"told", "hop"} /\ r.win = i /\ r.job = o.job
      /\ r.server = o.server
  <2>1. o.hop + 1 \in 1 .. MaxHops + 1
    BY <1>0, <1>4 DEF WindowWorkers
  <2> QED
    BY <1>0, <2>1 DEF WindowWorkers
<1>6. worker' = [worker EXCEPT ![w] = r]
  BY <1>3
<1> HIDE DEF r
<1>7. WindowRight(r)
  BY <1>4, <1>5 DEF WindowRight, WindowStage, WindowScanned, WindowHeard, WindowScans
<1>8. /\ tracer' \in [N!Win -> WindowTracers]
      /\ \A j \in N!Win : tracer'[j].running = tracer[j].running
          /\ tracer'[j].stop = tracer[j].stop
  <2>1. tracer \in [N!Win -> WindowTracers]
    BY DEF WindowTyped, WindowAround
  <2>2. CASE tracer[i].proc = w
    <3> DEFINE t == [tracer[i] EXCEPT !.proc = 0]
    <3>1. t \in WindowTracers /\ t.running = tracer[i].running /\ t.stop = tracer[i].stop
      BY <1>0, <2>1 DEF WindowTracers
    <3>2. tracer' = [tracer EXCEPT ![i] = t]
      BY <1>0, <1>1, <2>1, <2>2
    <3> HIDE DEF t
    <3> QED
      BY <1>0, <2>1, <3>1, <3>2
  <2>3. CASE tracer[i].proc # w
    BY <1>1, <2>1, <2>3
  <2> QED
    BY <2>2, <2>3
<1>9. WindowAround'
  BY <1>1, <1>8 DEF WindowTyped, WindowAround
<1>10. \A j \in N!Win : N!Halted(j) => N!Halted(j)'
  BY <1>8 DEF N!Halted
<1> QED
  BY <1>0, <1>1, <1>2, <1>5, <1>6, <1>7, <1>9, <1>10, WindowStepInv

LEMMA WindowRouteInv ==
  ASSUME WindowsSized, WindowInv, NEW w \in N!Worker, N!Route(w)
  PROVE  WindowInv'
<1> USE DEF WindowsSized, WindowInv
<1> DEFINE o == worker[w]
           r == [o EXCEPT !.pc = "server", !.server = @ + 1, !.got = @ \cup {o.server}]
<1>0. o \in WindowWorkers /\ o.pc = "told" /\ N!Alive(w) /\ WindowRight(o)
  BY WindowWorkerHas DEF N!Route, N!Alive
<1>1. /\ UNCHANGED <<app, there, winNow, opened, win, line, shown, tracer, dnsCache,
                     started, failed, lateWin, early, winFaults>>
      /\ worker' = [worker EXCEPT ![w] = r]
  BY DEF N!Route, N!Set
<1>2. o.job = "trace" /\ o.server <= Cardinality(Server)
  BY <1>0 DEF WindowRight, WindowStage, WindowWorkers, WindowScans
<1>3. /\ r \in WindowWorkers /\ r.pc = "server" /\ r.win = o.win /\ r.job = o.job
  <2>1. o.server \in Nat /\ o.server + 1 \in WindowServers
    BY <1>0, <1>2, WindowSize DEF WindowWorkers, WindowServers
  <2>2. o.got \cup {o.server} \in SUBSET WindowFound
    BY <1>0, <2>1 DEF WindowWorkers, WindowFound
  <2> QED
    BY <1>0, <2>1, <2>2 DEF WindowWorkers
<1> HIDE DEF r
<1>4. WindowRight(r)
  BY <1>2, <1>3 DEF WindowRight, WindowStage, WindowScanned, WindowHeard, WindowScans
<1>5. winFaults' \in 0 .. MaxFailed
  BY <1>1 DEF WindowTyped, WindowAround
<1> QED
  BY <1>0, <1>1, <1>3, <1>4, <1>5, WindowInnerInv

\* One ping more; of a window that is closed the first one.
LEMMA WindowPingInv ==
  ASSUME WindowsSized, WindowInv, NEW w \in N!Worker, N!Ping(w)
  PROVE  WindowInv'
<1> USE DEF WindowsSized, WindowInv
<1> DEFINE o == worker[w]
           i == worker[w].win
           r == [o EXCEPT !.pc = "known"]
<1>0. o \in WindowWorkers /\ i \in N!Win /\ o.pc = "ping" /\ N!Alive(w) /\ WindowRight(o)
  BY WindowWorkerHas DEF N!Ping, N!Alive
<1>1. /\ UNCHANGED <<app, there, winNow, opened, win, line, shown, tracer, dnsCache,
                     started, failed, early, winFaults>>
      /\ worker' = [worker EXCEPT ![w] = r]
      /\ lateWin' = IF win[i].open
          \/ lateWin[i] = 2 THEN lateWin ELSE [lateWin EXCEPT ![i] = @ + 1]
  BY DEF N!Ping, N!Set
<1>2. /\ r \in WindowWorkers /\ r.pc = "known" /\ r.win = i /\ r.job = o.job
      /\ r.server = o.server /\ r.hop = o.hop
  BY <1>0 DEF WindowWorkers
<1>3. o.job = "trace"
  BY <1>0 DEF WindowRight, WindowStage, WindowWorkers, WindowScans
<1> HIDE DEF r
<1>4. WindowRight(r)
  BY <1>0, <1>2, <1>3 DEF WindowRight, WindowStage, WindowScanned, WindowHeard, WindowScans
<1>5. /\ worker' \in [N!Worker -> WindowWorkers] /\ worker'[w] = r
      /\ \A v \in N!Worker \ {w} : worker'[v] = worker[v]
  BY <1>1, <1>2, WindowGoes
<1>6. /\ lateWin' \in [N!Win -> 0 .. 2] /\ \A j \in N!Win \ {i} : lateWin'[j] = lateWin[j]
      /\ win[i].open => lateWin' = lateWin
      /\ lateWin'[i] = lateWin[i] \/ lateWin'[i] = lateWin[i] + 1
  BY <1>0, <1>1 DEF WindowTyped, WindowAround
<1>7. WindowTyped'
  BY <1>1, <1>5, <1>6 DEF WindowTyped, WindowAround
<1>8. /\ \A v \in N!Worker : N!Alive(v)' <=> N!Alive(v)
      /\ \A v \in N!Worker : worker'[v].win = worker[v].win
          /\ worker'[v].job = worker[v].job
  BY <1>0, <1>2, <1>5 DEF N!Alive
<1>9. WindowLabour'
  <2> SUFFICES ASSUME NEW v \in N!Worker, N!Alive(v)
               PROVE  /\ v <= started /\ worker'[v].win <= opened
                      /\ worker'[v].job \in N!Jobs[win[worker'[v].win].kind]
                      /\ WindowRight(worker[v])'
    BY <1>1, <1>8 DEF WindowLabour
  <2>1. PICK q : q = worker'[v]
    OBVIOUS
  <2>2. WindowRight(q)
    BY <1>4, <1>5, <2>1 DEF WindowLabour
  <2>3. WindowRight(worker[v])'
    BY <1>1, <2>1, <2>2, WindowRightAgain
  <2> QED
    BY <1>8, <2>3 DEF WindowLabour
<1>10. WindowOne'
  BY <1>1, <1>8 DEF WindowOne
<1>11. WindowClosing'
  <2> SUFFICES ASSUME NEW j \in N!Win
               PROVE  /\ win[j].open => lateWin'[j] = 0 /\ j <= opened
                      /\ j > opened => lateWin'[j] = 0 /\ ~win[j].busy
                      /\ ~win[j].open /\ j \notin early =>
                            /\ N!Halted(j) /\ lateWin'[j] <= 1
                            /\ \A v \in N!Worker : N!Alive(v) /\ worker[v].win = j =>
                                  worker'[v].pc # "begin" /\ (worker'[v].pc = "ping"
                                     => lateWin'[j] = 0)
    BY <1>1, <1>8 DEF WindowClosing, N!Halted
  <2>1. CASE j # i
    <3>1. lateWin'[j] = lateWin[j] /\ \A v \in N!Worker : worker[v].win = j
             => worker'[v] = worker[v]
      BY <1>5, <1>6, <2>1
    <3> QED
      BY <3>1 DEF WindowClosing
  <2>2. CASE j = i
    <3>1. i <= opened /\ ~(i > opened)
      <4>1. i <= opened
        BY <1>0 DEF WindowLabour
      <4>2. i \in Nat /\ opened \in Nat
        BY <1>0 DEF WindowTyped, WindowAround, N!Win
      <4>3. PICK n \in Nat, m \in Nat : n = i /\ m = opened
        BY <4>2
      <4> QED
        <5>1. n <= m
          BY <4>1, <4>3
        <5>2. ~(n > m)
          BY <5>1
        <5> QED
          BY <4>1, <4>3, <5>2
    <3>2. win[i].open => lateWin'[i] = 0
      BY <1>0, <1>6 DEF WindowClosing
    <3>3. \A v \in N!Worker : N!Alive(v) /\ worker[v].win = i => v = w
      BY <1>0 DEF WindowOne
    <3>4. ~win[i].open /\ i \notin early => N!Halted(i) /\ lateWin[i] = 0
      BY <1>0 DEF WindowClosing
    <3> QED
      BY <1>2, <1>5, <1>6, <2>2, <3>1, <3>2, <3>3, <3>4
  <2> QED
    BY <2>1, <2>2
<1>12. N!ScanTrue'
  BY <1>1, WindowScanStays
<1> QED
  BY <1>7, <1>9, <1>10, <1>11, <1>12

-----------------------------------------------------------------------------
\* What the caches hold.
LEMMA WindowCacheHas ==
  ASSUME WindowsSized, WindowInv, NEW i \in N!Win, NEW s, NEW a \in N!Answer,
         dnsCache' = [dnsCache EXCEPT ![i] = N!Remembered(@, s, a)]
  PROVE  DOMAIN dnsCache' = N!Win
           /\ \A j \in N!Win : \A q \in DOMAIN dnsCache'[j] : dnsCache'[j][q] \in N!Answer
<1> DEFINE f == N!Remembered(dnsCache[i], s, a)
<1>1. DOMAIN dnsCache = N!Win
         /\ \A j \in N!Win : \A q \in DOMAIN dnsCache[j] : dnsCache[j][q] \in N!Answer
  BY DEF WindowInv, WindowTyped, WindowAround
<1>2. \A q \in DOMAIN f : f[q] \in N!Answer
  BY <1>1 DEF N!Remembered
<1>3. dnsCache' = [dnsCache EXCEPT ![i] = f]
  OBVIOUS
<1> HIDE DEF f
<1>4. DOMAIN dnsCache' = N!Win
  BY <1>1, <1>3
<1>5. dnsCache'[i] = f /\ \A j \in N!Win \ {i} : dnsCache'[j] = dnsCache[j]
  BY <1>1, <1>3
<1> QED
  BY <1>1, <1>2, <1>4, <1>5

\* One of the servers is answered for.
LEMMA WindowAnsweredHas ==
  ASSUME WindowsSized, WindowInv, NEW w \in N!Worker, NEW s,
         NEW got \in SUBSET WindowFound, worker[w].pc = "ask", N!Alive(w),
         N!Answered(w, s, got)
  PROVE  \E r \in WindowWorkers : /\ worker' = [worker EXCEPT ![w] = r]
                                  /\ r.pc \in {"ask", "show"}
                           /\ r.win = worker[w].win /\ r.job = worker[w].job /\ r.got = got
                           /\ r.server = worker[w].server
<1> DEFINE rest == worker[w].todo \ {s}
           r == [worker[w] EXCEPT !.todo = rest, !.got = got,
                 !.pc = IF rest = {} THEN "show" ELSE "ask"]
<1>1. worker[w] \in WindowWorkers
  BY WindowWorkerHas
<1>2. rest \in SUBSET Server
  BY <1>1 DEF WindowWorkers
<1>3. worker' = [worker EXCEPT ![w] = r]
  BY DEF N!Answered, N!Set
<1> HIDE DEF rest
<1>4. /\ r \in WindowWorkers /\ r.pc \in {"ask", "show"} /\ r.win = worker[w].win
      /\ r.job = worker[w].job
      /\ r.got = got /\ r.server = worker[w].server
  BY <1>1, <1>2 DEF WindowWorkers
<1> QED
  BY <1>3, <1>4

LEMMA WindowAskDnsInv ==
  ASSUME WindowsSized, WindowInv, NEW w \in N!Worker, NEW s \in Server, N!AskDns(w, s)
  PROVE  WindowInv'
<1> USE DEF WindowsSized, WindowInv
<1> DEFINE o == worker[w]
           i == worker[w].win
<1>0. o \in WindowWorkers /\ i \in N!Win /\ o.pc = "ask" /\ o.job = "dns" /\ N!Alive(w)
         /\ WindowRight(o)
  BY WindowWorkerHas DEF N!AskDns, N!Alive
<1>1. UNCHANGED <<app, there, winNow, opened, win, line, shown, tracer, started, failed,
                  lateWin, early, winFaults>>
  BY DEF N!AskDns
<1>2. PICK ms \in {1, 2, N!NoAnswer} :
        LET found == IF N!Fresh(i, s) THEN dnsCache[i][s] ELSE [ms |-> ms, at |-> winNow] IN
        /\ dnsCache' = [dnsCache EXCEPT ![i] = N!Remembered(@, s, found)]
        /\ N!Answered(w, s, o.got \cup {<<s, found, winNow>>})
  BY DEF N!AskDns
<1> DEFINE found == IF N!Fresh(i, s) THEN dnsCache[i][s] ELSE [ms |-> ms, at |-> winNow]
<1>3. winNow \in 0 .. MaxAge
  BY DEF WindowTyped, WindowAround
<1>4. found \in N!Answer /\ winNow - found.at < KeepFor
  <2>1. CASE N!Fresh(i, s)
    BY <1>0, <2>1 DEF N!Fresh, WindowTyped, WindowAround
  <2>2. CASE ~N!Fresh(i, s)
    <3>1. found = [ms |-> ms, at |-> winNow]
      BY <2>2
    <3>2. found \in N!Answer /\ found.at = winNow
      BY <1>3, <3>1 DEF N!Answer
    <3>3. winNow - winNow < KeepFor
      BY <1>3
    <3> QED
      BY <3>2, <3>3
  <2> QED
    BY <2>1, <2>2
<1>5. dnsCache' = [dnsCache EXCEPT ![i] = N!Remembered(@, s, found)]
         /\ N!Answered(w, s, o.got \cup {<<s, found, winNow>>})
  BY <1>2
<1> HIDE DEF found
<1> DEFINE p == <<s, found, winNow>>
<1>6. p \in WindowAsked /\ p[3] - p[2].at < KeepFor
  BY <1>3, <1>4 DEF WindowAsked
<1> HIDE DEF p
<1>7. o.got \cup {p} \in SUBSET WindowFound
  BY <1>0, <1>6 DEF WindowWorkers, WindowFound
<1>8. PICK r \in WindowWorkers : /\ worker' = [worker EXCEPT ![w] = r]
                                 /\ r.pc \in {"ask", "show"}
                                 /\ r.win = i /\ r.job = o.job /\ r.got = o.got \cup {p}
  BY <1>0, <1>5, <1>7, WindowAnsweredHas DEF p
<1>9. WindowRight(r)
  <2>1. WindowHeard(r)
    BY <1>0, <1>6, <1>8 DEF WindowRight, WindowHeard
  <2> QED
    BY <1>0, <1>8, <2>1 DEF WindowRight, WindowStage, WindowScanned, WindowScans
<1>10. WindowAround'
  <2>1. DOMAIN dnsCache' = N!Win
           /\ \A j \in N!Win : \A q \in DOMAIN dnsCache'[j] : dnsCache'[j][q] \in N!Answer
    BY <1>0, <1>4, <1>5, WindowCacheHas
  <2> QED
    BY <1>1, <2>1 DEF WindowTyped, WindowAround
<1>11. N!ScanTrue'
  BY <1>1, WindowScanStays
<1>12. \A j \in N!Win : N!Halted(j) => N!Halted(j)'
  BY <1>1 DEF N!Halted
<1> QED
  BY <1>0, <1>1, <1>8, <1>9, <1>10, <1>11, <1>12, WindowStepInv

LEMMA WindowAskInv ==
  ASSUME WindowsSized, WindowInv, NEW w \in N!Worker, NEW s \in Server, N!Ask(w, s)
  PROVE  WindowInv'
<1> USE DEF WindowsSized, WindowInv
<1> DEFINE o == worker[w]
<1>0. o \in WindowWorkers /\ o.pc = "ask" /\ N!Alive(w) /\ WindowRight(o)
  BY WindowWorkerHas DEF N!Ask, N!Alive
<1>1. UNCHANGED <<app, there, winNow, opened, win, line, shown, tracer, dnsCache, started,
                  failed, lateWin, early, winFaults>>
  BY DEF N!Ask
<1>2. o.job \in {"health", "resolve"} /\ N!Answered(w, s, {})
  BY DEF N!Ask, N!AskHealth, N!AskResolve
<1>3. PICK r \in WindowWorkers : /\ worker' = [worker EXCEPT ![w] = r]
                                 /\ r.pc \in {"ask", "show"}
                                 /\ r.win = o.win /\ r.job = o.job
  BY <1>0, <1>2, WindowAnsweredHas
<1>4. WindowRight(r)
  BY <1>2, <1>3 DEF WindowRight, WindowStage, WindowScanned, WindowHeard, WindowScans
<1>5. winFaults' \in 0 .. MaxFailed
  BY <1>1 DEF WindowTyped, WindowAround
<1> QED
  BY <1>0, <1>1, <1>3, <1>4, <1>5, WindowInnerInv

\* What is shown, in a window that is there.
WindowDisplayed(i, what, results, wrong) ==
    /\ line' \in [N!Win -> {"idle", "busy", "done", "clean", "doubts", "threats", "error"}]
    /\ shown' \in [N!Win -> SUBSET WindowFound] /\ failed' \in [N!Win -> BOOLEAN]
    /\ \A j \in N!Win : \/ line'[j] = line[j] /\ shown'[j] = shown[j]
                           /\ failed'[j] = failed[j]
                        \/ j = i /\ line'[j] = what /\ shown'[j] = results
                            /\ failed'[j] = wrong

LEMMA WindowToldHas ==
  ASSUME WindowsSized, WindowAround, NEW i \in N!Win,
         NEW what \in {"idle", "busy", "done", "clean", "doubts", "threats", "error"},
         NEW results \in SUBSET WindowFound, NEW wrong \in BOOLEAN, N!Told(i, what,
                                                                           results, wrong)
  PROVE  WindowDisplayed(i, what, results, wrong)
<1>1. CASE win[i].open
  <2>1. /\ line' = [line EXCEPT ![i] = what] /\ shown' = [shown EXCEPT ![i] = results]
        /\ failed' = [failed EXCEPT ![i] = wrong]
    BY <1>1 DEF N!Told
  <2> QED
    BY <2>1 DEF WindowAround, WindowDisplayed
<1>2. CASE ~win[i].open
  <2>1. line' = line /\ shown' = shown /\ failed' = failed
    BY <1>2 DEF N!Told
  <2> QED
    BY <2>1 DEF WindowAround, WindowDisplayed
<1> QED
  BY <1>1, <1>2

WindowEnded(w, r) == /\ worker' = [worker EXCEPT ![w] = r] /\ r.pc = "end"
                     /\ r.win = worker[w].win
                     /\ r.job = worker[w].job /\ r.got = worker[w].got
                     /\ r.server = worker[w].server

LEMMA WindowEnds ==
  ASSUME WindowsSized, WindowInv, NEW w \in N!Worker,
         N!Set(w, [worker[w] EXCEPT !.pc = "end"])
  PROVE  \E r \in WindowWorkers : WindowEnded(w, r)
<1> DEFINE r == [worker[w] EXCEPT !.pc = "end"]
<1>1. worker[w] \in WindowWorkers
  BY WindowWorkerHas
<1>2. /\ r \in WindowWorkers /\ r.pc = "end" /\ r.win = worker[w].win
      /\ r.job = worker[w].job /\ r.got = worker[w].got /\ r.server = worker[w].server
  BY <1>1 DEF WindowWorkers
<1>3. worker' = [worker EXCEPT ![w] = r]
  BY DEF N!Set
<1> HIDE DEF r
<1> QED
  BY <1>2, <1>3 DEF WindowEnded

\* A worker shows what it has, or that it has nothing.
LEMMA WindowToldInv ==
  ASSUME WindowsSized, WindowInv, NEW w \in N!Worker, N!Alive(w), worker[w].pc # "begin",
         NEW r \in WindowWorkers, WindowEnded(w, r),
         UNCHANGED <<app, there, winNow, opened, win, tracer, dnsCache, started, lateWin,
                     early>>,
         winFaults' \in 0 .. MaxFailed,
         NEW what \in {"idle", "busy", "done", "clean", "doubts", "threats", "error"},
         NEW results \in SUBSET WindowFound, NEW wrong \in BOOLEAN,
         N!Told(worker[w].win, what, results, wrong),
         win[worker[w].win].kind = "security" =>
            /\ results \subseteq N!Threats
            /\ what \in {"doubts", "threats"} => N!Threats # {}
            /\ what = "clean" /\ ~wrong
                => \A x \in N!Threats : x.cat \notin {"connections", "hosts"}
  PROVE  WindowInv'
<1> USE DEF WindowsSized, WindowInv
<1>0. worker[w] \in WindowWorkers /\ worker[w].win \in N!Win /\ WindowRight(worker[w])
  BY WindowWorkerHas
<1>1. PICK i \in N!Win : i = worker[w].win
  BY <1>0
<1>2. /\ worker' = [worker EXCEPT ![w] = r] /\ r.pc = "end" /\ r.win = i
      /\ r.job = worker[w].job /\ r.got = worker[w].got /\ r.server = worker[w].server
  BY <1>1 DEF WindowEnded
<1>3. WindowRight(r)
  BY <1>0, <1>2 DEF WindowRight, WindowStage, WindowScanned, WindowHeard, WindowScans,
     N!Alive, WindowWorkers
<1>4. /\ line' \in [N!Win -> {"idle", "busy", "done", "clean", "doubts", "threats",
                              "error"}]
      /\ shown' \in [N!Win -> SUBSET WindowFound] /\ failed' \in [N!Win -> BOOLEAN]
      /\ \A j \in N!Win : \/ line'[j] = line[j] /\ shown'[j] = shown[j]
                             /\ failed'[j] = failed[j]
                          \/ j = i /\ line'[j] = what /\ shown'[j] = results
                              /\ failed'[j] = wrong
  <2>1. WindowAround /\ N!Told(i, what, results, wrong)
    BY <1>1 DEF WindowTyped
  <2> HIDE DEF WindowsSized, WindowInv
  <2>2. WindowDisplayed(i, what, results, wrong)
    BY <2>1, WindowToldHas, Zenon
  <2> QED
    BY <2>2 DEF WindowDisplayed
<1>5. WindowAround'
  BY <1>4 DEF WindowTyped, WindowAround
<1>6. N!ScanTrue'
  <2>1. N!Threats' = N!Threats
    BY WindowThreatsStay
  <2> SUFFICES ASSUME NEW j \in N!Win, win[j].kind = "security"
               PROVE  /\ shown'[j] \subseteq N!Threats
                      /\ line'[j] \in {"doubts", "threats"} => N!Threats # {}
                      /\ line'[j] = "clean" /\ ~failed'[j] =>
                            \A x \in N!Threats : x.cat \notin {"connections", "hosts"}
    BY <2>1 DEF N!ScanTrue
  <2>2. CASE line'[j] = line[j] /\ shown'[j] = shown[j] /\ failed'[j] = failed[j]
    BY <2>2 DEF N!ScanTrue
  <2>3. CASE j = i /\ line'[j] = what /\ shown'[j] = results /\ failed'[j] = wrong
    BY <1>1, <2>3
  <2> QED
    BY <1>4, <2>2, <2>3
<1>7. \A j \in N!Win : N!Halted(j) => N!Halted(j)'
  BY DEF N!Halted
<1> QED
  BY <1>0, <1>1, <1>2, <1>3, <1>5, <1>6, <1>7, WindowStepInv

\* Only scans run in a window of that kind.
LEMMA WindowKindOf ==
  ASSUME WindowsSized, WindowInv, NEW w \in N!Worker, N!Alive(w)
  PROVE  /\ win[worker[w].win].kind = "security" => worker[w].job \in WindowScans
         /\ win[worker[w].win].kind \in {"trace", "security"}
<1>1. win[worker[w].win].kind \in {"trace", "security"}
  BY WindowWorkerHas DEF Windows, WindowsSized
<1>2. worker[w].job \in N!Jobs[win[worker[w].win].kind]
  BY DEF WindowInv, WindowLabour
<1>3. N!Jobs["security"] = WindowScans
  BY DEF N!Jobs, WindowScans
<1> QED
  BY <1>1, <1>2, <1>3

LEMMA WindowTooLongInv ==
  ASSUME WindowsSized, WindowInv, NEW w \in N!Worker, N!AskedTooLong(w)
  PROVE  WindowInv'
<1> USE DEF WindowsSized, WindowInv
<1> DEFINE o == worker[w]
<1>0. o \in WindowWorkers /\ o.pc = "ask" /\ o.job = "dns" /\ N!Alive(w) /\ o.win \in N!Win
  BY WindowWorkerHas DEF N!AskedTooLong, N!Alive
<1>8. PICK r \in WindowWorkers : WindowEnded(w, r)
  BY WindowEnds DEF N!AskedTooLong
<1>1. /\ UNCHANGED <<app, there, winNow, opened, win, tracer, dnsCache, started, lateWin,
                     early>>
      /\ N!Told(o.win, "error", shown[o.win], failed[o.win])
      /\ winFaults < MaxFailed /\ winFaults' = winFaults + 1
  BY DEF N!AskedTooLong
<1>2. winFaults' \in 0 .. MaxFailed /\ shown[o.win] \in SUBSET WindowFound
         /\ failed[o.win] \in BOOLEAN
  BY <1>0, <1>1 DEF WindowTyped, WindowAround
<1>3. win[o.win].kind # "security"
  BY <1>0, WindowKindOf DEF WindowScans
<1> QED
  BY <1>8, <1>0, <1>1, <1>2, <1>3, WindowToldInv

\* A check of a scan: what it finds is there, and all of it unless it failed.
LEMMA WindowDetectInv ==
  ASSUME WindowsSized, WindowInv, NEW w \in N!Worker, N!Detect(w)
  PROVE  WindowInv'
<1> USE DEF WindowsSized, WindowInv
<1> DEFINE o == worker[w]
           here == WindowChecks(worker[w].job, worker[w].server)
<1>0. o \in WindowWorkers /\ o.pc = "scan" /\ N!Alive(w) /\ WindowRight(o)
         /\ o.job \in WindowScans
  <2>1. o \in WindowWorkers /\ o.pc = "scan" /\ N!Alive(w) /\ WindowRight(o)
    BY WindowWorkerHas DEF N!Detect, N!Alive
  <2> QED
    BY <2>1 DEF WindowRight, WindowStage, WindowWorkers, WindowScans
<1>1. UNCHANGED <<app, there, winNow, opened, win, line, shown, tracer, dnsCache, started,
                  failed, lateWin, early>>
  BY DEF N!Detect
<1>2. PICK found \in SUBSET here, wrong \in BOOLEAN :
        N!Checked(w, found, wrong) /\ (~wrong => found = here)
           /\ winFaults' \in 0 .. MaxFailed
  <2>1. CASE N!Checked(w, here, FALSE) /\ UNCHANGED winFaults
    BY <2>1 DEF WindowTyped, WindowAround
  <2>2. CASE winFaults < MaxFailed /\ winFaults' = winFaults + 1
             /\ \E part \in {{}} \cup {{x} : x \in here} : N!Checked(w, part, TRUE)
    <3>1. PICK part \in {{}} \cup {{x} : x \in here} : N!Checked(w, part, TRUE)
      BY <2>2
    <3>2. part \in SUBSET here
      OBVIOUS
    <3>3. winFaults' \in 0 .. MaxFailed
      BY <2>2 DEF WindowTyped, WindowAround
    <3> QED
      BY <3>1, <3>2, <3>3
  <2> QED
    BY <2>1, <2>2 DEF N!Detect, WindowChecks
<1> DEFINE n == Len(N!Plan[worker[w].job])
           r == [o EXCEPT !.server = @ + 1, !.got = @ \cup found, !.failed = @ \/ wrong,
                          !.pc = IF o.server = n THEN "show" ELSE "scan"]
<1>3. worker' = [worker EXCEPT ![w] = r]
  BY <1>2 DEF N!Checked, N!Set
<1>4. n \in {2, 4} /\ o.server \in 1 .. n
  <2>1. n \in {2, 4}
    BY <1>0, WindowPlans
  <2>2. o.server \in 1 .. n + 1 /\ o.server <= n
    BY <1>0 DEF WindowRight, WindowScanned
  <2> HIDE DEF n
  <2> QED
    BY <2>1, <2>2
<1>5. here \subseteq N!Threats /\ N!Threats \subseteq Item
  BY DEF WindowChecks, N!Threats, WindowTyped, WindowAround
<1>6. o.server + 1 \in WindowServers /\ o.got \cup found \in SUBSET WindowFound
         /\ (o.failed \/ wrong) \in BOOLEAN
  <2>1. o.server + 1 \in 1 .. 5
    <3> HIDE DEF n
    <3> QED
      BY <1>4
  <2> QED
    BY <1>0, <1>5, <2>1 DEF WindowServers, WindowFound, WindowWorkers
<1> HIDE DEF n
<1>7. /\ r \in WindowWorkers /\ r.pc = IF o.server = n THEN "show" ELSE "scan"
      /\ r.win = o.win /\ r.job = o.job /\ r.server = o.server + 1
      /\ r.got = o.got \cup found
      /\ r.failed = (o.failed \/ wrong)
  BY <1>0, <1>6 DEF WindowWorkers
<1> HIDE DEF r, here
<1>8. WindowScanned(r)
  <2>1. /\ o.got \subseteq N!Threats
        /\ ~o.failed => \A k \in 1 .. n : k < o.server
            => WindowChecks(o.job, k) \subseteq o.got
    BY <1>0 DEF WindowRight, WindowScanned, n
  <2>2. r.got \subseteq N!Threats
    BY <1>2, <1>5, <1>7, <2>1
  <2>3. ASSUME ~r.failed, NEW k \in 1 .. n, k < r.server
        PROVE WindowChecks(r.job, k) \subseteq r.got
    <3>1. ~o.failed /\ ~wrong /\ found = here
      BY <1>2, <1>7, <2>3
    <3>2. CASE k < o.server
      BY <1>7, <2>1, <3>1, <3>2
    <3>3. CASE ~(k < o.server)
      <4>1. k = o.server
        BY <1>4, <1>7, <2>3, <3>3
      <4> QED
        BY <1>7, <3>1, <4>1 DEF here
    <3> QED
      BY <3>2, <3>3
  <2>4. /\ r.server \in 1 .. n + 1
        /\ IF r.pc = "show" THEN r.server = n + 1 ELSE r.server <= n
    BY <1>4, <1>7
  <2>5. n = Len(N!Plan[r.job])
    BY <1>7 DEF n
  <2> QED
    BY <2>2, <2>3, <2>4, <2>5 DEF WindowScanned
<1>9. WindowRight(r)
  BY <1>0, <1>7, <1>8 DEF WindowRight, WindowStage, WindowHeard, WindowScans
<1> QED
  BY <1>0, <1>1, <1>2, <1>3, <1>7, <1>9, WindowInnerInv

LEMMA WindowShowInv ==
  ASSUME WindowsSized, WindowInv, NEW w \in N!Worker, N!Show(w)
  PROVE  WindowInv'
<1> USE DEF WindowsSized, WindowInv
<1> DEFINE o == worker[w]
<1>0. o \in WindowWorkers /\ o.pc = "show" /\ N!Alive(w) /\ WindowRight(o)
         /\ o.got \in SUBSET WindowFound /\ o.failed \in BOOLEAN
  BY WindowWorkerHas DEF N!Show, N!Alive, WindowWorkers
<1>8. PICK r \in WindowWorkers : WindowEnded(w, r)
  BY WindowEnds DEF N!Show
<1>1. UNCHANGED <<app, there, winNow, opened, win, tracer, dnsCache, started, lateWin,
                  early, winFaults>>
  BY DEF N!Show
<1>2. winFaults' \in 0 .. MaxFailed
  BY <1>1 DEF WindowTyped, WindowAround
<1>3. CASE o.job \in {"dns", "health", "resolve", "trace"}
  <2>1. PICK results \in SUBSET WindowFound : N!Told(o.win, "done", results, FALSE)
    <3>0. {} \in SUBSET WindowFound /\ \A p \in N!Best(o.got) : {p} \in SUBSET WindowFound
      BY <1>0 DEF N!Best
    <3>1. CASE o.job = "dns"
      BY <3>0, <3>1 DEF N!Show, N!ShowDns
    <3>2. CASE o.job # "dns"
      BY <1>3, <3>0, <3>2 DEF N!Show, N!ShowHealth, N!ShowResolve, N!ShowTrace
    <3> QED
      BY <3>1, <3>2
  <2>2. win[o.win].kind # "security"
    BY <1>0, <1>3, WindowKindOf DEF WindowScans
  <2> QED
    BY <1>8, <1>0, <1>1, <1>2, <2>1, <2>2, WindowToldInv
<1>4. CASE o.job \in WindowScans
  <2>1. N!Told(o.win, N!Verdict(Cardinality(o.got)), o.got, o.failed)
    BY <1>4, WindowCount DEF N!Show, N!ShowScan, WindowScans
  <2>2. IsFiniteSet(N!Threats)
    BY FS_Subset DEF N!Threats, WindowTyped, WindowAround
  <2>3. /\ o.got \subseteq N!Threats
        /\ ~o.failed => \A k \in 1 .. Len(N!Plan[o.job]) : WindowChecks(o.job,
                                                                        k) \subseteq o.got
    <3>1. PICK n : n = Len(N!Plan[o.job]) /\ n \in {2, 4}
      BY <1>4, WindowPlans
    <3>2. \A k \in 1 .. n : k < n + 1
      BY <3>1
    <3> QED
      BY <1>0, <1>4, <3>1, <3>2 DEF WindowRight, WindowScanned
  <2>4. Cardinality(o.got) \in Nat /\ (Cardinality(o.got) = 0 <=> o.got = {})
    BY <2>2, <2>3, FS_Subset, FS_CardinalityType, FS_EmptySet
  <2> DEFINE what == N!Verdict(Cardinality(o.got))
  <2>5. /\ what \in {"clean", "doubts", "threats"} /\ (what = "clean" <=> o.got = {})
    BY <2>4 DEF N!Verdict
  <2> HIDE DEF what
  <2>6. ASSUME what = "clean", ~o.failed, NEW x \in N!Threats
        PROVE x.cat \notin {"connections", "hosts"}
    <3>1. \A k \in 1 .. Len(N!Plan[o.job]) : N!Plan[o.job][k] # x.cat
      BY <2>3, <2>5, <2>6 DEF WindowChecks
    <3> QED
      BY <1>4, <3>1, WindowPlans
  <2>7. what \in {"idle", "busy", "done", "clean", "doubts", "threats", "error"}
    BY <2>5
  <2>8. what \in {"doubts", "threats"} => N!Threats # {}
    BY <2>3, <2>5
  <2>9. N!Told(o.win, what, o.got, o.failed)
    BY <2>1 DEF what
  <2> QED
    BY <1>8, <1>0, <1>1, <1>2, <2>3, <2>6, <2>7, <2>8, <2>9, WindowToldInv
<1> QED
  BY <1>0, <1>3, <1>4 DEF WindowWorkers, WindowScans

\* A worker has ended: the button is free.
LEMMA WindowEndInv ==
  ASSUME WindowsSized, WindowInv, NEW w \in N!Worker, N!End(w)
  PROVE  WindowInv'
<1> USE DEF WindowsSized, WindowInv
<1> DEFINE i == worker[w].win
<1>0. i \in N!Win /\ N!Alive(w) /\ i <= opened
  BY WindowWorkerHas DEF N!End, N!Alive, WindowLabour
<1>1. /\ UNCHANGED <<app, there, winNow, opened, line, shown, tracer, dnsCache, started,
                     failed, lateWin, early, winFaults>>
      /\ worker' = [worker EXCEPT ![w] = N!Idle] /\ win' = [win EXCEPT ![i].busy = FALSE]
  BY DEF N!End, N!Set, N!Freed
<1>2. N!Idle \in WindowWorkers /\ N!Idle.pc = "none"
  BY WindowIdleHas
<1>3. /\ worker' \in [N!Worker -> WindowWorkers] /\ worker'[w] = N!Idle
      /\ \A v \in N!Worker \ {w} : worker'[v] = worker[v]
  BY <1>1, <1>2, WindowGoes
<1>4. /\ win' \in [N!Win -> Windows] /\ \A j \in N!Win \ {i} : win'[j] = win[j]
      /\ ~win'[i].busy /\ win'[i].open = win[i].open /\ win'[i].kind = win[i].kind
  <2> DEFINE q == [win[i] EXCEPT !.busy = FALSE]
  <2>0. win \in [N!Win -> Windows]
    BY DEF WindowTyped, WindowAround
  <2>1. q \in Windows /\ ~q.busy /\ q.open = win[i].open /\ q.kind = win[i].kind
    <3>1. win[i] \in Windows
      BY <1>0, <2>0
    <3> QED
      BY <3>1 DEF Windows
  <2>2. win' = [win EXCEPT ![i] = q]
    BY <1>1, <2>0
  <2> HIDE DEF q
  <2> QED
    BY <1>0, <2>0, <2>1, <2>2
<1>5. ~N!Alive(w)' /\ \A v \in N!Worker \ {w} : N!Alive(v)' <=> N!Alive(v)
  BY <1>2, <1>3 DEF N!Alive
<1>6. WindowTyped'
  BY <1>1, <1>3, <1>4 DEF WindowTyped, WindowAround
<1>7. \A j \in N!Win : win'[j].kind = win[j].kind /\ win'[j].open = win[j].open
  BY <1>4
<1>8. WindowLabour'
  <2> SUFFICES ASSUME NEW v \in N!Worker \ {w}, N!Alive(v)
               PROVE  /\ v <= started /\ worker'[v].win <= opened
                      /\ worker'[v].job \in N!Jobs[win'[worker'[v].win].kind]
                      /\ WindowRight(worker[v])'
    BY <1>1, <1>5 DEF WindowLabour
  <2>1. PICK q : q = worker'[v] /\ q = worker[v]
    BY <1>3
  <2>2. WindowRight(worker[v])'
    BY <1>1, <2>1, WindowRightAgain DEF WindowLabour
  <2>3. worker[v].win \in N!Win
    BY WindowWorkerHas
  <2> QED
    BY <1>3, <1>7, <2>2, <2>3 DEF WindowLabour
<1>9. WindowOne'
  <2>1. \A v \in N!Worker : N!Alive(v)' => worker[v].win # i
    BY <1>0, <1>5 DEF WindowOne
  <2>2. \A j \in N!Win \ {i} : (\E v \in N!Worker : N!Alive(v)' /\ worker'[v].win = j)
                               <=> (\E v \in N!Worker : N!Alive(v) /\ worker[v].win = j)
    BY <1>3, <1>5
  <2>3. \A v, u \in N!Worker : N!Alive(v)' /\ N!Alive(u)'
           /\ worker'[v].win = worker'[u].win => v = u
    BY <1>3, <1>5 DEF WindowOne
  <2>4. \A j \in N!Win : win'[j].open => (win'[j].busy
           <=> \E v \in N!Worker : N!Alive(v)' /\ worker'[v].win = j)
    <3> SUFFICES ASSUME NEW j \in N!Win, win'[j].open
                 PROVE  win'[j].busy <=> \E v \in N!Worker : N!Alive(v)'
                          /\ worker'[v].win = j
      OBVIOUS
    <3>1. CASE j = i
      BY <1>3, <1>4, <1>5, <2>1, <3>1
    <3>2. CASE j # i
      BY <1>4, <2>2, <3>2 DEF WindowOne
    <3> QED
      BY <3>1, <3>2
  <2> QED
    BY <2>3, <2>4 DEF WindowOne
<1>10. WindowClosing'
  <2>1. \A j \in N!Win : j > opened => ~win'[j].busy
    BY <1>4 DEF WindowClosing
  <2>2. \A v \in N!Worker : N!Alive(v)' => N!Alive(v) /\ worker'[v] = worker[v]
    BY <1>3, <1>5
  <2> QED
    BY <1>1, <1>7, <2>1, <2>2 DEF WindowClosing, N!Halted
<1>11. N!ScanTrue'
  BY <1>1, <1>7, WindowScanStays
<1> QED
  BY <1>6, <1>8, <1>9, <1>10, <1>11

-----------------------------------------------------------------------------
\* The main thread.

\* Nothing but the display, the clock or a flag of a window.
LEMMA WindowMainInv ==
  ASSUME WindowsSized, WindowInv,
         UNCHANGED <<there, opened, worker, started, tracer, lateWin, early>>,
         WindowAround', N!ScanTrue',
         \A i \in N!Win : win'[i].open = win[i].open /\ win'[i].busy = win[i].busy
            /\ win'[i].kind = win[i].kind
  PROVE  WindowInv'
<1> USE DEF WindowInv
<1>1. WindowTyped'
  BY DEF WindowTyped
<1>2. WindowLabour'
  <2> SUFFICES ASSUME NEW v \in N!Worker, N!Alive(v)
               PROVE  /\ v <= started /\ worker[v].win <= opened
                      /\ worker[v].job \in N!Jobs[win'[worker[v].win].kind]
                      /\ WindowRight(worker[v])'
    BY DEF WindowLabour, N!Alive
  <2>1. PICK q : q = worker'[v] /\ q = worker[v]
    OBVIOUS
  <2>2. WindowRight(worker[v])'
    BY <2>1, WindowRightAgain DEF WindowLabour
  <2>3. worker[v].win \in N!Win
    BY WindowWorkerHas
  <2> QED
    BY <2>2, <2>3 DEF WindowLabour
<1>3. \A v \in N!Worker : N!Alive(v)' <=> N!Alive(v)
  BY DEF N!Alive
<1>4. WindowOne'
  BY <1>3 DEF WindowOne
<1>5. WindowClosing'
  BY <1>3 DEF WindowClosing, N!Halted
<1> QED
  BY <1>1, <1>2, <1>4, <1>5

LEMMA WindowRefreshInv ==
  ASSUME WindowsSized, WindowInv, NEW i \in N!Win, N!Refresh(i)
  PROVE  WindowInv'
<1>1. /\ UNCHANGED <<app, there, winNow, opened, win, line, tracer, dnsCache, worker,
                     started, failed, lateWin, early, winFaults>>
      /\ shown' = [shown EXCEPT ![i] = {}]
  BY DEF N!Refresh
<1>2. /\ shown' \in [N!Win -> SUBSET WindowFound] /\ shown'[i] = {}
      /\ \A j \in N!Win \ {i} : shown'[j] = shown[j]
  BY <1>1 DEF WindowInv, WindowTyped, WindowAround
<1>3. WindowAround'
  BY <1>1, <1>2 DEF WindowInv, WindowTyped, WindowAround
<1>4. N!Threats' = N!Threats
  BY <1>1, WindowThreatsStay
<1>5. N!ScanTrue'
  BY <1>1, <1>2, <1>4 DEF WindowInv, N!ScanTrue
<1> QED
  BY <1>1, <1>3, <1>5, WindowMainInv

LEMMA WindowTickInv == ASSUME WindowsSized, WindowInv, N!Tick PROVE WindowInv'
<1>1. /\ UNCHANGED <<app, there, opened, win, line, shown, tracer, dnsCache, worker,
                     started, failed, lateWin, early, winFaults>>
      /\ winNow < MaxAge /\ winNow' = winNow + 1
  BY DEF N!Tick
<1>2. winNow' \in 0 .. MaxAge
  BY <1>1 DEF WindowInv, WindowTyped, WindowAround, WindowsSized
<1>3. WindowAround'
  BY <1>1, <1>2 DEF WindowInv, WindowTyped, WindowAround
<1>4. N!ScanTrue'
  BY <1>1, WindowScanStays DEF WindowInv
<1> QED
  BY <1>1, <1>3, <1>4, WindowMainInv

LEMMA WindowOpenInv == ASSUME WindowsSized, WindowInv, N!Open PROVE WindowInv'
<1> USE DEF WindowsSized, WindowInv
<1>1. PICK i \in N!Win : i = opened + 1
  BY DEF N!Open, WindowTyped, WindowAround, N!Win
<1>2. /\ UNCHANGED <<app, there, winNow, line, shown, tracer, dnsCache, worker, started,
                     failed, lateWin, early, winFaults>>
      /\ opened' = i /\ opened < MaxOpens
      /\ win' = [win EXCEPT ![i].open = TRUE, ![i].first = TRUE]
  BY <1>1 DEF N!Open
<1>3. opened \in Nat /\ MaxOpens \in Nat /\ i \in Nat /\ \A j \in N!Win : j \in Nat
  BY DEF WindowTyped, WindowAround, N!Win
<1>4. /\ win' \in [N!Win -> Windows] /\ \A j \in N!Win \ {i} : win'[j] = win[j]
      /\ win'[i].open /\ win'[i].busy = win[i].busy /\ win'[i].kind = win[i].kind
  <2> DEFINE q == [win[i] EXCEPT !.open = TRUE, !.first = TRUE]
  <2>0. win \in [N!Win -> Windows]
    BY DEF WindowTyped, WindowAround
  <2>1. q \in Windows /\ q.open /\ q.busy = win[i].busy /\ q.kind = win[i].kind
    BY <2>0 DEF Windows
  <2>2. win' = [win EXCEPT ![i] = q]
    BY <1>2, <2>0
  <2> HIDE DEF q
  <2> QED
    BY <2>0, <2>1, <2>2
<1>5. lateWin[i] = 0 /\ ~win[i].busy /\ i > opened
  BY <1>1, <1>3 DEF WindowClosing
<1>6. \A w \in N!Worker : N!Alive(w) => worker[w].win # i
  <2> SUFFICES ASSUME NEW w \in N!Worker, N!Alive(w) PROVE worker[w].win # i
    OBVIOUS
  <2>1. worker[w].win <= opened
    BY DEF WindowLabour
  <2> QED
    BY <1>1, <1>3, <2>1
<1>7. WindowTyped'
  <2>1. opened' \in 0 .. MaxOpens
    BY <1>1, <1>2, <1>3
  <2> QED
    BY <1>2, <1>4, <2>1 DEF WindowTyped, WindowAround
<1>8. \A w \in N!Worker : N!Alive(w)' <=> N!Alive(w)
  BY <1>2 DEF N!Alive
<1>9. \A j \in N!Win : win'[j].kind = win[j].kind
  BY <1>4
<1>10. WindowLabour'
  <2> SUFFICES ASSUME NEW v \in N!Worker, N!Alive(v)
               PROVE  /\ v <= started /\ worker[v].win <= i
                      /\ worker[v].job \in N!Jobs[win'[worker[v].win].kind]
                      /\ WindowRight(worker[v])'
    BY <1>2, <1>8 DEF WindowLabour
  <2>1. PICK q : q = worker'[v] /\ q = worker[v]
    BY <1>2
  <2>2. WindowRight(worker[v])'
    BY <1>2, <2>1, WindowRightAgain DEF WindowLabour
  <2>3. worker[v].win \in N!Win /\ worker[v].win <= opened
    BY WindowWorkerHas DEF WindowLabour
  <2>4. worker[v].win <= i
    <3>1. PICK n \in Nat : n = worker[v].win
      BY <1>3, <2>3
    <3> QED
      BY <1>1, <1>3, <2>3, <3>1
  <2> QED
    BY <1>9, <2>2, <2>3, <2>4 DEF WindowLabour
<1>11. WindowOne'
  <2>1. \A j \in N!Win : win'[j].open => (win'[j].busy
           <=> \E w \in N!Worker : N!Alive(w) /\ worker[w].win = j)
    <3> SUFFICES ASSUME NEW j \in N!Win, win'[j].open
                 PROVE  win'[j].busy <=> \E w \in N!Worker : N!Alive(w) /\ worker[w].win = j
      OBVIOUS
    <3>1. CASE j = i
      BY <1>4, <1>5, <1>6, <3>1
    <3>2. CASE j # i
      BY <1>4, <3>2 DEF WindowOne
    <3> QED
      BY <3>1, <3>2
  <2> QED
    BY <1>2, <1>8, <2>1 DEF WindowOne
<1>12. WindowClosing'
  <2> SUFFICES ASSUME NEW j \in N!Win
               PROVE  /\ win'[j].open => lateWin[j] = 0 /\ j <= i
                      /\ j > i => lateWin[j] = 0 /\ ~win'[j].busy
                      /\ ~win'[j].open /\ j \notin early =>
                            /\ N!Halted(j) /\ lateWin[j] <= 1
                            /\ \A w \in N!Worker : N!Alive(w) /\ worker[w].win = j =>
                                  worker[w].pc # "begin" /\ (worker[w].pc = "ping"
                                     => lateWin[j] = 0)
    BY <1>2, <1>8 DEF WindowClosing, N!Halted
  <2>1. CASE j = i
    BY <1>3, <1>4, <1>5, <2>1
  <2>2. CASE j # i
    <3>1. win'[j] = win[j] /\ (j <= opened => j <= i) /\ (j > i => j > opened)
      BY <1>1, <1>3, <1>4, <2>2
    <3> QED
      BY <3>1 DEF WindowClosing
  <2> QED
    BY <2>1, <2>2
<1>13. N!ScanTrue'
  BY <1>2, <1>9, WindowScanStays
<1> QED
  BY <1>7, <1>10, <1>11, <1>12, <1>13

\* A button: the window is there, and nobody works for it.
LEMMA WindowRunInv ==
  ASSUME WindowsSized, WindowInv, NEW i \in N!Win, win[i].open,
         NEW job \in N!Jobs[win[i].kind], NEW first \in BOOLEAN,
         N!Run(i, job, first)
  PROVE  WindowInv'
<1> USE DEF WindowsSized, WindowInv
<1> DEFINE r == [N!Idle EXCEPT !.win = i, !.job = job, !.pc = "begin"]
<1>1. PICK w \in N!Worker : w = started + 1
  BY DEF N!Run, WindowTyped, WindowAround, N!Worker
<1>2. /\ UNCHANGED <<app, there, winNow, opened, tracer, dnsCache, failed, lateWin, early,
                     winFaults>>
      /\ worker' = [worker EXCEPT ![w] = r] /\ started' = w /\ ~win[i].busy
      /\ win' = [win EXCEPT ![i].busy = TRUE, ![i].first = first]
      /\ line' = [line EXCEPT ![i] = "busy"] /\ shown' = [shown EXCEPT ![i] = {}]
  BY <1>1 DEF N!Run, N!Free
<1>3. started \in Nat /\ w \in Nat /\ w \in 0 .. MaxWorkers /\ \A v \in N!Worker : v \in Nat
  BY <1>1 DEF WindowTyped, WindowAround, N!Worker
<1>4. win \in [N!Win -> Windows] /\ win[i].kind \in {"trace", "security"}
  BY DEF WindowTyped, WindowAround, Windows
<1>5. job \in {"trace", "dns", "health", "resolve", "full", "quick"}
  <2>1. /\ N!Jobs["trace"] = {"trace", "dns", "health", "resolve"}
        /\ N!Jobs["security"] = {"full", "quick"}
    BY DEF N!Jobs
  <2> QED
    BY <1>4, <2>1
<1>6. /\ r \in WindowWorkers /\ r.win = i /\ r.job = job /\ r.pc = "begin" /\ r.server = 1
      /\ r.got = {} /\ r.todo = {} /\ r.failed = FALSE
  <2>1. 1 \in WindowServers /\ 1 \in 1 .. MaxHops + 1
    BY DEF WindowServers
  <2> QED
    BY <1>5, <2>1 DEF N!Idle, WindowWorkers
<1> HIDE DEF r
<1>7. /\ worker' \in [N!Worker -> WindowWorkers] /\ worker'[w] = r
      /\ \A v \in N!Worker \ {w} : worker'[v] = worker[v]
  BY <1>2, <1>6, WindowGoes
<1>8. ~N!Alive(w) /\ N!Alive(w)' /\ \A v \in N!Worker \ {w} : N!Alive(v)' <=> N!Alive(v)
  <2>1. ~N!Alive(w)
    <3>1. N!Alive(w) => w <= started
      BY DEF WindowLabour
    <3> QED
      BY <1>1, <1>3, <3>1
  <2> QED
    BY <1>6, <1>7, <2>1 DEF N!Alive
<1>9. /\ win' \in [N!Win -> Windows] /\ \A j \in N!Win \ {i} : win'[j] = win[j]
      /\ win'[i].open /\ win'[i].busy /\ win'[i].kind = win[i].kind
  <2> DEFINE q == [win[i] EXCEPT !.busy = TRUE, !.first = first]
  <2>1. q \in Windows /\ q.open /\ q.busy /\ q.kind = win[i].kind
    BY <1>4 DEF Windows
  <2>2. win' = [win EXCEPT ![i] = q]
    BY <1>2, <1>4
  <2> HIDE DEF q
  <2> QED
    BY <1>4, <2>1, <2>2
<1>10. ASSUME NEW j \in N!Win PROVE win'[j].kind = win[j].kind /\ win'[j].open = win[j].open
  <2>1. CASE j = i
    BY <1>9, <2>1
  <2>2. CASE j # i
    BY <1>9, <2>2
  <2> QED
    BY <2>1, <2>2
<1>11. /\ line' \in [N!Win -> {"idle", "busy", "done", "clean", "doubts", "threats",
                               "error"}]
       /\ shown' \in [N!Win -> SUBSET WindowFound] /\ line'[i] = "busy" /\ shown'[i] = {}
       /\ \A j \in N!Win \ {i} : line'[j] = line[j] /\ shown'[j] = shown[j]
  BY <1>2 DEF WindowTyped, WindowAround
<1>12. WindowTyped'
  BY <1>2, <1>3, <1>7, <1>9, <1>11 DEF WindowTyped, WindowAround
<1>13. WindowLabour'
  <2> SUFFICES ASSUME NEW v \in N!Worker, N!Alive(v)'
               PROVE  /\ v <= w /\ worker'[v].win <= opened
                      /\ worker'[v].job \in N!Jobs[win'[worker'[v].win].kind]
                      /\ WindowRight(worker[v])'
    BY <1>2 DEF WindowLabour
  <2>1. CASE v = w
    <3>1. i <= opened
      BY DEF WindowClosing
    <3>2. WindowRight(r)
      <4>1. WindowStage(r)
        BY <1>5, <1>6 DEF WindowStage, WindowScans
      <4>2. WindowScanned(r)
        <5> SUFFICES ASSUME r.job \in WindowScans PROVE WindowScanned(r)
          BY DEF WindowScanned
        <5>1. PICK n : n = Len(N!Plan[r.job]) /\ n \in {2, 4}
          BY WindowPlans
        <5>2. \A m \in {2, 4} : 1 \in 1 .. m + 1 /\ 1 <= m
          OBVIOUS
        <5>3. \A m : \A k \in 1 .. m : ~(k < 1)
          OBVIOUS
        <5> QED
          BY <1>6, <5>1, <5>2, <5>3 DEF WindowScanned
      <4> QED
        BY <1>6, <4>1, <4>2 DEF WindowRight, WindowHeard
    <3>3. WindowRight(worker[v])'
      BY <1>2, <1>7, <2>1, <3>2, WindowRightAgain
    <3> QED
      BY <1>3, <1>6, <1>7, <1>10, <2>1, <3>1, <3>3
  <2>2. CASE v # w
    <3>1. PICK q : q = worker'[v] /\ q = worker[v]
      BY <1>7, <2>2
    <3>2. N!Alive(v)
      BY <1>8, <2>2
    <3>3. WindowRight(worker[v])'
      BY <1>2, <3>1, <3>2, WindowRightAgain DEF WindowLabour
    <3>4. worker[v].win \in N!Win
      BY WindowWorkerHas
    <3>5. v <= w
      <4>1. v <= started
        BY <3>2 DEF WindowLabour
      <4> QED
        BY <1>1, <1>3, <4>1
    <3> QED
      BY <1>7, <1>10, <2>2, <3>2, <3>3, <3>4, <3>5 DEF WindowLabour
  <2> QED
    BY <2>1, <2>2
<1>14. WindowOne'
  <2>1. \A v \in N!Worker : N!Alive(v) => worker[v].win # i
    BY <1>2 DEF WindowOne
  <2>2. \A v, u \in N!Worker : N!Alive(v)' /\ N!Alive(u)'
           /\ worker'[v].win = worker'[u].win => v = u
    <3> SUFFICES ASSUME NEW v \in N!Worker, NEW u \in N!Worker, N!Alive(v)', N!Alive(u)',
                        worker'[v].win = worker'[u].win
                 PROVE  v = u
      OBVIOUS
    <3>1. CASE v = w /\ u # w
      BY <1>6, <1>7, <1>8, <2>1, <3>1
    <3>2. CASE v # w /\ u = w
      BY <1>6, <1>7, <1>8, <2>1, <3>2
    <3>3. CASE v # w /\ u # w
      BY <1>7, <1>8, <3>3 DEF WindowOne
    <3> QED
      BY <3>1, <3>2, <3>3
  <2>3. \A j \in N!Win : win'[j].open => (win'[j].busy
           <=> \E v \in N!Worker : N!Alive(v)' /\ worker'[v].win = j)
    <3> SUFFICES ASSUME NEW j \in N!Win, win'[j].open
                 PROVE  win'[j].busy <=> \E v \in N!Worker : N!Alive(v)'
                          /\ worker'[v].win = j
      OBVIOUS
    <3>1. CASE j = i
      BY <1>6, <1>7, <1>8, <1>9, <3>1
    <3>2. CASE j # i
      <4>1. (\E v \in N!Worker : N!Alive(v)' /\ worker'[v].win = j)
              <=> (\E v \in N!Worker : N!Alive(v) /\ worker[v].win = j)
        BY <1>6, <1>7, <1>8, <3>2
      <4> QED
        BY <1>9, <3>2, <4>1 DEF WindowOne
    <3> QED
      BY <3>1, <3>2
  <2> QED
    BY <2>2, <2>3 DEF WindowOne
<1>15. WindowClosing'
  <2> SUFFICES ASSUME NEW j \in N!Win
               PROVE  /\ win'[j].open => lateWin[j] = 0 /\ j <= opened
                      /\ j > opened => lateWin[j] = 0 /\ ~win'[j].busy
                      /\ ~win'[j].open /\ j \notin early =>
                            /\ N!Halted(j) /\ lateWin[j] <= 1
                            /\ \A v \in N!Worker : N!Alive(v)' /\ worker'[v].win = j =>
                                  worker'[v].pc # "begin" /\ (worker'[v].pc = "ping"
                                     => lateWin[j] = 0)
    BY <1>2 DEF WindowClosing, N!Halted
  <2>1. CASE j = i
    <3>1. lateWin[i] = 0 /\ i <= opened
      BY DEF WindowClosing
    <3>2. ~(i > opened)
      <4>1. i \in Nat /\ opened \in Nat
        BY DEF WindowTyped, WindowAround, N!Win
      <4> QED
        BY <3>1, <4>1
    <3> QED
      BY <1>9, <2>1, <3>1, <3>2
  <2>2. CASE j # i
    <3>1. win'[j] = win[j]
      BY <1>9, <2>2
    <3>2. \A v \in N!Worker : N!Alive(v)' /\ worker'[v].win = j => N!Alive(v)
             /\ worker'[v] = worker[v]
      BY <1>6, <1>7, <1>8, <2>2
    <3> QED
      BY <3>1, <3>2 DEF WindowClosing
  <2> QED
    BY <2>1, <2>2
<1>16. N!ScanTrue'
  <2>1. N!Threats' = N!Threats
    BY <1>2, WindowThreatsStay
  <2> SUFFICES ASSUME NEW j \in N!Win, win[j].kind = "security"
               PROVE  /\ shown'[j] \subseteq N!Threats
                      /\ line'[j] \in {"doubts", "threats"} => N!Threats # {}
                      /\ line'[j] = "clean" /\ ~failed[j] =>
                            \A x \in N!Threats : x.cat \notin {"connections", "hosts"}
    BY <1>2, <1>10, <2>1 DEF N!ScanTrue
  <2>2. CASE j = i
    BY <1>11, <2>2
  <2>3. CASE j # i
    BY <1>11, <2>3 DEF N!ScanTrue
  <2> QED
    BY <2>2, <2>3
<1> QED
  BY <1>12, <1>13, <1>14, <1>15, <1>16

LEMMA WindowPressInv ==
  ASSUME WindowsSized, WindowInv, NEW i \in N!Win, N!Press(i)
  PROVE  WindowInv'
<1>1. PICK job \in N!Jobs[win[i].kind] : N!Run(i, job, win[i].first) /\ win[i].open
  BY DEF N!Press
<1>2. win[i].first \in BOOLEAN
  BY DEF WindowInv, WindowTyped, WindowAround, Windows
<1> QED
  BY <1>1, <1>2, WindowRunInv

LEMMA WindowFirstInv ==
  ASSUME WindowsSized, WindowInv, NEW i \in N!Win, N!First(i)
  PROVE  WindowInv'
<1>1. CASE N!Run(i, IF win[i].kind = "trace" THEN "trace" ELSE "full", FALSE)
  <2>1. win[i].open /\ win[i].kind \in {"trace", "security"}
    BY DEF N!First, WindowInv, WindowTyped, WindowAround, Windows, WindowsSized
  <2>2. "trace" \in N!Jobs["trace"] /\ "full" \in N!Jobs["security"]
    BY DEF N!Jobs
  <2>3. PICK job \in N!Jobs[win[i].kind] : job = IF win[i].kind = "trace" THEN "trace" ELSE "full"
    BY <2>1, <2>2
  <2> QED
    BY <1>1, <2>1, <2>3, WindowRunInv
<1>2. CASE win[i].busy /\ win' = [win EXCEPT ![i].first = FALSE]
           /\ UNCHANGED <<app, there, winNow, opened, line, shown, tracer, dnsCache, worker,
                          started, failed, lateWin, early, winFaults>>
  <2> DEFINE q == [win[i] EXCEPT !.first = FALSE]
  <2>1. win \in [N!Win -> Windows]
    BY DEF WindowInv, WindowTyped, WindowAround
  <2>2. q \in Windows /\ q.open = win[i].open /\ q.busy = win[i].busy
           /\ q.kind = win[i].kind
    BY <2>1 DEF Windows
  <2>3. win' = [win EXCEPT ![i] = q]
    BY <1>2, <2>1
  <2> HIDE DEF q
  <2>4. /\ win' \in [N!Win -> Windows]
        /\ \A j \in N!Win : win'[j].open = win[j].open /\ win'[j].busy = win[j].busy
            /\ win'[j].kind = win[j].kind
    BY <2>1, <2>2, <2>3
  <2>5. WindowAround'
    BY <1>2, <2>4 DEF WindowInv, WindowTyped, WindowAround
  <2>6. N!ScanTrue'
    BY <1>2, <2>4, WindowScanStays DEF WindowInv
  <2> QED
    BY <1>2, <2>4, <2>5, <2>6, WindowMainInv
<1> QED
  BY <1>1, <1>2 DEF N!First

\* What is closed has told its tracer to stop; a trace not begun does not see it.
LEMMA WindowShutInv ==
  ASSUME WindowsSized, WindowInv, NEW II \in SUBSET N!Win, \A i \in II : win[i].open,
         N!Shut(II), app' \in {"on", "closing"}
  PROVE  WindowInv'
<1> USE DEF WindowsSized, WindowInv
<1>1. /\ UNCHANGED <<there, winNow, opened, line, shown, dnsCache, worker, started, failed,
                     lateWin, winFaults>>
      /\ early' = early \cup {i \in II : \E w \in N!Of(i) : worker[w].pc = "begin"}
  BY DEF N!Shut
<1>2. win \in [N!Win -> Windows] /\ tracer \in [N!Win -> WindowTracers]
  BY DEF WindowTyped, WindowAround
<1>3. /\ win' \in [N!Win -> Windows]
      /\ \A j \in II : ~win'[j].open /\ ~win'[j].busy /\ win'[j].kind = win[j].kind
      /\ \A j \in N!Win \ II : win'[j] = win[j]
  <2> DEFINE q(j) == [win[j] EXCEPT !.open = FALSE, !.busy = FALSE, !.first = FALSE]
  <2>1. \A j \in N!Win : q(j) \in Windows /\ ~q(j).open /\ ~q(j).busy
           /\ q(j).kind = win[j].kind
    <3> SUFFICES ASSUME NEW j \in N!Win
                 PROVE q(j) \in Windows /\ ~q(j).open /\ ~q(j).busy
                         /\ q(j).kind = win[j].kind
      OBVIOUS
    <3>1. win[j] \in Windows
      BY <1>2
    <3> QED
      BY <3>1 DEF Windows
  <2>2. win' = [j \in N!Win |-> IF j \in II THEN q(j) ELSE win[j]]
    BY DEF N!Shut
  <2> HIDE DEF q
  <2> QED
    BY <1>2, <2>1, <2>2
<1>4. /\ tracer' \in [N!Win -> WindowTracers]
      /\ \A j \in II : N!Halted(j)'
      /\ \A j \in N!Win \ II : tracer'[j] = tracer[j]
  <2>1. N!Stopped \in WindowTracers /\ ~N!Stopped.running
    BY DEF N!Stopped, WindowTracers
  <2>2. tracer' = [j \in N!Win |-> IF j \in II THEN N!Stopped ELSE tracer[j]]
    BY DEF N!Shut
  <2> QED
    BY <1>2, <2>1, <2>2 DEF N!Halted
<1>5. \A v \in N!Worker : N!Alive(v)' <=> N!Alive(v)
  BY <1>1 DEF N!Alive
<1>6. \A j \in N!Win : win'[j].kind = win[j].kind
  BY <1>3
<1>7. WindowTyped'
  BY <1>1, <1>3, <1>4 DEF WindowTyped, WindowAround
<1>8. WindowLabour'
  <2> SUFFICES ASSUME NEW v \in N!Worker, N!Alive(v)
               PROVE  /\ v <= started /\ worker[v].win <= opened
                      /\ worker[v].job \in N!Jobs[win'[worker[v].win].kind]
                      /\ WindowRight(worker[v])'
    BY <1>1, <1>5 DEF WindowLabour
  <2>1. PICK q : q = worker'[v] /\ q = worker[v]
    BY <1>1
  <2>2. WindowRight(worker[v])'
    BY <1>1, <2>1, WindowRightAgain DEF WindowLabour
  <2>3. worker[v].win \in N!Win
    BY WindowWorkerHas
  <2> QED
    BY <1>6, <2>2, <2>3 DEF WindowLabour
<1>9. WindowOne'
  BY <1>1, <1>3, <1>5 DEF WindowOne
<1>10. WindowClosing'
  <2> SUFFICES ASSUME NEW j \in N!Win
               PROVE  /\ win'[j].open => lateWin[j] = 0 /\ j <= opened
                      /\ j > opened => lateWin[j] = 0 /\ ~win'[j].busy
                      /\ ~win'[j].open /\ j \notin early' =>
                            /\ N!Halted(j)' /\ lateWin[j] <= 1
                            /\ \A w \in N!Worker : N!Alive(w) /\ worker[w].win = j =>
                                  worker[w].pc # "begin" /\ (worker[w].pc = "ping"
                                     => lateWin[j] = 0)
    BY <1>1, <1>5 DEF WindowClosing
  <2>1. CASE j \in II
    <3>1. lateWin[j] = 0
      BY <2>1 DEF WindowClosing
    <3>2. j \notin early' => \A w \in N!Worker : N!Alive(w) /\ worker[w].win = j
             => worker[w].pc # "begin"
      BY <1>1, <2>1 DEF N!Of
    <3> QED
      BY <1>3, <1>4, <2>1, <3>1, <3>2
  <2>2. CASE j \notin II
    <3>1. win'[j] = win[j] /\ (N!Halted(j) => N!Halted(j)') /\ (j \notin early'
             => j \notin early)
      BY <1>1, <1>3, <1>4, <2>2 DEF N!Halted
    <3> QED
      BY <3>1 DEF WindowClosing
  <2> QED
    BY <2>1, <2>2
<1>11. N!ScanTrue'
  BY <1>1, <1>6, WindowScanStays
<1> QED
  BY <1>7, <1>8, <1>9, <1>10, <1>11

LEMMA WindowCloseInv ==
  ASSUME WindowsSized, WindowInv, NEW i \in N!Win, N!Close(i)
  PROVE  WindowInv'
<1>1. PICK II \in SUBSET N!Win : II = {i}
  OBVIOUS
<1>2. (\A j \in II : win[j].open) /\ N!Shut(II) /\ app' \in {"on", "closing"}
  BY <1>1 DEF N!Close
<1> QED
  BY <1>2, WindowShutInv

LEMMA WindowQuitInv == ASSUME WindowsSized, WindowInv, N!Quit PROVE WindowInv'
<1>1. PICK II \in SUBSET N!Win : II = {i \in N!Win : win[i].open}
  OBVIOUS
<1>2. (\A j \in II : win[j].open) /\ N!Shut(II) /\ app' \in {"on", "closing"}
  BY <1>1 DEF N!Quit
<1> QED
  BY <1>2, WindowShutInv

LEMMA WindowNextInv == ASSUME WindowsSized, WindowInv, [N!Next]_winVars PROVE WindowInv'
<1>1. CASE N!Open
  BY <1>1, WindowOpenInv
<1>2. CASE N!Quit
  BY <1>2, WindowQuitInv
<1>3. CASE N!Tick
  BY <1>3, WindowTickInv
<1>4. ASSUME NEW i \in N!Win, N!Press(i) \/ N!First(i) \/ N!Refresh(i) \/ N!Close(i)
      PROVE WindowInv'
  BY <1>4, WindowPressInv, WindowFirstInv, WindowRefreshInv, WindowCloseInv
<1>5. ASSUME NEW w \in N!Worker, N!WorkerStep(w) \/ N!AskedTooLong(w) PROVE WindowInv'
  <2>1. CASE N!Begin(w) \/ N!TraceLoop(w) \/ N!Ping(w) \/ N!Known(w) \/ N!Hop(w)
           \/ N!Route(w)
    BY <2>1, WindowBeginInv, WindowTraceInv, WindowPingInv, WindowKnownInv, WindowHopInv,
       WindowRouteInv
  <2>2. CASE \E s \in Server : N!AskDns(w, s) \/ N!Ask(w, s)
    BY <2>2, WindowAskDnsInv, WindowAskInv
  <2>3. CASE N!Detect(w) \/ N!Show(w) \/ N!End(w) \/ N!AskedTooLong(w)
    BY <2>3, WindowDetectInv, WindowShowInv, WindowEndInv, WindowTooLongInv
  <2> QED
    BY <1>5, <2>1, <2>2, <2>3 DEF N!WorkerStep
<1>6. CASE UNCHANGED winVars
  <2>1. /\ UNCHANGED <<app, there, winNow, opened, win, line, shown, tracer, dnsCache,
                       worker, started,
                       failed, lateWin, early, winFaults>>
    BY <1>6 DEF winVars
  <2>2. WindowAround' /\ N!ScanTrue'
    BY <2>1, WindowScanStays DEF WindowInv, WindowTyped, WindowAround
  <2> QED
    BY <2>1, <2>2, WindowMainInv
<1> QED
  BY <1>1, <1>2, <1>3, <1>4, <1>5, <1>6 DEF N!Next

LEMMA WindowSound == ASSUME WindowsSized, WindowInv PROVE N!TypeOK /\ N!WindowsSound
<1>1. N!TypeOK
  BY WindowCount DEF WindowInv, WindowTyped, WindowAround, N!TypeOK, Windows,
     WindowTracers, WindowWorkers, WindowServers
<1>2. N!OneWorker
  <2> SUFFICES ASSUME NEW i \in N!Win, win[i].open
               PROVE  Cardinality(N!Of(i)) <= 1 /\ (win[i].busy <=> N!Of(i) # {})
    BY WindowCount DEF N!OneWorker
  <2>1. win[i].busy <=> N!Of(i) # {}
    BY DEF WindowInv, WindowOne, N!Of
  <2>2. CASE N!Of(i) = {}
    BY <2>1, <2>2, FS_EmptySet
  <2>3. CASE N!Of(i) # {}
    <3>1. PICK w \in N!Of(i) : TRUE
      BY <2>3
    <3>2. N!Of(i) = {w}
      BY <3>1 DEF N!Of, WindowInv, WindowOne
    <3>3. Cardinality({w}) = 1
      BY FS_Singleton
    <3> QED
      BY <2>1, <3>2, <3>3
  <2> QED
    BY <2>2, <2>3
<1>3. N!StopsSoon
  <2> SUFFICES ASSUME NEW i \in N!Win, i \notin early PROVE lateWin[i] <= 1
    BY DEF N!StopsSoon
  <2>1. CASE win[i].open
    BY <2>1 DEF WindowInv, WindowClosing
  <2>2. CASE ~win[i].open
    BY <2>2 DEF WindowInv, WindowClosing
  <2> QED
    BY <2>1, <2>2
<1>4. N!BestTrue
  <2> SUFFICES ASSUME NEW w \in N!Worker, worker[w].pc = "show", worker[w].job = "dns",
                      NEW p \in N!Best(worker[w].got)
               PROVE  /\ p[2].ms < N!NoAnswer /\ p[3] - p[2].at < KeepFor
                      /\ \A q \in worker[w].got : p[2].ms <= q[2].ms
    BY DEF N!BestTrue
  <2>1. \A q \in worker[w].got : q \in WindowAsked /\ q[3] - q[2].at < KeepFor
    BY DEF WindowInv, WindowLabour, N!Alive, WindowRight, WindowHeard
  <2>2. p \in worker[w].got /\ p[2].ms < N!NoAnswer
    BY DEF N!Best
  <2>3. ASSUME NEW q \in worker[w].got PROVE p[2].ms <= q[2].ms
    <3>1. CASE q[2].ms < N!NoAnswer
      BY <3>1 DEF N!Best
    <3>2. CASE ~(q[2].ms < N!NoAnswer)
      <4>1. p[2] \in N!Answer /\ q[2] \in N!Answer
        BY <2>1, <2>2 DEF WindowAsked
      <4>2. p[2].ms \in {1, 2, 999} /\ q[2].ms \in {1, 2, 999}
        BY <4>1 DEF N!Answer, N!NoAnswer
      <4> QED
        BY <2>2, <3>2, <4>2 DEF N!NoAnswer
    <3> QED
      BY <3>1, <3>2
  <2> QED
    BY <2>1, <2>2, <2>3
<1> QED
  BY <1>1, <1>2, <1>3, <1>4 DEF N!WindowsSound, WindowInv

-----------------------------------------------------------------------------
(* The desktop: a trainer has the lock as long as the model is not of one piece,*)
(* and what is not written has a step of the shutdown before it.            *)

\* How far the program has come.
DeskWhere(mix) ==
    /\ main \in {"start", "train", "window", "closing", "forced", "clean", "gone"}
    /\ step \in 0 .. 9 /\ slow \in BOOLEAN /\ deskFaults \in 0 .. MaxFailed
    /\ step > 0 => main \notin {"start", "train", "window"}
    /\ main = "forced" => slow
    /\ main = "gone" /\ ~slow => step = 9

\* What the badge counts.
DeskBadge(mix) ==
    /\ alertsRaised \in 0 .. MaxRaised[mix] /\ unread \in 0 .. alertsRaised
    /\ badge \in 0 .. MaxRaised[mix]
    /\ uiTurn \in 0 .. MaxTurn - 1 /\ view \in -1 .. MaxRaised[mix]

DeskSettled(mix) ==
    /\ cfg \in BOOLEAN /\ file \in BOOLEAN /\ works \in BOOLEAN
    /\ report \in {"none", "read", "write", "told", "failed"}
    /\ said \in {"none", "applied", "saved", "short", "trained", "failed"}

\* A trainer has the lock as long as the model is not of one piece.
DeskFits(mix, t) == trainer[t] \in {"fit", "model", "scaler", "features"}
DeskLearning(mix) ==
    /\ aiLock \in K(mix)!Trainer \cup {"none"}
    /\ trainer \in [K(mix)!Trainer -> {"rest", "wait", "fit", "model", "scaler",
                                       "features", "gone"}]
    /\ model \in [K(mix)!Parts -> 0 .. MaxModel[mix]]
    /\ looked \in [K(mix)!Parts -> 0 .. MaxModel[mix]]
    /\ trained \in 0 .. MaxModel[mix] /\ halt \in BOOLEAN
    /\ \A t \in K(mix)!Trainer : DeskFits(mix, t) <=> aiLock = t
    /\ aiLock = "none" => \A p, q \in K(mix)!Parts : model[p] = model[q]
    /\ \A t \in K(mix)!Trainer :
          /\ trainer[t] \in {"model", "scaler", "features"} => model["model"] = trained
          /\ trainer[t] \in {"scaler", "features"} => model["scaler"] = trained
          /\ trainer[t] = "features" => model["features"] = trained
    /\ main = "start" => \A t \in K(mix)!Trainer : trainer[t] = "rest"
    /\ K(mix)!ModelWhole

\* The step of the shutdown that stops a source; the next one waits for it.
DeskAt(s) == IF s = "sniffer" THEN 3 ELSE 5
DeskKept(mix, s) ==
    /\ step >= DeskAt(s) => measure[s] # "on"
    /\ step > DeskAt(s) /\ measure[s] = "told" => s \in stragglers
    /\ step >= 7 /\ buffered[s] > 0 => s \in stragglers
    /\ dropped[s] > 0 => s \in stragglers
    /\ buffered[s] + dropped[s] <= taken

DeskKeeping(mix) ==
    /\ measure \in [Source[mix] -> {"off", "on", "told", "ended"}]
    /\ buffered \in [Source[mix] -> Nat] /\ taken \in 0 .. MaxSample[mix]
    /\ stragglers \subseteq Source[mix] /\ dropped \in [Source[mix] -> Nat]
    /\ store \in {"open", "closed"} /\ (store = "closed" => step = 9)
    /\ \A s \in Source[mix] : DeskKept(mix, s)

DeskInv(mix) == DeskWhere(mix) /\ DeskBadge(mix) /\ DeskSettled(mix)
   /\ DeskLearning(mix) /\ DeskKeeping(mix)

LEMMA DeskWhereStays ==
  ASSUME NEW mix, DeskWhere(mix), UNCHANGED <<main, step, slow>>,
         deskFaults' = deskFaults \/ deskFaults' \in 0 .. MaxFailed
  PROVE  DeskWhere(mix)'
  BY DEF DeskWhere

LEMMA DeskBadgeStays ==
  ASSUME NEW mix, DeskBadge(mix), UNCHANGED K(mix)!badgeVars
  PROVE  DeskBadge(mix)'
  BY DEF DeskBadge, K!badgeVars

LEMMA DeskSettledStays ==
  ASSUME NEW mix, DeskSettled(mix), UNCHANGED K(mix)!cfgVars
  PROVE  DeskSettled(mix)'
  BY DEF DeskSettled, K!cfgVars

LEMMA DeskLearningStays ==
  ASSUME NEW mix, DeskLearning(mix), UNCHANGED K(mix)!aiVars,
         main' = "start" => main = "start"
  PROVE  DeskLearning(mix)'
<1>1. UNCHANGED <<aiLock, trainer, model, trained, looked, halt>>
  BY DEF K!aiVars
<1>2. K(mix)!ModelWhole' <=> K(mix)!ModelWhole
  BY <1>1 DEF K!ModelWhole
<1>3. \A t \in K(mix)!Trainer : DeskFits(mix, t)' <=> DeskFits(mix, t)
  BY <1>1 DEF DeskFits
<1> QED
  BY <1>1, <1>2, <1>3 DEF DeskLearning

LEMMA DeskKeepingStays ==
  ASSUME NEW mix, DeskKeeping(mix), UNCHANGED K(mix)!bufferVars, UNCHANGED step
  PROVE  DeskKeeping(mix)'
<1>1. UNCHANGED <<measure, buffered, taken, stragglers, dropped, store>>
  BY DEF K!bufferVars
<1> QED
  BY <1>1 DEF DeskKeeping, DeskKept

LEMMA DeskInitInv == ASSUME NEW mix, DesktopSized(mix), K(mix)!Init PROVE DeskInv(mix)
<1>0. /\ main = "start" /\ step = 0 /\ slow = FALSE /\ deskFaults = 0
      /\ alertsRaised = 0 /\ unread = 0 /\ badge = 0 /\ uiTurn = 0 /\ view = -1
      /\ cfg = Ai[mix] /\ file = Ai[mix] /\ works = Ai[mix] /\ report = "none"
      /\ said = "none"
  BY DEF K!Init
<1>1. DeskWhere(mix) /\ DeskBadge(mix) /\ DeskSettled(mix)
  <2>1. slow \in BOOLEAN /\ cfg \in BOOLEAN /\ file \in BOOLEAN /\ works \in BOOLEAN
    BY <1>0, Zenon DEF DesktopSized
  <2>2. DeskWhere(mix)
    BY <1>0, <2>1 DEF DeskWhere, DesktopSized
  <2>3. DeskBadge(mix)
    BY <1>0 DEF DeskBadge, DesktopSized
  <2>4. DeskSettled(mix)
    BY <1>0, <2>1 DEF DeskSettled
  <2> QED
    BY <2>2, <2>3, <2>4
<1>2. DeskLearning(mix)
  <2>0. /\ aiLock = "none" /\ trainer = [t \in K(mix)!Trainer |-> "rest"] /\ trained = 0
        /\ model = [p \in K(mix)!Parts |-> 0] /\ looked = [p \in K(mix)!Parts |-> 0]
        /\ halt = FALSE
    BY DEF K!Init
  <2>1. /\ aiLock \in K(mix)!Trainer \cup {"none"}
        /\ trainer \in [K(mix)!Trainer -> {"rest", "wait", "fit", "model", "scaler",
                                           "features", "gone"}]
        /\ \A t \in K(mix)!Trainer : trainer[t] = "rest"
    BY <2>0
  <2>2. model \in [K(mix)!Parts -> 0 .. MaxModel[mix]]
           /\ looked \in [K(mix)!Parts -> 0 .. MaxModel[mix]]
    BY <2>0 DEF DesktopSized
  <2>3. trained \in 0 .. MaxModel[mix] /\ halt \in BOOLEAN
    <3>1. trained \in 0 .. MaxModel[mix]
      BY <2>0 DEF DesktopSized
    <3>2. halt \in BOOLEAN
      BY <2>0, Zenon
    <3> QED
      BY <3>1, <3>2
  <2>4. K(mix)!ModelWhole /\ \A p, q \in K(mix)!Parts : model[p] = model[q]
    BY <2>0 DEF K!ModelWhole
  <2>5. \A t \in K(mix)!Trainer : ~DeskFits(mix, t) /\ aiLock # t
    BY <2>0, <2>1 DEF DeskFits, K!Trainer
  <2> QED
    BY <2>1, <2>2, <2>3, <2>4, <2>5 DEF DeskLearning
<1>3. DeskKeeping(mix)
  <2>0. /\ measure = [s \in Source[mix] |-> "off"] /\ buffered = K(mix)!Zero /\ taken = 0
        /\ stragglers = {} /\ dropped = K(mix)!Zero /\ store = "open" /\ step = 0
    BY DEF K!Init
  <2>1. /\ measure \in [Source[mix] -> {"off", "on", "told", "ended"}]
            /\ \A s \in Source[mix] : measure[s] = "off"
    BY <2>0
  <2>2. /\ buffered \in [Source[mix] -> Nat] /\ dropped \in [Source[mix] -> Nat]
        /\ \A s \in Source[mix] : buffered[s] = 0 /\ dropped[s] = 0
    BY <2>0 DEF K!Zero
  <2>3. \A s \in Source[mix] : DeskKept(mix, s)
    <3> SUFFICES ASSUME NEW s \in Source[mix] PROVE DeskKept(mix, s)
      OBVIOUS
    <3>1. buffered[s] + dropped[s] <= taken /\ ~(buffered[s] > 0) /\ ~(dropped[s] > 0)
      BY <2>0, <2>2
    <3> QED
      BY <2>1, <3>1 DEF DeskKept
  <2> QED
    BY <2>0, <2>1, <2>2, <2>3 DEF DeskKeeping, DesktopSized
<1> QED
  BY <1>1, <1>2, <1>3 DEF DeskInv

-----------------------------------------------------------------------------
LEMMA DeskStartInv ==
  ASSUME NEW mix, DesktopSized(mix), DeskInv(mix), K(mix)!Start
  PROVE  DeskInv(mix)'
<1> USE DEF DesktopSized, DeskInv
<1>1. /\ main = "start" /\ main' \in {"train", "window"}
      /\ UNCHANGED <<step, slow, aiLock, model, trained, looked, halt, deskFaults>>
      /\ UNCHANGED K(mix)!badgeVars /\ UNCHANGED K(mix)!bufferVars
      /\ UNCHANGED K(mix)!cfgVars
      /\ trainer' = [t \in K(mix)!Trainer |-> IF Ai[mix] THEN "wait" ELSE "gone"]
  BY DEF K!Start
<1>2. DeskWhere(mix)'
  BY <1>1 DEF DeskWhere
<1>3. DeskLearning(mix)'
  <2>1. /\ trainer' \in [K(mix)!Trainer -> {"rest", "wait", "fit", "model", "scaler",
                                            "features", "gone"}]
        /\ \A t \in K(mix)!Trainer : trainer'[t] \in {"wait", "gone"}
    BY <1>1
  <2>2. \A t \in K(mix)!Trainer : ~DeskFits(mix, t) /\ ~DeskFits(mix, t)'
    BY <1>1, <2>1 DEF DeskLearning, DeskFits
  <2>3. K(mix)!ModelWhole'
    BY <1>1 DEF DeskLearning, K!ModelWhole
  <2> QED
    BY <1>1, <2>1, <2>2, <2>3 DEF DeskLearning
<1> QED
  BY <1>1, <1>2, <1>3, DeskBadgeStays, DeskSettledStays, DeskKeepingStays

LEMMA DeskWindowInv ==
  ASSUME NEW mix, DesktopSized(mix), DeskInv(mix), K(mix)!Window
  PROVE  DeskInv(mix)'
<1> USE DEF DesktopSized, DeskInv
<1>1. /\ main = "train" /\ main' = "window" /\ UNCHANGED <<step, slow, deskFaults>>
      /\ UNCHANGED K(mix)!aiVars /\ UNCHANGED K(mix)!badgeVars
      /\ UNCHANGED K(mix)!bufferVars /\ UNCHANGED K(mix)!cfgVars
  BY DEF K!Window
<1>2. DeskWhere(mix)'
  BY <1>1 DEF DeskWhere
<1> QED
  BY <1>1, <1>2, DeskBadgeStays, DeskSettledStays, DeskLearningStays, DeskKeepingStays

LEMMA DeskCloseInv ==
  ASSUME NEW mix, DesktopSized(mix), DeskInv(mix), K(mix)!Close
  PROVE  DeskInv(mix)'
<1> USE DEF DesktopSized, DeskInv
<1>1. /\ main = "window" /\ main' = "closing" /\ UNCHANGED <<step, slow, deskFaults>>
      /\ UNCHANGED K(mix)!aiVars /\ UNCHANGED K(mix)!badgeVars
      /\ UNCHANGED K(mix)!bufferVars /\ UNCHANGED K(mix)!cfgVars
  BY DEF K!Close
<1>2. DeskWhere(mix)'
  BY <1>1 DEF DeskWhere
<1> QED
  BY <1>1, <1>2, DeskBadgeStays, DeskSettledStays, DeskLearningStays, DeskKeepingStays

LEMMA DeskSlowInv ==
  ASSUME NEW mix, DesktopSized(mix), DeskInv(mix), K(mix)!Slow
  PROVE  DeskInv(mix)'
<1> USE DEF DesktopSized, DeskInv
<1>1. /\ main = "closing" /\ slow' = TRUE /\ UNCHANGED <<main, step>>
      /\ deskFaults < MaxFailed /\ deskFaults' = deskFaults + 1
      /\ UNCHANGED K(mix)!aiVars /\ UNCHANGED K(mix)!badgeVars
      /\ UNCHANGED K(mix)!bufferVars /\ UNCHANGED K(mix)!cfgVars
  BY DEF K!Slow
<1>2. DeskWhere(mix)'
  BY <1>1 DEF DeskWhere
<1> QED
  BY <1>1, <1>2, DeskBadgeStays, DeskSettledStays, DeskLearningStays, DeskKeepingStays

\* Nothing but the settings, an export or a message.
LEMMA DeskSettledInv ==
  ASSUME NEW mix, DesktopSized(mix), DeskInv(mix), UNCHANGED <<main, step, slow>>,
         deskFaults' \in 0 .. MaxFailed, UNCHANGED K(mix)!aiVars,
         UNCHANGED K(mix)!badgeVars, UNCHANGED K(mix)!bufferVars, DeskSettled(mix)'
  PROVE  DeskInv(mix)'
  BY DeskWhereStays, DeskLearningStays, DeskBadgeStays, DeskKeepingStays DEF DeskInv

LEMMA DeskRetrainInv ==
  ASSUME NEW mix, DesktopSized(mix), DeskInv(mix), K(mix)!Retrain
  PROVE  DeskInv(mix)'
<1>1. /\ UNCHANGED <<main, step, slow, deskFaults, cfg, file, works, report>>
      /\ UNCHANGED K(mix)!aiVars /\ UNCHANGED K(mix)!badgeVars
      /\ UNCHANGED K(mix)!bufferVars /\ said' = "short"
  BY DEF K!Retrain
<1>2. DeskSettled(mix)' /\ deskFaults' \in 0 .. MaxFailed
  BY <1>1 DEF DeskInv, DeskSettled, DeskWhere
<1> QED
  BY <1>1, <1>2, DeskSettledInv

LEMMA DeskSaveInv ==
  ASSUME NEW mix, DesktopSized(mix), DeskInv(mix), K(mix)!Save
  PROVE  DeskInv(mix)'
<1>1. /\ UNCHANGED <<main, step, slow, report>>
      /\ UNCHANGED K(mix)!aiVars /\ UNCHANGED K(mix)!badgeVars
      /\ UNCHANGED K(mix)!bufferVars
      /\ cfg' = ~cfg /\ works' = (Ai[mix] /\ cfg') /\ said' = "applied"
      /\ \/ file' = cfg' /\ UNCHANGED deskFaults
         \/ deskFaults < MaxFailed /\ deskFaults' = deskFaults + 1 /\ UNCHANGED file
  BY DEF K!Save
<1>2. deskFaults' \in 0 .. MaxFailed
  BY <1>1 DEF DeskInv, DeskWhere, DesktopSized
<1>3. cfg' \in BOOLEAN /\ works' \in BOOLEAN
  BY <1>1 DEF DeskInv, DeskSettled, DesktopSized
<1>4. file' \in BOOLEAN
  BY <1>1, <1>3 DEF DeskInv, DeskSettled
<1>5. DeskSettled(mix)'
  BY <1>1, <1>3, <1>4 DEF DeskInv, DeskSettled
<1> QED
  BY <1>1, <1>2, <1>5, DeskSettledInv

LEMMA DeskExportInv ==
  ASSUME NEW mix, DesktopSized(mix), DeskInv(mix), K(mix)!Export
  PROVE  DeskInv(mix)'
<1>1. /\ UNCHANGED <<main, step, slow, cfg, file, works>>
      /\ UNCHANGED K(mix)!aiVars /\ UNCHANGED K(mix)!badgeVars
      /\ UNCHANGED K(mix)!bufferVars
      /\ report' \in {"none", "read", "write", "told", "failed"}
      /\ said' = said \/ said' \in {"saved", "failed"}
      /\ deskFaults' = deskFaults \/ (deskFaults < MaxFailed
          /\ deskFaults' = deskFaults + 1)
  BY DEF K!Export
<1>2. deskFaults' \in 0 .. MaxFailed
  BY <1>1 DEF DeskInv, DeskWhere, DesktopSized
<1>3. DeskSettled(mix)'
  BY <1>1 DEF DeskInv, DeskSettled
<1> QED
  BY <1>1, <1>2, <1>3, DeskSettledInv

-----------------------------------------------------------------------------
\* The training.
LEMMA DeskLearningInv ==
  ASSUME NEW mix, DesktopSized(mix), DeskInv(mix),
         UNCHANGED <<main, step, slow, deskFaults>>, DeskLearning(mix)',
         UNCHANGED K(mix)!badgeVars, UNCHANGED K(mix)!bufferVars, UNCHANGED K(mix)!cfgVars
  PROVE  DeskInv(mix)'
  BY DeskWhereStays, DeskSettledStays, DeskBadgeStays, DeskKeepingStays DEF DeskInv

LEMMA DeskTrainNotInv ==
  ASSUME NEW mix, DesktopSized(mix), DeskInv(mix), NEW t \in K(mix)!Trainer,
         K(mix)!TrainNot(t)
  PROVE  DeskInv(mix)'
<1> USE DEF DesktopSized, DeskInv
<1>1. /\ UNCHANGED <<main, step, slow, aiLock, model, trained, looked, halt, deskFaults>>
      /\ UNCHANGED K(mix)!badgeVars /\ UNCHANGED K(mix)!bufferVars
      /\ UNCHANGED K(mix)!cfgVars
      /\ trainer[t] = "wait" /\ trainer' = [trainer EXCEPT ![t] = "rest"]
  BY DEF K!TrainNot
<1>2. /\ trainer' \in [K(mix)!Trainer -> {"rest", "wait", "fit", "model", "scaler",
                                          "features", "gone"}]
      /\ trainer'[t] = "rest" /\ \A u \in K(mix)!Trainer \ {t} : trainer'[u] = trainer[u]
  BY <1>1 DEF DeskLearning
<1>3. K(mix)!ModelWhole'
  BY <1>1 DEF DeskLearning, K!ModelWhole
<1>4. \A u \in K(mix)!Trainer : DeskFits(mix, u)' <=> DeskFits(mix, u)
  BY <1>1, <1>2 DEF DeskFits
<1>5. DeskLearning(mix)'
  BY <1>1, <1>2, <1>3, <1>4 DEF DeskLearning
<1> QED
  BY <1>1, <1>5, DeskLearningInv

LEMMA DeskTrainInv ==
  ASSUME NEW mix, DesktopSized(mix), DeskInv(mix), NEW t \in K(mix)!Trainer, K(mix)!Train(t)
  PROVE  DeskInv(mix)'
<1> USE DEF DesktopSized, DeskInv
<1>1. /\ UNCHANGED <<main, step, slow, model, looked, halt, deskFaults>>
      /\ UNCHANGED K(mix)!badgeVars /\ UNCHANGED K(mix)!bufferVars
      /\ UNCHANGED K(mix)!cfgVars
      /\ trainer[t] = "wait" /\ trainer' = [trainer EXCEPT ![t] = "fit"]
      /\ aiLock = "none" /\ aiLock' = t /\ trained < MaxModel[mix] /\ trained' = trained + 1
  BY DEF K!Train, K!Locked
<1>2. /\ trainer' \in [K(mix)!Trainer -> {"rest", "wait", "fit", "model", "scaler",
                                          "features", "gone"}]
      /\ trainer'[t] = "fit" /\ \A u \in K(mix)!Trainer \ {t} : trainer'[u] = trainer[u]
  BY <1>1 DEF DeskLearning
<1>3. K(mix)!ModelWhole'
  BY <1>1 DEF DeskLearning, K!ModelWhole
<1>4. \A u \in K(mix)!Trainer : ~DeskFits(mix, u)
  BY <1>1 DEF DeskLearning, K!Trainer
<1>5. DeskFits(mix, t)' /\ \A u \in K(mix)!Trainer \ {t} : ~DeskFits(mix, u)'
         /\ trainer'[u] \notin {"model", "scaler", "features"}
  BY <1>2, <1>4 DEF DeskFits
<1>6. trained' \in 0 .. MaxModel[mix]
  BY <1>1 DEF DeskLearning
<1>7. aiLock' # "none"
  BY <1>1 DEF K!Trainer
<1>8. main # "start"
  BY <1>1 DEF DeskLearning
<1>9. DeskLearning(mix)'
  BY <1>1, <1>2, <1>3, <1>5, <1>6, <1>7, <1>8 DEF DeskLearning
<1> QED
  BY <1>1, <1>9, DeskLearningInv

LEMMA DeskNexts ==
  ASSUME NEW mix
  PROVE  /\ DOMAIN K(mix)!Then = {"fit", "model", "scaler"}
         /\ K(mix)!Then["fit"] = "model" /\ K(mix)!Then["model"] = "scaler"
         /\ K(mix)!Then["scaler"] = "features"
  BY DEF K!Then

LEMMA DeskAssignInv ==
  ASSUME NEW mix, DesktopSized(mix), DeskInv(mix), NEW t \in K(mix)!Trainer,
         K(mix)!Assign(t)
  PROVE  DeskInv(mix)'
<1> USE DEF DesktopSized, DeskInv
<1>1. /\ UNCHANGED <<main, step, slow, aiLock, trained, looked, halt, deskFaults>>
      /\ UNCHANGED K(mix)!badgeVars /\ UNCHANGED K(mix)!bufferVars
      /\ UNCHANGED K(mix)!cfgVars
      /\ trainer[t] \in {"fit", "model", "scaler"}
      /\ trainer' = [trainer EXCEPT ![t] = K(mix)!Then[trainer[t]]]
      /\ model' = [model EXCEPT ![K(mix)!Then[trainer[t]]] = trained]
  BY DeskNexts DEF K!Assign
<1>2. PICK p \in K(mix)!Parts : /\ p = K(mix)!Then[trainer[t]]
                                /\ p = "model" <=> trainer[t] = "fit"
                                /\ p = "scaler" <=> trainer[t] = "model"
                                /\ p = "features" <=> trainer[t] = "scaler"
  BY <1>1, DeskNexts DEF K!Parts
<1>3. /\ trainer' \in [K(mix)!Trainer -> {"rest", "wait", "fit", "model", "scaler",
                                          "features", "gone"}]
      /\ trainer'[t] = p /\ \A u \in K(mix)!Trainer \ {t} : trainer'[u] = trainer[u]
  BY <1>1, <1>2 DEF DeskLearning, K!Parts
<1>4. /\ model' \in [K(mix)!Parts -> 0 .. MaxModel[mix]] /\ model'[p] = trained
      /\ \A q \in K(mix)!Parts \ {p} : model'[q] = model[q]
  BY <1>1, <1>2 DEF DeskLearning
<1>5. K(mix)!ModelWhole'
  BY <1>1 DEF DeskLearning, K!ModelWhole
<1>6. DeskFits(mix, t) /\ aiLock = t
  BY <1>1 DEF DeskLearning, DeskFits
<1>7. DeskFits(mix, t)' /\ \A u \in K(mix)!Trainer \ {t} : ~DeskFits(mix, u)
         /\ ~DeskFits(mix, u)'
  BY <1>1, <1>3, <1>6 DEF DeskLearning, DeskFits, K!Parts
<1>8. aiLock # "none"
  BY <1>6 DEF K!Trainer
<1>9. ASSUME NEW u \in K(mix)!Trainer
      PROVE  /\ trainer'[u] \in {"model", "scaler", "features"} => model'["model"] = trained
             /\ trainer'[u] \in {"scaler", "features"} => model'["scaler"] = trained
             /\ trainer'[u] = "features" => model'["features"] = trained
  <2>1. CASE u = t
    <3>0. /\ trainer[t] \in {"model", "scaler", "features"} => model["model"] = trained
          /\ trainer[t] \in {"scaler", "features"} => model["scaler"] = trained
      BY DEF DeskLearning
    <3>1. CASE p = "model"
      BY <1>2, <1>3, <1>4, <2>1, <3>0, <3>1 DEF K!Parts
    <3>2. CASE p = "scaler"
      BY <1>2, <1>3, <1>4, <2>1, <3>0, <3>2 DEF K!Parts
    <3>3. CASE p = "features"
      BY <1>2, <1>3, <1>4, <2>1, <3>0, <3>3 DEF K!Parts
    <3> QED
      BY <3>1, <3>2, <3>3 DEF K!Parts
  <2>2. CASE u # t
    BY <1>7, <2>2 DEF DeskFits
  <2> QED
    BY <2>1, <2>2
<1>10. main # "start"
  BY <1>1 DEF DeskLearning
<1>11. \A u \in K(mix)!Trainer : DeskFits(mix, u)' <=> aiLock' = u
  BY <1>1, <1>6, <1>7
<1>12. DeskLearning(mix)'
  BY <1>1, <1>3, <1>4, <1>5, <1>8, <1>9, <1>10, <1>11 DEF DeskLearning
<1> QED
  BY <1>1, <1>12, DeskLearningInv

LEMMA DeskTrainedInv ==
  ASSUME NEW mix, DesktopSized(mix), DeskInv(mix), NEW t \in K(mix)!Trainer,
         K(mix)!Trained(t)
  PROVE  DeskInv(mix)'
<1> USE DEF DesktopSized, DeskInv
<1>1. /\ UNCHANGED <<main, step, slow, model, trained, looked, halt, deskFaults>>
      /\ UNCHANGED K(mix)!badgeVars /\ UNCHANGED K(mix)!bufferVars
      /\ UNCHANGED K(mix)!cfgVars
      /\ trainer[t] = "features" /\ trainer' = [trainer EXCEPT ![t] = "rest"]
      /\ aiLock' = "none"
  BY DEF K!Trained
<1>2. /\ trainer' \in [K(mix)!Trainer -> {"rest", "wait", "fit", "model", "scaler",
                                          "features", "gone"}]
      /\ trainer'[t] = "rest" /\ \A u \in K(mix)!Trainer \ {t} : trainer'[u] = trainer[u]
  BY <1>1 DEF DeskLearning
<1>3. K(mix)!ModelWhole'
  BY <1>1 DEF DeskLearning, K!ModelWhole
<1>4. DeskFits(mix, t) /\ aiLock = t
  BY <1>1 DEF DeskLearning, DeskFits
<1>5. \A u \in K(mix)!Trainer : ~DeskFits(mix, u)'
  BY <1>2, <1>4 DEF DeskLearning, DeskFits
<1>6. \A p, q \in K(mix)!Parts : model[p] = model[q]
  <2>1. model["model"] = trained /\ model["scaler"] = trained /\ model["features"] = trained
    BY <1>1 DEF DeskLearning
  <2> QED
    BY <2>1 DEF K!Parts
<1>7. main # "start"
  BY <1>1 DEF DeskLearning
<1>8. \A u \in K(mix)!Trainer : "none" # u
  BY DEF K!Trainer
<1>9. DeskLearning(mix)'
  BY <1>1, <1>2, <1>3, <1>5, <1>6, <1>7, <1>8 DEF DeskLearning, DeskFits
<1> QED
  BY <1>1, <1>9, DeskLearningInv

LEMMA DeskBackgroundInv ==
  ASSUME NEW mix, DesktopSized(mix), DeskInv(mix), K(mix)!Background
  PROVE  DeskInv(mix)'
<1> USE DEF DesktopSized, DeskInv
<1>1. /\ UNCHANGED <<main, step, slow, aiLock, model, trained, looked, halt, deskFaults>>
      /\ UNCHANGED K(mix)!badgeVars /\ UNCHANGED K(mix)!bufferVars
      /\ UNCHANGED K(mix)!cfgVars
      /\ trainer["back"] = "rest" /\ main # "start"
      /\ trainer' = [trainer EXCEPT !["back"] = IF halt THEN "gone" ELSE "wait"]
  BY DEF K!Background
<1>2. PICK t \in K(mix)!Trainer : t = "back"
  BY DEF K!Trainer
<1>3. /\ trainer' \in [K(mix)!Trainer -> {"rest", "wait", "fit", "model", "scaler",
                                          "features", "gone"}]
      /\ trainer'[t] \in {"wait", "gone"}
          /\ \A u \in K(mix)!Trainer \ {t} : trainer'[u] = trainer[u]
  BY <1>1, <1>2 DEF DeskLearning
<1>4. K(mix)!ModelWhole'
  BY <1>1 DEF DeskLearning, K!ModelWhole
<1>5. \A u \in K(mix)!Trainer : DeskFits(mix, u)' <=> DeskFits(mix, u)
  BY <1>1, <1>2, <1>3 DEF DeskFits
<1>6. DeskLearning(mix)'
  BY <1>1, <1>3, <1>4, <1>5 DEF DeskLearning
<1> QED
  BY <1>1, <1>6, DeskLearningInv

-----------------------------------------------------------------------------
\* The loop: an analysis works with the model under its lock.
LEMMA DeskTurnInv ==
  ASSUME NEW mix, DesktopSized(mix), DeskInv(mix), K(mix)!Turn
  PROVE  DeskInv(mix)'
<1> USE DEF DesktopSized, DeskInv
<1>1. /\ UNCHANGED <<main, step, slow, aiLock, trainer, model, trained, halt, unread,
                     alertsRaised, view>>
      /\ UNCHANGED K(mix)!bufferVars /\ UNCHANGED K(mix)!cfgVars
      /\ uiTurn' = (uiTurn + 1) % MaxTurn
      /\ badge' = badge \/ badge' = unread \/ badge' = 0
      /\ deskFaults' = deskFaults \/ (deskFaults < MaxFailed
          /\ deskFaults' = deskFaults + 1)
  BY DEF K!Turn, K!Count
<1>2. looked' = looked \/ (looked' = model /\ aiLock = "none")
  BY DEF K!Turn, K!Analyse, K!Locked
<1>3. looked' \in [K(mix)!Parts -> 0 .. MaxModel[mix]] /\ K(mix)!ModelWhole'
  <2>1. CASE looked' = looked
    BY <2>1 DEF DeskLearning, K!ModelWhole
  <2>2. CASE looked' = model /\ aiLock = "none"
    BY <2>2 DEF DeskLearning, K!ModelWhole
  <2> QED
    BY <1>2, <2>1, <2>2
<1>4. \A t \in K(mix)!Trainer : DeskFits(mix, t)' <=> DeskFits(mix, t)
  BY <1>1 DEF DeskFits
<1>5. DeskLearning(mix)'
  BY <1>1, <1>3, <1>4 DEF DeskLearning
<1>6. DeskBadge(mix)'
  <2>1. (uiTurn + 1) % MaxTurn \in 0 .. MaxTurn - 1
    BY DEF DeskBadge
  <2>2. badge' \in 0 .. MaxRaised[mix]
    BY <1>1 DEF DeskBadge
  <2> QED
    BY <1>1, <2>1, <2>2 DEF DeskBadge
<1>7. deskFaults' \in 0 .. MaxFailed
  BY <1>1 DEF DeskWhere
<1>8. DeskWhere(mix)'
  BY <1>1, <1>7, DeskWhereStays
<1> QED
  BY <1>1, <1>5, <1>6, <1>8, DeskSettledStays, DeskKeepingStays

\* Nothing but the alerts and what counts them.
LEMMA DeskBadgeInv ==
  ASSUME NEW mix, DesktopSized(mix), DeskInv(mix),
         UNCHANGED <<main, step, slow, deskFaults>>, UNCHANGED K(mix)!aiVars,
         DeskBadge(mix)',
         UNCHANGED K(mix)!bufferVars, UNCHANGED K(mix)!cfgVars
  PROVE  DeskInv(mix)'
  BY DeskWhereStays, DeskSettledStays, DeskLearningStays, DeskKeepingStays DEF DeskInv

LEMMA DeskAlertInv ==
  ASSUME NEW mix, DesktopSized(mix), DeskInv(mix), K(mix)!Alert
  PROVE  DeskInv(mix)'
<1>1. /\ UNCHANGED <<main, step, slow, deskFaults, badge, uiTurn, view>>
      /\ UNCHANGED K(mix)!aiVars /\ UNCHANGED K(mix)!bufferVars /\ UNCHANGED K(mix)!cfgVars
      /\ alertsRaised < MaxRaised[mix] /\ alertsRaised' = alertsRaised + 1
      /\ unread' = unread + 1
  BY DEF K!Alert
<1>2. alertsRaised' \in 0 .. MaxRaised[mix] /\ unread' \in 0 .. alertsRaised'
  BY <1>1 DEF DeskInv, DeskBadge, DesktopSized
<1>3. DeskBadge(mix)'
  BY <1>1, <1>2 DEF DeskInv, DeskBadge
<1> QED
  BY <1>1, <1>3, DeskBadgeInv

LEMMA DeskOpenAlertsInv ==
  ASSUME NEW mix, DesktopSized(mix), DeskInv(mix), K(mix)!OpenAlerts
  PROVE  DeskInv(mix)'
<1>1. /\ UNCHANGED <<main, step, slow, deskFaults, unread, alertsRaised, uiTurn>>
      /\ UNCHANGED K(mix)!aiVars /\ UNCHANGED K(mix)!bufferVars /\ UNCHANGED K(mix)!cfgVars
      /\ view' = unread /\ badge' = unread
  BY DEF K!OpenAlerts, K!Drawn
<1>2. view' \in -1 .. MaxRaised[mix] /\ badge' \in 0 .. MaxRaised[mix]
  BY <1>1 DEF DeskInv, DeskBadge, DesktopSized
<1>3. DeskBadge(mix)'
  BY <1>1, <1>2 DEF DeskInv, DeskBadge
<1> QED
  BY <1>1, <1>3, DeskBadgeInv

LEMMA DeskCloseAlertsInv ==
  ASSUME NEW mix, DesktopSized(mix), DeskInv(mix), K(mix)!CloseAlerts
  PROVE  DeskInv(mix)'
<1>1. /\ UNCHANGED <<main, step, slow, deskFaults, unread, alertsRaised, badge, uiTurn>>
      /\ UNCHANGED K(mix)!aiVars /\ UNCHANGED K(mix)!bufferVars
      /\ UNCHANGED K(mix)!cfgVars /\ view' = -1
  BY DEF K!CloseAlerts
<1>2. view' \in -1 .. MaxRaised[mix]
  BY <1>1 DEF DesktopSized
<1>3. DeskBadge(mix)'
  BY <1>1, <1>2 DEF DeskInv, DeskBadge
<1> QED
  BY <1>1, <1>3, DeskBadgeInv

LEMMA DeskAckAllInv ==
  ASSUME NEW mix, DesktopSized(mix), DeskInv(mix), K(mix)!AckAll
  PROVE  DeskInv(mix)'
<1>1. /\ UNCHANGED <<main, step, slow, deskFaults, alertsRaised, uiTurn>>
      /\ UNCHANGED K(mix)!aiVars /\ UNCHANGED K(mix)!bufferVars /\ UNCHANGED K(mix)!cfgVars
      /\ unread' = 0 /\ view' = 0 /\ badge' = 0
  BY DEF K!AckAll, K!Drawn
<1>2. unread' \in 0 .. alertsRaised /\ view' \in -1 .. MaxRaised[mix]
         /\ badge' \in 0 .. MaxRaised[mix]
  BY <1>1 DEF DeskInv, DeskBadge, DesktopSized
<1>3. DeskBadge(mix)'
  BY <1>1, <1>2 DEF DeskInv, DeskBadge
<1> QED
  BY <1>1, <1>3, DeskBadgeInv

-----------------------------------------------------------------------------
\* The measuring.
LEMMA DeskKeepingInv ==
  ASSUME NEW mix, DesktopSized(mix), DeskInv(mix),
         UNCHANGED <<main, step, slow, deskFaults>>, UNCHANGED K(mix)!aiVars,
         UNCHANGED K(mix)!badgeVars,
         DeskKeeping(mix)', UNCHANGED K(mix)!cfgVars
  PROVE  DeskInv(mix)'
  BY DeskWhereStays, DeskSettledStays, DeskLearningStays, DeskBadgeStays DEF DeskInv

LEMMA DeskStartMonitoringInv ==
  ASSUME NEW mix, DesktopSized(mix), DeskInv(mix), K(mix)!StartMonitoring
  PROVE  DeskInv(mix)'
<1> USE DEF DesktopSized, DeskInv
<1>1. /\ UNCHANGED <<main, step, slow, deskFaults, buffered, taken, stragglers, dropped,
                     store>>
      /\ UNCHANGED K(mix)!aiVars /\ UNCHANGED K(mix)!badgeVars /\ UNCHANGED K(mix)!cfgVars
      /\ main = "window" /\ measure' = [s \in Source[mix] |-> "on"]
  BY DEF K!StartMonitoring
<1>2. step = 0
  BY <1>1 DEF DeskWhere
<1>3. /\ measure' \in [Source[mix] -> {"off", "on", "told", "ended"}]
      /\ \A s \in Source[mix] : DeskKept(mix, s)'
  BY <1>1, <1>2 DEF DeskKeeping, DeskKept, DeskAt
<1>4. DeskKeeping(mix)'
  BY <1>1, <1>3 DEF DeskKeeping
<1> QED
  BY <1>1, <1>4, DeskKeepingInv

LEMMA DeskSampleInv ==
  ASSUME NEW mix, DesktopSized(mix), DeskInv(mix), NEW s \in Source[mix], K(mix)!Sample(s)
  PROVE  DeskInv(mix)'
<1> USE DEF DesktopSized, DeskInv
<1>1. /\ UNCHANGED <<main, step, slow, deskFaults, measure, stragglers, dropped, store>>
      /\ UNCHANGED K(mix)!aiVars /\ UNCHANGED K(mix)!badgeVars /\ UNCHANGED K(mix)!cfgVars
      /\ measure[s] \in {"on", "told"} /\ taken < MaxSample[mix] /\ taken' = taken + 1
      /\ buffered' = [buffered EXCEPT ![s] = @ + 1]
  BY DEF K!Sample
<1>2. taken \in Nat /\ taken' \in 0 .. MaxSample[mix] /\ step \in 0 .. 9
  BY <1>1 DEF DeskKeeping, DeskWhere
<1>3. /\ buffered' \in [Source[mix] -> Nat] /\ buffered'[s] = buffered[s] + 1
      /\ \A x \in Source[mix] \ {s} : buffered'[x] = buffered[x]
  BY <1>1 DEF DeskKeeping
<1>4. ASSUME NEW x \in Source[mix] PROVE DeskKept(mix, x)'
  <2>0. DeskKept(mix, x) /\ buffered[x] \in Nat /\ dropped[x] \in Nat
           /\ DeskAt(x) \in {3, 5}
    BY DEF DeskKeeping, DeskAt
  <2>1. CASE x = s
    <3>1. step >= 7 => x \in stragglers
      BY <1>1, <1>2, <2>0, <2>1 DEF DeskKept
    <3>2. buffered'[x] + dropped[x] <= taken'
      BY <1>1, <1>2, <1>3, <2>0, <2>1 DEF DeskKept
    <3> QED
      BY <1>1, <2>0, <3>1, <3>2 DEF DeskKept
  <2>2. CASE x # s
    <3>1. buffered'[x] = buffered[x] /\ buffered[x] + dropped[x] <= taken'
      BY <1>1, <1>2, <1>3, <2>0, <2>2 DEF DeskKept
    <3> QED
      BY <1>1, <2>0, <3>1 DEF DeskKept
  <2> QED
    BY <2>1, <2>2
<1>5. DeskKeeping(mix)'
  BY <1>1, <1>2, <1>3, <1>4 DEF DeskKeeping
<1> QED
  BY <1>1, <1>5, DeskKeepingInv

LEMMA DeskEndsInv ==
  ASSUME NEW mix, DesktopSized(mix), DeskInv(mix), NEW s \in Source[mix], K(mix)!Ends(s)
  PROVE  DeskInv(mix)'
<1> USE DEF DesktopSized, DeskInv
<1>1. /\ UNCHANGED <<main, step, slow, deskFaults, buffered, taken, stragglers, dropped,
                     store>>
      /\ UNCHANGED K(mix)!aiVars /\ UNCHANGED K(mix)!badgeVars /\ UNCHANGED K(mix)!cfgVars
      /\ measure' = [measure EXCEPT ![s] = "ended"]
  BY DEF K!Ends
<1>2. /\ measure' \in [Source[mix] -> {"off", "on", "told", "ended"}]
      /\ measure'[s] = "ended"
      /\ \A x \in Source[mix] \ {s} : measure'[x] = measure[x]
  BY <1>1 DEF DeskKeeping
<1>3. \A x \in Source[mix] : DeskKept(mix, x)'
  BY <1>1, <1>2 DEF DeskKeeping, DeskKept
<1>4. DeskKeeping(mix)'
  BY <1>1, <1>2, <1>3 DEF DeskKeeping
<1> QED
  BY <1>1, <1>4, DeskKeepingInv

\* What is emptied is not lost, unless the database is closed.
LEMMA DeskFlushHas ==
  ASSUME NEW mix, DesktopSized(mix), DeskKeeping(mix),
         NEW SS \in SUBSET {"sniffer", "pinger"}, K(mix)!Flush(SS)
  PROVE  /\ UNCHANGED <<taken, stragglers, store>>
         /\ buffered' \in [Source[mix] -> Nat] /\ dropped' \in [Source[mix] -> Nat]
         /\ \A s \in Source[mix] : /\ buffered'[s] <= buffered[s]
                                   /\ buffered'[s] + dropped'[s] <= taken
                                   /\ s \in SS => buffered'[s] = 0
                                   /\ store = "open" => dropped'[s] = dropped[s]
                                   /\ dropped'[s] > 0 => s \in stragglers
<1>1. /\ UNCHANGED <<taken, stragglers, store>>
      /\ buffered' = [s \in Source[mix] |-> IF s \in SS THEN 0 ELSE buffered[s]]
      /\ dropped' = [s \in Source[mix] |-> IF s \in SS
          /\ store = "closed" THEN dropped[s] + buffered[s]
                                      ELSE dropped[s]]
  BY DEF K!Flush
<1>2. \A s \in Source[mix] : buffered[s] \in Nat /\ dropped[s] \in Nat
         /\ buffered[s] + dropped[s] <= taken
  BY DEF DeskKeeping, DeskKept
<1>3. buffered' \in [Source[mix] -> Nat] /\ dropped' \in [Source[mix] -> Nat]
  BY <1>1, <1>2 DEF DeskKeeping
<1>4. ASSUME NEW s \in Source[mix]
      PROVE  /\ buffered'[s] <= buffered[s] /\ buffered'[s] + dropped'[s] <= taken
             /\ s \in SS => buffered'[s] = 0
             /\ store = "open" => dropped'[s] = dropped[s]
  <2>1. CASE s \in SS /\ store = "closed"
    BY <1>1, <1>2, <2>1 DEF DeskKeeping
  <2>2. CASE s \in SS /\ store # "closed"
    BY <1>1, <1>2, <2>2 DEF DeskKeeping
  <2>3. CASE s \notin SS
    BY <1>1, <1>2, <2>3 DEF DeskKeeping
  <2> QED
    BY <2>1, <2>2, <2>3
<1>5. ASSUME NEW s \in Source[mix], dropped'[s] > 0 PROVE s \in stragglers
  <2>0. DeskKept(mix, s) /\ buffered[s] \in Nat /\ dropped[s] \in Nat
    BY DEF DeskKeeping
  <2>1. CASE s \in SS /\ store = "closed"
    <3>1. step = 9
      BY <2>1 DEF DeskKeeping
    <3>2. dropped'[s] = dropped[s] + buffered[s]
      BY <1>1, <2>1
    <3>3. buffered[s] > 0 \/ dropped[s] > 0
      BY <1>5, <2>0, <3>2
    <3> QED
      BY <2>0, <3>1, <3>3 DEF DeskKept
  <2>2. CASE ~(s \in SS /\ store = "closed")
    <3>1. dropped'[s] = dropped[s]
      BY <1>1, <2>2
    <3> QED
      BY <1>5, <2>0, <3>1 DEF DeskKept
  <2> QED
    BY <2>1, <2>2
<1> QED
  BY <1>1, <1>3, <1>4, <1>5

\* Emptied buffers, at the same step of the shutdown or the next.
LEMMA DeskFlushKeeps ==
  ASSUME NEW mix, DesktopSized(mix), DeskWhere(mix), DeskKeeping(mix),
         NEW SS \in SUBSET {"sniffer", "pinger"}, K(mix)!Flush(SS),
         UNCHANGED <<measure, step>>
  PROVE  DeskKeeping(mix)'
<1>1. /\ UNCHANGED <<taken, stragglers, store>>
      /\ buffered' \in [Source[mix] -> Nat] /\ dropped' \in [Source[mix] -> Nat]
      /\ \A s \in Source[mix] : /\ buffered'[s] <= buffered[s]
                                /\ buffered'[s] + dropped'[s] <= taken
                                /\ s \in SS => buffered'[s] = 0
                                /\ store = "open" => dropped'[s] = dropped[s]
                                /\ dropped'[s] > 0 => s \in stragglers
  BY DeskFlushHas
<1>2. ASSUME NEW s \in Source[mix] PROVE DeskKept(mix, s)'
  <2>1. DeskKept(mix, s) /\ buffered[s] \in Nat /\ buffered'[s] \in Nat
    BY <1>1 DEF DeskKeeping
  <2>2. buffered'[s] > 0 => buffered[s] > 0
    BY <1>1, <2>1
  <2> QED
    BY <1>1, <2>1, <2>2 DEF DeskKept
<1> QED
  BY <1>1, <1>2 DEF DeskKeeping

LEMMA DeskWriteInv ==
  ASSUME NEW mix, DesktopSized(mix), DeskInv(mix), NEW s \in Source[mix], K(mix)!Write(s)
  PROVE  DeskInv(mix)'
<1>1. /\ UNCHANGED <<main, step, slow, deskFaults, measure>> /\ K(mix)!Flush({s})
      /\ UNCHANGED K(mix)!aiVars /\ UNCHANGED K(mix)!badgeVars /\ UNCHANGED K(mix)!cfgVars
  BY DEF K!Write
<1>2. DeskKeeping(mix)'
  <2>1. {s} \in SUBSET {"sniffer", "pinger"}
    BY DEF DesktopSized
  <2> QED
    BY <1>1, <2>1, DeskFlushKeeps DEF DeskInv
<1> QED
  BY <1>1, <1>2, DeskKeepingInv

-----------------------------------------------------------------------------
\* The shutdown.
LEMMA DeskOrders ==
  ASSUME NEW mix
  PROVE  /\ Len(K(mix)!Order) = 9 /\ Len(K(mix)!Steps) = 9
         /\ \A k \in 1 .. 9 :
               \/ (k = 1 /\ K(mix)!Order[k] = "ui")
               \/ (k = 2 /\ K(mix)!Order[k] = "ai")
               \/ (k = 3 /\ K(mix)!Order[k] = "sniffer")
               \/ (k = 4 /\ K(mix)!Order[k] = "sniffer ends")
               \/ (k = 5 /\ K(mix)!Order[k] = "pinger")
               \/ (k = 6 /\ K(mix)!Order[k] = "pinger ends")
               \/ (k = 7 /\ K(mix)!Order[k] = "flush")
               \/ (k = 8 /\ K(mix)!Order[k] = "windows")
               \/ (k = 9 /\ K(mix)!Order[k] = "database")
<1>1. Len(K(mix)!Order) = 9 /\ Len(K(mix)!Steps) = 9
  BY DEF K!Order, K!Steps
<1>2. K(mix)!Order[1] = "ui" /\ K(mix)!Order[2] = "ai" /\ K(mix)!Order[3] = "sniffer"
  BY DEF K!Order, K!Steps
<1>3. K(mix)!Order[4] = "sniffer ends" /\ K(mix)!Order[5] = "pinger"
         /\ K(mix)!Order[6] = "pinger ends"
  BY DEF K!Order, K!Steps
<1>4. K(mix)!Order[7] = "flush" /\ K(mix)!Order[8] = "windows"
         /\ K(mix)!Order[9] = "database"
  BY DEF K!Order, K!Steps
<1>5. \A k \in 1 .. 9 : k \in {1, 2, 3, 4, 5, 6, 7, 8, 9}
  OBVIOUS
<1>6. ASSUME NEW k \in 1 .. 9
      PROVE  \/ (k = 1 /\ K(mix)!Order[k] = "ui")
             \/ (k = 2 /\ K(mix)!Order[k] = "ai")
             \/ (k = 3 /\ K(mix)!Order[k] = "sniffer")
             \/ (k = 4 /\ K(mix)!Order[k] = "sniffer ends")
             \/ (k = 5 /\ K(mix)!Order[k] = "pinger")
             \/ (k = 6 /\ K(mix)!Order[k] = "pinger ends")
             \/ (k = 7 /\ K(mix)!Order[k] = "flush")
             \/ (k = 8 /\ K(mix)!Order[k] = "windows")
             \/ (k = 9 /\ K(mix)!Order[k] = "database")
  <2>1. k \in {1, 2, 3, 4, 5, 6, 7, 8, 9}
    BY <1>5
  <2> QED
    BY <1>2, <1>3, <1>4, <2>1
<1> QED
  BY <1>1, <1>6

LEMMA DeskNumbered ==
  ASSUME NEW mix, NEW k \in 1 .. 9
  PROVE  /\ K(mix)!Order[k] = "sniffer" => k = 3
         /\ K(mix)!Order[k] = "sniffer ends" => k = 4
         /\ K(mix)!Order[k] = "pinger" => k = 5
         /\ K(mix)!Order[k] = "pinger ends" => k = 6
         /\ K(mix)!Order[k] = "flush" => k = 7
         /\ K(mix)!Order[k] = "database" => k = 9
         /\ K(mix)!Order[k] \in {"ui", "ai", "windows"} => k \in {1, 2, 8}
<1>1. PICK what : what = K(mix)!Order[k]
  OBVIOUS
<1>2. \/ (k = 1 /\ what = "ui")
      \/ (k = 2 /\ what = "ai")
      \/ (k = 3 /\ what = "sniffer")
      \/ (k = 4 /\ what = "sniffer ends")
      \/ (k = 5 /\ what = "pinger")
      \/ (k = 6 /\ what = "pinger ends")
      \/ (k = 7 /\ what = "flush")
      \/ (k = 8 /\ what = "windows")
      \/ (k = 9 /\ what = "database")
  BY <1>1, DeskOrders
<1> QED
  BY <1>1, <1>2

LEMMA DeskAts ==
  ASSUME NEW mix, DesktopSized(mix), NEW s \in Source[mix]
  PROVE  (s = "sniffer" /\ DeskAt(s) = 3) \/ (s = "pinger" /\ DeskAt(s) = 5)
  BY DEF DesktopSized, DeskAt

LEMMA DeskElsewhere ==
  ASSUME NEW mix, DesktopSized(mix), NEW k \in 1 .. 9, k # 3, k # 4, k # 5, k # 6,
         NEW s \in Source[mix]
  PROVE  k # DeskAt(s) /\ k # DeskAt(s) + 1
<1>1. PICK n \in {3, 5} : n = DeskAt(s)
  BY DeskAts
<1>2. k # n /\ k # n + 1
  BY <1>1
<1> QED
  BY <1>1, <1>2

LEMMA DeskHere ==
  ASSUME NEW mix, DesktopSized(mix), NEW k \in 1 .. 9, NEW x \in {"sniffer", "pinger"},
         k = DeskAt(x), NEW s \in Source[mix]
  PROVE  (k = DeskAt(s) <=> s = x) /\ k # DeskAt(s) + 1 /\ k # 7
<1>1. (s = "sniffer" /\ DeskAt(s) = 3) \/ (s = "pinger" /\ DeskAt(s) = 5)
  BY DeskAts
<1>2. (x = "sniffer" /\ DeskAt(x) = 3) \/ (x = "pinger" /\ DeskAt(x) = 5)
  BY DEF DeskAt
<1>3. PICK n \in {3, 5}, m \in {3, 5} : n = DeskAt(s) /\ m = DeskAt(x) /\ (n = m <=> s = x)
  BY <1>1, <1>2
<1>4. m # n + 1 /\ m # 7
  BY <1>3
<1> QED
  BY <1>3, <1>4

LEMMA DeskAfter ==
  ASSUME NEW mix, DesktopSized(mix), NEW k \in 1 .. 9, NEW x \in {"sniffer", "pinger"},
         k = DeskAt(x) + 1, NEW s \in Source[mix]
  PROVE  k # DeskAt(s) /\ (k = DeskAt(s) + 1 <=> s = x) /\ k # 7
<1>1. (s = "sniffer" /\ DeskAt(s) = 3) \/ (s = "pinger" /\ DeskAt(s) = 5)
  BY DeskAts
<1>2. (x = "sniffer" /\ DeskAt(x) = 3) \/ (x = "pinger" /\ DeskAt(x) = 5)
  BY DEF DeskAt
<1>3. PICK n \in {3, 5}, m \in {3, 5} : n = DeskAt(s) /\ m = DeskAt(x) /\ (n = m <=> s = x)
  BY <1>1, <1>2
<1>4. k = m + 1
  BY <1>3
<1>5. k # n /\ (k = n + 1 <=> n = m) /\ k # 7
  BY <1>3, <1>4
<1> QED
  BY <1>3, <1>5

\* A step of the shutdown, as far as the samples are concerned.
LEMMA DeskStepKeeps ==
  ASSUME NEW mix, DesktopSized(mix), DeskWhere(mix), DeskKeeping(mix), NEW k \in 1 .. 9,
         k = step + 1, step' = k,
         measure' \in [Source[mix] -> {"off", "on", "told", "ended"}],
         buffered' \in [Source[mix] -> Nat], dropped' \in [Source[mix] -> Nat],
         stragglers' \subseteq Source[mix],
         UNCHANGED taken, store' \in {"open", "closed"}, store' = "closed" => k = 9,
         \A s \in Source[mix] :
            /\ measure'[s] = "on" => measure[s] = "on" /\ k # DeskAt(s)
            /\ measure'[s] = "told" => measure[s] \in {"told", "on"}
                /\ (k = DeskAt(s) + 1 => s \in stragglers')
            /\ measure[s] = "on" => measure'[s] \in {"on", "told"}
            /\ measure'[s] = "told" /\ measure[s] = "on" => k = DeskAt(s)
            /\ s \in stragglers => s \in stragglers'
            /\ buffered'[s] <= buffered[s] /\ buffered'[s] + dropped'[s] <= taken
            /\ k = 7 => buffered'[s] = 0
            /\ dropped'[s] > 0 => s \in stragglers'
  PROVE  DeskKeeping(mix)'
<1>1. step \in Nat
  BY DEF DeskWhere
<1>2. ASSUME NEW s \in Source[mix] PROVE DeskKept(mix, s)'
  <2>0. DeskKept(mix, s) /\ DeskAt(s) \in {3, 5} /\ buffered[s] \in Nat
           /\ buffered'[s] \in Nat
    BY DEF DeskKeeping, DeskAt
  <2>1. k >= DeskAt(s) => measure'[s] # "on"
    <3> SUFFICES ASSUME k >= DeskAt(s), measure'[s] = "on" PROVE FALSE
      OBVIOUS
    <3>1. measure[s] = "on" /\ k # DeskAt(s)
      OBVIOUS
    <3>2. step >= DeskAt(s)
      <4>1. PICK n \in {3, 5} : n = DeskAt(s)
        BY <2>0
      <4>2. k >= n /\ k # n
        BY <3>1, <4>1
      <4>3. step >= n
        BY <1>1, <4>2
      <4> QED
        BY <4>1, <4>3
    <3> QED
      BY <2>0, <3>1, <3>2 DEF DeskKept
  <2>2. k > DeskAt(s) /\ measure'[s] = "told" => s \in stragglers'
    <3> SUFFICES ASSUME k > DeskAt(s), measure'[s] = "told" PROVE s \in stragglers'
      OBVIOUS
    <3>1. CASE k = DeskAt(s) + 1
      BY <3>1
    <3>2. CASE k # DeskAt(s) + 1
      <4>1. step > DeskAt(s) /\ k # DeskAt(s)
        BY <1>1, <2>0, <3>2
      <4>2. measure[s] = "told"
        BY <4>1
      <4> QED
        BY <2>0, <4>1, <4>2 DEF DeskKept
    <3> QED
      BY <3>1, <3>2
  <2>3. k >= 7 /\ buffered'[s] > 0 => s \in stragglers'
    <3> SUFFICES ASSUME k >= 7, buffered'[s] > 0 PROVE s \in stragglers'
      OBVIOUS
    <3>1. step >= 7 /\ buffered[s] > 0
      <4>1. k # 7
        OBVIOUS
      <4> QED
        BY <1>1, <2>0, <4>1
    <3> QED
      BY <2>0, <3>1 DEF DeskKept
  <2>4. DeskAt(s)' = DeskAt(s)
    BY DEF DeskAt
  <2> QED
    BY <2>1, <2>2, <2>3, <2>4 DEF DeskKept
<1> QED
  BY <1>2 DEF DeskKeeping

LEMMA DeskShutdownInv ==
  ASSUME NEW mix, DesktopSized(mix), DeskInv(mix), K(mix)!Shutdown
  PROVE  DeskInv(mix)'
<1> USE DEF DesktopSized, DeskInv
<1>1. /\ main = "closing" /\ UNCHANGED <<main, slow, deskFaults>>
      /\ UNCHANGED K(mix)!badgeVars /\ UNCHANGED K(mix)!cfgVars
  BY DEF K!Shutdown
<1>2. PICK k \in 1 .. 9 : k = step + 1
  <2>1. step < Len(K(mix)!Order) /\ step \in 0 .. 9
    BY DEF K!Shutdown, DeskWhere
  <2>2. Len(K(mix)!Order) = 9
    BY DeskOrders
  <2> QED
    BY <2>1, <2>2
<1>3. PICK what : what = K(mix)!Order[k]
  OBVIOUS
<1>12. /\ what = "sniffer" => k = 3
       /\ what = "sniffer ends" => k = 4
       /\ what = "pinger" => k = 5
       /\ what = "pinger ends" => k = 6
       /\ what = "flush" => k = 7
       /\ what = "database" => k = 9
       /\ what \in {"ui", "ai", "windows"} => k \in {1, 2, 8}
  <2>1. /\ K(mix)!Order[k] = "sniffer" => k = 3
        /\ K(mix)!Order[k] = "sniffer ends" => k = 4
        /\ K(mix)!Order[k] = "pinger" => k = 5
        /\ K(mix)!Order[k] = "pinger ends" => k = 6
        /\ K(mix)!Order[k] = "flush" => k = 7
        /\ K(mix)!Order[k] = "database" => k = 9
        /\ K(mix)!Order[k] \in {"ui", "ai", "windows"} => k \in {1, 2, 8}
    BY DeskNumbered, Zenon
  <2> QED
    BY <1>3, <2>1
<1>11. step' = k
  BY <1>2 DEF K!Shutdown
<1>4. /\ \/ what = "ui" /\ K(mix)!StopUi
         \/ what = "ai" /\ K(mix)!StopAi
         \/ what \in {"sniffer", "pinger"} /\ K(mix)!StopSource(what)
         \/ what = "sniffer ends" /\ K(mix)!Awaited("sniffer") /\ UNCHANGED K(mix)!aiVars
         \/ what = "pinger ends" /\ K(mix)!Awaited("pinger") /\ UNCHANGED K(mix)!aiVars
         \/ what = "flush" /\ K(mix)!FlushAll
         \/ what = "windows" /\ K(mix)!CloseWindows
         \/ what = "database" /\ K(mix)!CloseDatabase
  BY <1>2, <1>3 DEF K!Shutdown
<1>5. DeskWhere(mix)'
  <2>1. step' = k /\ k > 0 /\ k \in 0 .. 9
    BY <1>2, <1>11
  <2> QED
    BY <1>1, <2>1 DEF DeskWhere
<1>6. DeskLearning(mix)'
  <2>1. CASE UNCHANGED K(mix)!aiVars
    BY <1>1, <2>1, DeskLearningStays
  <2>2. CASE what = "ai" /\ K(mix)!StopAi
    <3>1. UNCHANGED <<aiLock, trainer, model, trained, looked>> /\ halt' = TRUE
      BY <2>2 DEF K!StopAi
    <3>2. K(mix)!ModelWhole' /\ \A t \in K(mix)!Trainer : DeskFits(mix, t)'
             <=> DeskFits(mix, t)
      BY <3>1 DEF DeskLearning, K!ModelWhole, DeskFits
    <3> QED
      BY <1>1, <3>1, <3>2 DEF DeskLearning
  <2> QED
    BY <1>4, <2>1, <2>2 DEF K!StopUi, K!StopSource, K!FlushAll, K!CloseWindows,
       K!CloseDatabase
<1>7. /\ k \in Nat /\ store \in {"open", "closed"}
      /\ measure \in [Source[mix] -> {"off", "on", "told", "ended"}]
      /\ buffered \in [Source[mix] -> Nat] /\ dropped \in [Source[mix] -> Nat]
      /\ stragglers \subseteq Source[mix]
  BY DEF DeskKeeping
<1>8. store = "open"
  BY <1>2 DEF DeskKeeping
<1>9. \A s \in Source[mix] : /\ dropped[s] > 0 => s \in stragglers
                             /\ buffered[s] + dropped[s] <= taken
                             /\ buffered[s] <= buffered[s]
  <2>1. \A s \in Source[mix] : buffered[s] <= buffered[s]
    BY <1>7
  <2> QED
    BY <2>1 DEF DeskKeeping, DeskKept
<1>10. DeskKeeping(mix)'
  <2>1. CASE what \in {"ui", "ai", "windows"} /\ UNCHANGED K(mix)!bufferVars
    <3>1. UNCHANGED <<measure, buffered, taken, stragglers, dropped, store>>
      BY <2>1 DEF K!bufferVars
    <3>2. k \in {1, 2, 8}
      BY <1>3, <2>1, <1>12
    <3>3. k # 3 /\ k # 4 /\ k # 5 /\ k # 6 /\ k # 7
      BY <3>2
    <3>4. \A s \in Source[mix] : k # DeskAt(s) /\ k # DeskAt(s) + 1
      BY <3>3, DeskElsewhere
    <3> QED
      BY <1>2, <1>11, <1>7, <1>8, <1>9, <3>1, <3>3, <3>4, DeskStepKeeps
  <2>2. CASE what \in {"sniffer", "pinger"} /\ K(mix)!StopSource(what)
    <3>1. UNCHANGED <<taken, stragglers, store>> /\ K(mix)!Flush({what})
      BY <2>2 DEF K!StopSource, K!Flush
    <3>2. measure' = [measure EXCEPT ![what] = IF @ = "on" THEN "told" ELSE @]
      BY <2>2 DEF K!StopSource, K!Stop
    <3>3. /\ buffered' \in [Source[mix] -> Nat] /\ dropped' \in [Source[mix] -> Nat]
          /\ \A s \in Source[mix] : /\ buffered'[s] <= buffered[s]
                                    /\ buffered'[s] + dropped'[s] <= taken
                                    /\ dropped'[s] > 0 => s \in stragglers
      <4>1. {what} \in SUBSET {"sniffer", "pinger"}
        BY <2>2
      <4> QED
        BY <3>1, <4>1, DeskFlushHas
    <3>4. k = DeskAt(what)
      BY <1>3, <2>2, <1>12 DEF DeskAt
    <3>5. \A s \in Source[mix] : (k = DeskAt(s) <=> s = what) /\ k # DeskAt(s) + 1 /\ k # 7
      BY <2>2, <3>4, DeskHere
    <3>6. /\ measure' \in [Source[mix] -> {"off", "on", "told", "ended"}]
          /\ \A s \in Source[mix] : measure'[s] = IF s = what
              /\ measure[s] = "on" THEN "told" ELSE measure[s]
      BY <1>7, <3>2
    <3> QED
      BY <1>2, <1>11, <1>7, <1>8, <1>9, <3>1, <3>3, <3>5, <3>6, DeskStepKeeps
  <2>3. ASSUME NEW x \in {"sniffer", "pinger"}, K(mix)!Awaited(x), k = DeskAt(x) + 1
        PROVE DeskKeeping(mix)'
    <3>1. /\ stragglers' = stragglers \cup {y \in {x} \cap Source[mix] : measure[y] = "told"}
          /\ UNCHANGED <<measure, buffered, taken, dropped, store>>
      BY <2>3 DEF K!Awaited
    <3>2. \A s \in Source[mix] : k # DeskAt(s) /\ (k = DeskAt(s) + 1 <=> s = x) /\ k # 7
      BY <2>3, DeskAfter
    <3>3. \A s \in Source[mix] : (s \in stragglers => s \in stragglers') /\ (s = x
             /\ measure[s] = "told" => s \in stragglers')
      BY <3>1
    <3>4. stragglers' \subseteq Source[mix]
      BY <1>7, <3>1
    <3> QED
      BY <1>2, <1>11, <1>7, <1>8, <1>9, <3>1, <3>2, <3>3, <3>4, DeskStepKeeps
  <2>4. CASE what = "flush" /\ K(mix)!FlushAll
    <3>1. UNCHANGED <<measure, taken, stragglers, store>> /\ K(mix)!Flush(Source[mix])
      BY <2>4 DEF K!FlushAll, K!Flush
    <3>2. /\ buffered' \in [Source[mix] -> Nat] /\ dropped' \in [Source[mix] -> Nat]
          /\ \A s \in Source[mix] : /\ buffered'[s] <= buffered[s]
                                    /\ buffered'[s] + dropped'[s] <= taken
                                    /\ buffered'[s] = 0
                                    /\ dropped'[s] > 0 => s \in stragglers
      <4>1. Source[mix] \in SUBSET {"sniffer", "pinger"}
        OBVIOUS
      <4> QED
        BY <3>1, <4>1, DeskFlushHas
    <3>3. k = 7
      BY <1>2, <1>3, <2>4, <1>12
    <3>4. \A s \in Source[mix] : k # DeskAt(s) /\ k # DeskAt(s) + 1
      <4>1. k # 3 /\ k # 4 /\ k # 5 /\ k # 6
        BY <3>3
      <4> QED
        BY <4>1, DeskElsewhere
    <3> QED
      BY <1>2, <1>11, <1>7, <1>8, <1>9, <3>1, <3>2, <3>4, DeskStepKeeps
  <2>5. CASE what = "database" /\ K(mix)!CloseDatabase
    <3>1. store' = "closed" /\ UNCHANGED <<measure, buffered, taken, stragglers, dropped>>
      BY <2>5 DEF K!CloseDatabase
    <3>2. k = 9
      BY <1>2, <1>3, <2>5, <1>12
    <3>3. \A s \in Source[mix] : k # DeskAt(s) /\ k # DeskAt(s) + 1
      <4>1. k # 3 /\ k # 4 /\ k # 5 /\ k # 6
        BY <3>2
      <4> QED
        BY <4>1, DeskElsewhere
    <3>4. k # 7
      BY <3>2
    <3> QED
      BY <1>2, <1>11, <1>7, <1>9, <3>1, <3>2, <3>3, <3>4, DeskStepKeeps
  <2>6. what = "sniffer ends" => k = DeskAt("sniffer") + 1
    <3>1. what = "sniffer ends" => k = 4
      BY <1>12
    <3>2. DeskAt("sniffer") + 1 = 4
      BY DEF DeskAt
    <3> QED
      BY <3>1, <3>2
  <2>7. what = "pinger ends" => k = DeskAt("pinger") + 1
    <3>1. what = "pinger ends" => k = 6
      BY <1>12
    <3>2. DeskAt("pinger") + 1 = 6
      BY DEF DeskAt
    <3> QED
      BY <3>1, <3>2
  <2>8. K(mix)!StopUi \/ K(mix)!StopAi \/ K(mix)!CloseWindows => UNCHANGED K(mix)!bufferVars
    BY DEF K!StopUi, K!StopAi, K!CloseWindows
  <2> QED
    BY <1>4, <2>1, <2>2, <2>3, <2>4, <2>5, <2>6, <2>7, <2>8
<1> QED
  BY <1>1, <1>5, <1>6, <1>10, DeskBadgeStays, DeskSettledStays

LEMMA DeskLeaveInv ==
  ASSUME NEW mix, DesktopSized(mix), DeskInv(mix), K(mix)!Clean \/ K(mix)!CutOff
  PROVE  DeskInv(mix)'
<1> USE DEF DesktopSized, DeskInv
<1>1. UNCHANGED <<step, slow, measure, deskFaults>> /\ UNCHANGED K(mix)!aiVars
         /\ UNCHANGED K(mix)!badgeVars /\ UNCHANGED K(mix)!cfgVars
  <2>1. CASE K(mix)!Clean
    BY <2>1 DEF K!Clean
  <2>2. CASE K(mix)!CutOff
    BY <2>2 DEF K!CutOff
  <2> QED
    BY <2>1, <2>2
<1>2. \/ main = "closing" /\ step = 9 /\ ~slow /\ main' = "gone"
          /\ K(mix)!Flush(Source[mix])
      \/ main = "closing" /\ slow /\ main' = "forced" /\ K(mix)!Flush(Source[mix])
      \/ main = "forced" /\ main' = "gone"
          /\ UNCHANGED <<buffered, taken, stragglers, dropped, store>>
  <2>1. CASE K(mix)!Clean
    <3>1. main = "closing" /\ step = Len(K(mix)!Order) /\ ~slow /\ main' = "gone"
             /\ K(mix)!Flush(Source[mix])
      BY <2>1 DEF K!Clean
    <3> QED
      BY <3>1, DeskOrders
  <2>2. CASE K(mix)!CutOff
    BY <2>2 DEF K!CutOff
  <2> QED
    BY <2>1, <2>2
<1>3. DeskWhere(mix)'
  BY <1>1, <1>2 DEF DeskWhere
<1>4. DeskKeeping(mix)'
  <2>1. CASE K(mix)!Flush(Source[mix])
    <3>1. Source[mix] \in SUBSET {"sniffer", "pinger"}
      OBVIOUS
    <3> QED
      BY <1>1, <2>1, <3>1, DeskFlushKeeps
  <2>2. CASE UNCHANGED <<buffered, taken, stragglers, dropped, store>>
    BY <1>1, <2>2, DeskKeepingStays DEF K!bufferVars
  <2> QED
    BY <1>2, <2>1, <2>2
<1>5. main' # "start"
  BY <1>2
<1>6. DeskLearning(mix)' /\ DeskBadge(mix)' /\ DeskSettled(mix)'
  BY <1>1, <1>5, DeskLearningStays, DeskBadgeStays, DeskSettledStays
<1> QED
  BY <1>3, <1>4, <1>6

LEMMA DeskNextInv ==
  ASSUME NEW mix, DesktopSized(mix), DeskInv(mix), [K(mix)!Next]_deskVars
  PROVE  DeskInv(mix)'
<1>1. CASE K(mix)!Start \/ K(mix)!Window \/ K(mix)!StartMonitoring \/ K(mix)!Retrain
         \/ K(mix)!Turn \/ K(mix)!OpenAlerts \/ K(mix)!CloseAlerts
  BY <1>1, DeskStartInv, DeskWindowInv, DeskStartMonitoringInv, DeskRetrainInv,
     DeskTurnInv, DeskOpenAlertsInv, DeskCloseAlertsInv
<1>2. CASE K(mix)!AckAll \/ K(mix)!Save \/ K(mix)!Export \/ K(mix)!Close \/ K(mix)!Slow
         \/ K(mix)!Leave
  BY <1>2, DeskAckAllInv, DeskSaveInv, DeskExportInv, DeskCloseInv, DeskSlowInv,
     DeskShutdownInv, DeskLeaveInv DEF K!Leave
<1>3. ASSUME NEW t \in K(mix)!Trainer, K(mix)!TrainStep(t) PROVE DeskInv(mix)'
  BY <1>3, DeskTrainInv, DeskTrainNotInv, DeskAssignInv, DeskTrainedInv DEF K!TrainStep
<1>4. CASE K(mix)!Background \/ K(mix)!Alert \/ \E s \in Source[mix] : K(mix)!Sample(s)
         \/ K(mix)!Ends(s) \/ K(mix)!Write(s)
  BY <1>4, DeskBackgroundInv, DeskAlertInv, DeskSampleInv, DeskEndsInv, DeskWriteInv
<1>5. CASE UNCHANGED deskVars
  <2>1. /\ UNCHANGED <<main, step, slow, deskFaults>> /\ UNCHANGED K(mix)!aiVars
        /\ UNCHANGED K(mix)!badgeVars
        /\ UNCHANGED K(mix)!bufferVars /\ UNCHANGED K(mix)!cfgVars
    BY <1>5 DEF deskVars, K!aiVars, K!badgeVars, K!bufferVars, K!cfgVars
  <2>2. DeskSettled(mix)' /\ deskFaults' \in 0 .. MaxFailed
    BY <2>1, DeskSettledStays DEF DeskInv, DeskWhere
  <2> QED
    BY <2>1, <2>2, DeskSettledInv
<1> QED
  BY <1>1, <1>2, <1>3, <1>4, <1>5 DEF K!Next

LEMMA DeskSound ==
  ASSUME NEW mix, DesktopSized(mix), DeskInv(mix)
  PROVE  K(mix)!TypeOK /\ K(mix)!DesktopSound
<1> USE DEF DesktopSized, DeskInv
<1>1. K(mix)!TypeOK
  <2>1. buffered \in [Source[mix] -> 0 .. MaxSample[mix]]
           /\ dropped \in [Source[mix] -> 0 .. MaxSample[mix]]
    <3>1. ASSUME NEW s \in Source[mix]
          PROVE buffered[s] \in 0 .. MaxSample[mix] /\ dropped[s] \in 0 .. MaxSample[mix]
      <4>1. /\ buffered[s] \in Nat /\ dropped[s] \in Nat /\ taken \in 0 .. MaxSample[mix]
            /\ buffered[s] + dropped[s] <= taken
        BY DEF DeskKeeping, DeskKept
      <4> QED
        BY <4>1
    <3> QED
      BY <3>1 DEF DeskKeeping
  <2>2. unread \in 0 .. MaxRaised[mix]
    BY DEF DeskBadge
  <2>3. step \in 0 .. Len(K(mix)!Steps)
    BY DeskOrders DEF DeskWhere
  <2> QED
    BY <2>1, <2>2, <2>3 DEF K!TypeOK, DeskWhere, DeskBadge, DeskSettled, DeskLearning,
       DeskKeeping
<1>2. K(mix)!ModelWhole
  BY DEF DeskLearning
<1>3. K(mix)!ExitKeeps
  <2> SUFFICES ASSUME NEW s \in Source[mix]
               PROVE  /\ dropped[s] > 0 => s \in stragglers
                      /\ main = "gone" /\ ~slow /\ buffered[s] > 0 => s \in stragglers
    BY DEF K!ExitKeeps
  <2>1. DeskKept(mix, s)
    BY DEF DeskKeeping
  <2> QED
    BY <2>1 DEF DeskKept, DeskWhere
<1> QED
  BY <1>1, <1>2, <1>3 DEF K!DesktopSound

-----------------------------------------------------------------------------
(* The monitoring service.                                                   *)

MonitorInv == /\ AlertInv /\ IdsInv /\ LanInv /\ ProbeInv /\ PingInv /\ SniffInv
              /\ QuotaInv /\ WindowInv
              /\ \A mix \in Duty : mix = Chosen(Duty) => DutyInv(mix)
              /\ \A mix \in Use : mix = Chosen(Use) => DeskInv(mix)

LEMMA MonitorInitInv == MonitorInit => MonitorInv
<1> SUFFICES ASSUME MonitorInit PROVE MonitorInv
  OBVIOUS
<1>1. /\ A!Init /\ I!Init /\ L!Init /\ M!Init /\ P!Init /\ S!Init /\ Q!Init /\ N!Init
      /\ \E mix \in Duty : mix = Chosen(Duty) /\ D(mix)!Init
      /\ \E mix \in Use : mix = Chosen(Use) /\ K(mix)!Init
  BY DEF MonitorInit
<1>2. AlertInv /\ IdsInv /\ LanInv /\ ProbeInv
  BY <1>1, Sizes, AlertInitInv, IdsInitInv, LanInitInv, ProbeInitInv
<1>3. PingInv /\ SniffInv /\ QuotaInv /\ WindowInv
  BY <1>1, Sizes, PingInitInv, SniffInitInv, QuotaInitInv, WindowInitInv
<1>4. ASSUME NEW mix \in Duty, mix = Chosen(Duty) PROVE DutyInv(mix)
  <2>1. D(mix)!Init /\ DutiesSized(mix)
    BY <1>1, <1>4, Sizes
  <2> QED
    BY <2>1, DutyInitInv
<1>5. ASSUME NEW mix \in Use, mix = Chosen(Use) PROVE DeskInv(mix)
  <2>1. K(mix)!Init /\ DesktopSized(mix)
    BY <1>1, <1>5, Sizes
  <2> QED
    BY <2>1, DeskInitInv
<1> QED
  BY <1>2, <1>3, <1>4, <1>5 DEF MonitorInv

\* What is chosen makes a step of its own, and the others make none.
LEMMA MonitorSteps ==
  ASSUME [MonitorNext]_monitorVars
  PROVE  /\ which' = which
         /\ [A!Next]_alertVars /\ [I!Next]_idsVars /\ [L!Next]_lanVars
         /\ [M!Next]_probeVars /\ [P!Next]_pingVars /\ [S!Next]_sniffVars
         /\ [Q!Next]_quotaVars /\ [N!Next]_winVars
         /\ \A mix \in Duty : mix = Chosen(Duty) => [D(mix)!Next]_dutyVars
         /\ \A mix \in Use : mix = Chosen(Use) => [K(mix)!Next]_deskVars
<1>1. CASE Alerting
  BY <1>1 DEF Alerting
<1>2. CASE Sampling
  BY <1>2 DEF Sampling
<1>3. CASE Scanning
  BY <1>3 DEF Scanning
<1>4. CASE Probing
  BY <1>4 DEF Probing
<1>5. CASE Pinging
  BY <1>5 DEF Pinging
<1>6. CASE Counting
  BY <1>6 DEF Counting
<1>7. CASE Reminding
  BY <1>7 DEF Reminding, Chosen
<1>8. CASE Billing
  BY <1>8 DEF Billing
<1>9. CASE Watching
  BY <1>9 DEF Watching
<1>10. CASE Serving
  BY <1>10 DEF Serving, Chosen
<1>11. CASE UNCHANGED monitorVars
  BY <1>11 DEF monitorVars
<1> QED
  BY <1>1, <1>2, <1>3, <1>4, <1>5, <1>6, <1>7, <1>8, <1>9, <1>10, <1>11 DEF MonitorNext

LEMMA MonitorNextInv == MonitorInv /\ [MonitorNext]_monitorVars => MonitorInv'
<1> SUFFICES ASSUME MonitorInv, [MonitorNext]_monitorVars PROVE MonitorInv'
  OBVIOUS
<1>1. AlertInv' /\ IdsInv' /\ LanInv' /\ ProbeInv'
  BY Sizes, MonitorSteps, AlertNextInv, IdsNextInv, LanNextInv, ProbeNextInv DEF MonitorInv
<1>2. PingInv' /\ SniffInv' /\ QuotaInv' /\ WindowInv'
  BY Sizes, MonitorSteps, PingNextInv, SniffNextInv, QuotaNextInv, WindowNextInv
  DEF MonitorInv
<1>3. Chosen(Duty)' = Chosen(Duty) /\ Chosen(Use)' = Chosen(Use)
  BY MonitorSteps DEF Chosen
<1>4. ASSUME NEW mix \in Duty, mix = Chosen(Duty) PROVE DutyInv(mix)'
  <2>1. DutiesSized(mix) /\ DutyInv(mix) /\ [D(mix)!Next]_dutyVars
    BY <1>4, Sizes, MonitorSteps DEF MonitorInv
  <2> QED
    BY <2>1, DutyNextInv
<1>5. ASSUME NEW mix \in Use, mix = Chosen(Use) PROVE DeskInv(mix)'
  <2>1. DesktopSized(mix) /\ DeskInv(mix) /\ [K(mix)!Next]_deskVars
    BY <1>5, Sizes, MonitorSteps DEF MonitorInv
  <2> QED
    BY <2>1, DeskNextInv
<1> QED
  BY <1>1, <1>2, <1>3, <1>4, <1>5 DEF MonitorInv

LEMMA MonitorInvSafe == MonitorInv => TypesOK /\ AlertsTold /\ DutiesDone /\ MeasuresTrue
<1> SUFFICES ASSUME MonitorInv PROVE TypesOK /\ AlertsTold /\ DutiesDone /\ MeasuresTrue
  OBVIOUS
<1>1. A!TypeOK /\ A!AlertsTold /\ I!TypeOK /\ I!IdsTells
  BY Sizes, AlertSound, IdsSound DEF MonitorInv
<1>2. L!TypeOK /\ L!LanTold /\ Q!TypeOK /\ Q!QuotaTold
  BY Sizes, LanSound, QuotaSound DEF MonitorInv
<1>3. M!TypeOK /\ M!ProbesAlone /\ P!TypeOK /\ P!SamplesKept
  BY Sizes, ProbeSound, PingSound DEF MonitorInv
<1>4. S!TypeOK /\ S!BytesCounted /\ N!TypeOK /\ N!WindowsSound
  BY Sizes, SniffSound, WindowSound DEF MonitorInv
<1>5. ASSUME NEW mix \in Duty, mix = Chosen(Duty) PROVE D(mix)!TypeOK /\ D(mix)!DutiesDone
  <2>1. DutiesSized(mix) /\ DutyInv(mix)
    BY <1>5, Sizes DEF MonitorInv
  <2> QED
    BY <2>1, DutySound
<1>6. ASSUME NEW mix \in Use, mix = Chosen(Use) PROVE K(mix)!TypeOK /\ K(mix)!DesktopSound
  <2>1. DesktopSized(mix) /\ DeskInv(mix)
    BY <1>6, Sizes DEF MonitorInv
  <2> QED
    BY <2>1, DeskSound
<1> QED
  BY <1>1, <1>2, <1>3, <1>4, <1>5, <1>6
  DEF TypesOK, AlertsTold, DutiesDone, MeasuresTrue, DesktopTrue

\* The variables of every part keep their types, with any number of threads,
\* addresses, alerts, samples, works, windows and trainings: the list of events is
\* never longer than it may be (services.py), no address is kept beyond the limit
\* (core/sniffer.py), no badge counts more alerts than there are.
THEOREM TypesHold == MonitorSpec => []TypesOK
<1>1. MonitorInv => TypesOK
  BY MonitorInvSafe
<1> QED
  BY <1>1, MonitorInitInv, MonitorNextInv, PTL DEF MonitorSpec

\* However threads that report alerts, requests that read and acknowledge them and
\* the escalation interleave, an alert is repeated as rarely as its limit says as
\* long as no two threads report it at once, and told again only when nobody has
\* read it for the timeout (services.py:1306, 1517); a scan of ports stands for as
\* many new endpoints as the threshold says; a device of the local network is told
\* of once, and one that is known or in the table has been told of unless the
\* database failed; a quota is told of only when the bytes are there.
THEOREM AlertsAreTold == MonitorSpec => []AlertsTold
<1>1. MonitorInv => AlertsTold
  BY MonitorInvSafe
<1> QED
  BY <1>1, MonitorInitInv, MonitorNextInv, PTL DEF MonitorSpec

\* Of any number of works, backups and checks, what is overdue or stale is noted
\* and only that, once a day, whatever the threads that look do at the same time
\* (planner.py:46, backupwatch.py:56); the result of a check is that of its last
\* run unless two threads ran checks at once (customchecks.py:66).
THEOREM DutiesAreDone == MonitorSpec => []DutiesDone
<1>1. MonitorInv => DutiesDone
  BY MonitorInvSafe
<1> QED
  BY <1>1, MonitorInitInv, MonitorNextInv, PTL DEF MonitorSpec

\* One thread probes one target as long as no two requests overlap
\* (services.py:260).  Every sample of the pings is in the buffer, in a write under
\* way, in the database once, or was refused or overtaken by a clear
\* (core/pinger.py:259); every byte counted is in a row, in the difference under way
\* or was refused (core/sniffer.py:217); a window has one worker and shows what the
\* scan found (trace_window.py:142, security_window.py); an analysis works with one
\* model (traffic_agent.py:104), and the shutdown closes the database after the
\* buffers are written (graceful_shutdown.py:46).
THEOREM MeasuresAreTrue == MonitorSpec => []MeasuresTrue
<1>1. MonitorInv => MeasuresTrue
  BY MonitorInvSafe
<1> QED
  BY <1>1, MonitorInitInv, MonitorNextInv, PTL DEF MonitorSpec

=============================================================================
