------------------------ MODULE NotificationsProofs ------------------------
(* Machine-checked proofs for Notifications, for any number of callers,     *)
(* workers, permits, attempts and channels: types, the conservation of the  *)
(* semaphore's permits on every path, exceptions included, and what the     *)
(* rows tell of the deliveries, over stops and restarts.                    *)
EXTENDS Notifications, FiniteSetTheorems, TLAPS

\* Only an attempt that is not the last one pauses.
BackoffBelow == \A w \in Worker : workPc[w] = "backoff" => workAttempt[w] < MaxAttempts

\* Only a caller looking at a channel takes a permit.
ScanBelow == \A c \in Caller : callPc[c] \in {"insert", "submit"} => callCh[c] <= Channels

\* The inductive invariant: slots' \in 0..Slots needs the conservation law,
\* workAttempt' \in 1..MaxAttempts needs BackoffBelow, and
\* callCh' \in 1..(Channels + 1) needs ScanBelow.
IInv == TypeOK /\ BackoffBelow /\ ScanBelow /\ SlotsConserved

\* TypeOK without the range of the semaphore.
Typed ==
    /\ row \in [Id -> {"none", "purged"} \cup InFlight \cup Final]
    /\ attempts \in [Id -> 0..MaxAttempts]
    /\ nextId \in 1..(MaxId + 1)
    /\ slots \in Int
    /\ stopped \in BOOLEAN /\ poolOpen \in BOOLEAN /\ dbOpen \in BOOLEAN
    /\ queue \in Seq(Id)
    /\ callPc \in [Caller -> {"idle", "scan", "insert", "submit"}]
    /\ callCh \in [Caller -> 1..(Channels + 1)]
    /\ callId \in [Caller -> Id]
    /\ workPc \in [Worker -> {"idle", "check", "send", "record", "backoff", "release"}]
    /\ workId \in [Worker -> Id]
    /\ workAttempt \in [Worker -> 1..MaxAttempts]
    /\ accepted \in [Id -> Nat] /\ heard \in [Id -> Nat]
    /\ faults \in 0..MaxFaults

\* Typed in four parts: the rows, the callers, the workers and the rest.
RowsTyped ==
    /\ row \in [Id -> {"none", "purged"} \cup InFlight \cup Final]
    /\ attempts \in [Id -> 0..MaxAttempts]
    /\ nextId \in 1..(MaxId + 1)

CallsTyped ==
    /\ callPc \in [Caller -> {"idle", "scan", "insert", "submit"}]
    /\ callCh \in [Caller -> 1..(Channels + 1)]
    /\ callId \in [Caller -> Id]

WorkTyped ==
    /\ workPc \in [Worker -> {"idle", "check", "send", "record", "backoff", "release"}]
    /\ workId \in [Worker -> Id]
    /\ workAttempt \in [Worker -> 1..MaxAttempts]

RestTyped ==
    /\ slots \in Int
    /\ stopped \in BOOLEAN /\ poolOpen \in BOOLEAN /\ dbOpen \in BOOLEAN
    /\ queue \in Seq(Id)
    /\ accepted \in [Id -> Nat] /\ heard \in [Id -> Nat]
    /\ faults \in 0..MaxFaults

LEMMA TypedPartsAfter ==
    ASSUME RowsTyped', CallsTyped', WorkTyped', RestTyped'
    PROVE  Typed'
  BY DEF Typed, RowsTyped, CallsTyped, WorkTyped, RestTyped

\* The assumptions on the constants, one by one.
LEMMA Constants ==
    /\ Channels \in Nat /\ Slots \in Nat /\ MaxAttempts \in Nat /\ MaxId \in Nat /\ MaxFaults \in Nat
    /\ 1 \in 1..(Channels + 1) /\ 1 \in 1..MaxAttempts /\ 1 \in Id /\ 1 \in 1..(MaxId + 1)
    /\ 0 \in 0..MaxAttempts /\ 0 \in 0..MaxFaults /\ Slots \in 0..Slots
  BY ConstantAssumption DEF Id

\* The holders of permits are finitely many.
LEMMA HoldersFinite ==
    /\ IsFiniteSet(HoldingCallers) /\ Cardinality(HoldingCallers) \in Nat
    /\ IsFiniteSet(BusyWorkers) /\ Cardinality(BusyWorkers) \in Nat
  <1>1. HoldingCallers \subseteq Caller /\ BusyWorkers \subseteq Worker
    BY DEF HoldingCallers, BusyWorkers
  <1>2. IsFiniteSet(HoldingCallers) /\ IsFiniteSet(BusyWorkers)
    BY <1>1, FS_Subset, ConstantAssumption
  <1>3. QED
    BY <1>2, FS_CardinalityType

\* The conservation law bounds the semaphore from above, so the invariant of
\* the next state follows from Typed and a permit count that is not negative.
LEMMA InvAfter ==
    ASSUME Typed', BackoffBelow', ScanBelow', SlotsConserved', slots' >= 0
    PROVE  IInv'
  <1>1. HoldingCallers' \subseteq Caller /\ BusyWorkers' \subseteq Worker
    BY DEF HoldingCallers, BusyWorkers
  <1>2. IsFiniteSet(HoldingCallers') /\ IsFiniteSet(BusyWorkers')
    BY <1>1, FS_Subset, ConstantAssumption
  <1>3. Cardinality(HoldingCallers') \in Nat /\ Cardinality(BusyWorkers') \in Nat
    BY <1>2, FS_CardinalityType
  <1>4. Len(queue') \in Nat
    BY DEF Typed
  <1>5. slots' \in 0..Slots
    <2>1. slots' \in Int /\ slots' >= 0
      BY DEF Typed
    <2>2. slots' + Cardinality(HoldingCallers') + Len(queue') + Cardinality(BusyWorkers') = Slots
      BY DEF SlotsConserved
    <2>3. QED
      BY <1>3, <1>4, <2>1, <2>2, Constants
  <1>6. QED
    BY <1>5 DEF IInv, TypeOK, Typed

\* A caller that changes its program counter enters or leaves the holders.
LEMMA CallerMove ==
    ASSUME Typed, NEW c \in Caller, NEW pc, callPc' = [callPc EXCEPT ![c] = pc]
    PROVE  HoldingCallers' = IF pc \in {"insert", "submit"} THEN HoldingCallers \cup {c}
                             ELSE HoldingCallers \ {c}
  BY DEF Typed, HoldingCallers

\* The same for a worker.
LEMMA WorkerMove ==
    ASSUME Typed, NEW w \in Worker, NEW pc, workPc' = [workPc EXCEPT ![w] = pc]
    PROVE  BusyWorkers' = IF pc = "idle" THEN BusyWorkers \ {w} ELSE BusyWorkers \cup {w}
  BY DEF Typed, BusyWorkers

\* Taking a permit: one free permit less, one holding caller more.
LEMMA CallerAcquires ==
    ASSUME Typed, NEW c \in Caller, callPc[c] = "scan",
           callPc' = [callPc EXCEPT ![c] = "insert"]
    PROVE  Cardinality(HoldingCallers') = Cardinality(HoldingCallers) + 1
  <1>1. HoldingCallers' = HoldingCallers \cup {c} /\ c \notin HoldingCallers
    BY CallerMove DEF HoldingCallers
  <1>2. QED
    BY <1>1, HoldersFinite, FS_AddElement

\* Leaving "insert" or "submit" for a place that holds no permit.
LEMMA CallerLetsGo ==
    ASSUME Typed, NEW c \in Caller, callPc[c] \in {"insert", "submit"},
           NEW pc \in {"idle", "scan"}, callPc' = [callPc EXCEPT ![c] = pc]
    PROVE  Cardinality(HoldingCallers') = Cardinality(HoldingCallers) - 1
  <1>1. HoldingCallers' = HoldingCallers \ {c} /\ c \in HoldingCallers
    BY CallerMove DEF HoldingCallers
  <1>2. QED
    BY <1>1, HoldersFinite, FS_RemoveElement

-----------------------------------------------------------------------------

LEMMA InitInv == Init => IInv
  <1> SUFFICES ASSUME Init PROVE IInv
    OBVIOUS
  <1> USE DEF Init
  <1>1. 1 \in Id
    BY Constants DEF Id
  <1>2. TypeOK
    <2>1. RowsTyped
      BY Constants DEF RowsTyped
    <2>2. CallsTyped
      BY Constants DEF CallsTyped
    <2>3. WorkTyped
      BY Constants DEF WorkTyped
    <2>4. RestTyped /\ slots \in 0..Slots
      <3>1. queue \in Seq(Id)
        OBVIOUS
      <3>2. accepted \in [Id -> Nat] /\ heard \in [Id -> Nat] /\ slots \in 0..Slots /\ slots \in Int /\ faults \in 0..MaxFaults
        BY Constants
      <3>3. stopped \in BOOLEAN /\ poolOpen \in BOOLEAN /\ dbOpen \in BOOLEAN
        OBVIOUS
      <3>4. QED
        BY <3>1, <3>2, <3>3 DEF RestTyped
    <2>5. QED
      BY <2>1, <2>2, <2>3, <2>4 DEF TypeOK, RowsTyped, CallsTyped, WorkTyped, RestTyped
  <1>3. HoldingCallers = {} /\ BusyWorkers = {}
    BY DEF HoldingCallers, BusyWorkers
  <1>4. SlotsConserved
    BY <1>3, FS_EmptySet, Constants DEF SlotsConserved
  <1>5. QED
    BY <1>2, <1>4 DEF IInv, BackoffBelow, ScanBelow

LEMMA TypedFromInv ==
    IInv => Typed /\ BackoffBelow /\ ScanBelow /\ SlotsConserved /\ slots \in 0..Slots
  BY Constants DEF IInv, TypeOK, Typed

\* A statement on the database either counts a fault or does not.
LEMMA DbKeeps ==
    ASSUME Typed, DbRuns \/ DbRaises
    PROVE  faults' \in 0..MaxFaults
  BY Constants DEF Typed, DbRuns, DbRaises

\* Steps of enqueue.
LEMMA CallerKeeps ==
    ASSUME IInv, NEW c \in Caller, CallerStep(c)
    PROVE  IInv'
  <1>0. Typed /\ BackoffBelow /\ ScanBelow /\ SlotsConserved /\ slots \in 0..Slots
    BY TypedFromInv
  <1>n. Len(queue) \in Nat /\ Cardinality(HoldingCallers) \in Nat /\ Cardinality(BusyWorkers) \in Nat
    BY <1>0, HoldersFinite DEF Typed
  <1>w. UNCHANGED workVars => BackoffBelow' /\ BusyWorkers' = BusyWorkers
    BY <1>0 DEF workVars, BackoffBelow, BusyWorkers
  <1>1. CASE Enqueue(c) \/ SkipChannel(c) \/ LeaveEnqueue(c)
    <2>0. CallsTyped' /\ ScanBelow'
      <3>1. CASE Enqueue(c)
        BY <1>0, <3>1, Constants DEF Enqueue, Typed, CallsTyped, ScanBelow
      <3>2. CASE SkipChannel(c)
        BY <1>0, <3>2, Constants DEF SkipChannel, Typed, CallsTyped, ScanBelow
      <3>3. CASE LeaveEnqueue(c)
        BY <1>0, <3>3, Constants DEF LeaveEnqueue, Typed, CallsTyped, ScanBelow
      <3>4. QED
        BY <1>1, <3>1, <3>2, <3>3
    <2>1. Typed' /\ ScanBelow' /\ UNCHANGED <<slots, workVars, queue>>
      BY <1>0, <1>1, <2>0
         DEF Enqueue, SkipChannel, LeaveEnqueue, Typed, CallsTyped, rowVars, process, workVars
    <2>2. HoldingCallers' = HoldingCallers
      BY <1>0, <1>1 DEF Enqueue, SkipChannel, LeaveEnqueue, Typed, HoldingCallers
    <2>3. QED
      BY <1>0, <1>w, <2>1, <2>2, InvAfter DEF SlotsConserved
  <1>2. CASE TakeSlot(c)
    <2>1. Typed' /\ ScanBelow' /\ slots' = slots - 1 /\ UNCHANGED <<workVars, queue>>
      BY <1>0, <1>2, Constants DEF TakeSlot, Typed, ScanBelow, rowVars, process, workVars
    <2>2. Cardinality(HoldingCallers') = Cardinality(HoldingCallers) + 1
      BY <1>0, <1>2, CallerAcquires DEF TakeSlot
    <2>3. SlotsConserved'
      BY <1>0, <1>n, <1>w, <2>1, <2>2 DEF SlotsConserved
    <2>4. slots' >= 0
      BY <1>0, <1>2, <2>1, Constants DEF TakeSlot
    <2>5. QED
      BY <1>w, <2>1, <2>3, <2>4, InvAfter
  <1>3. CASE InsertRow(c)
    <2>1. Typed' /\ ScanBelow' /\ UNCHANGED <<slots, workVars, queue>>
      <3>1. row' \in [Id -> {"none", "purged"} \cup InFlight \cup Final]
        BY <1>0, <1>3 DEF InsertRow, Typed, Purge, InFlight
      <3>2. CallsTyped' /\ ScanBelow'
        BY <1>0, <1>3 DEF InsertRow, Typed, CallsTyped, ScanBelow
      <3>3. nextId' \in 1..(MaxId + 1)
        BY <1>3, Constants DEF InsertRow, Id
      <3>4. QED
        BY <1>0, <1>3, <3>1, <3>2, <3>3, DbKeeps
           DEF InsertRow, Typed, CallsTyped, process, workVars
    <2>2. HoldingCallers' = HoldingCallers
      BY <1>0, <1>3 DEF InsertRow, Typed, HoldingCallers
    <2>3. QED
      BY <1>0, <1>w, <2>1, <2>2, InvAfter DEF SlotsConserved
  <1>4. CASE EnqueueRaises(c)
    <2>0. CallsTyped' /\ ScanBelow'
      BY <1>0, <1>4, Constants DEF EnqueueRaises, Typed, CallsTyped, ScanBelow
    <2>f. faults' \in 0..MaxFaults
      BY <1>0, <1>4, DbKeeps DEF EnqueueRaises, Typed
    <2>1. Typed' /\ ScanBelow' /\ slots' = slots + 1 /\ UNCHANGED <<workVars, queue>>
      BY <1>0, <1>4, <2>0, <2>f
         DEF EnqueueRaises, Typed, CallsTyped, rowVars, process, workVars
    <2>2. Cardinality(HoldingCallers') = Cardinality(HoldingCallers) - 1
      BY <1>0, <1>4, CallerLetsGo DEF EnqueueRaises
    <2>3. SlotsConserved' /\ slots' >= 0
      BY <1>0, <1>n, <1>w, <2>1, <2>2, Constants DEF SlotsConserved
    <2>4. QED
      BY <1>w, <2>1, <2>3, InvAfter
  <1>5. CASE Submit(c)
    <2>1. callId[c] \in Id
      BY <1>0 DEF Typed
    <2>2. queue' \in Seq(Id) /\ Len(queue') = Len(queue) + 1
      BY <1>0, <1>5, <2>1 DEF Submit, Typed
    <2>3. callCh' \in [Caller -> 1..(Channels + 1)]
      BY <1>0, <1>5, Constants DEF Submit, Typed, ScanBelow
    <2>4. Typed' /\ ScanBelow' /\ UNCHANGED <<slots, workVars>>
      BY <1>0, <1>5, <2>2, <2>3 DEF Submit, Typed, ScanBelow, rowVars, process, workVars
    <2>5. Cardinality(HoldingCallers') = Cardinality(HoldingCallers) - 1
      BY <1>0, <1>5, CallerLetsGo DEF Submit
    <2>6. SlotsConserved'
      BY <1>0, <1>n, <1>w, <2>2, <2>4, <2>5 DEF SlotsConserved
    <2>7. QED
      BY <1>0, <1>w, <2>4, <2>6, InvAfter
  <1>6. QED
    BY <1>1, <1>2, <1>3, <1>4, <1>5 DEF CallerStep

\* A step of _deliver that keeps the worker busy and the permits where they are.
LEMMA BusyKeeps ==
    ASSUME IInv, NEW w \in Worker, workPc[w] # "idle",
           NEW pc \in {"check", "send", "record", "backoff", "release"}, Goto(w, pc),
           UNCHANGED <<slots, process, queue, callVars>>,
           Typed', BackoffBelow'
    PROVE  IInv'
  <1>0. Typed /\ ScanBelow /\ SlotsConserved /\ slots \in 0..Slots
    BY TypedFromInv
  <1>1. BusyWorkers' = BusyWorkers
    BY <1>0, WorkerMove DEF Goto, BusyWorkers
  <1>2. HoldingCallers' = HoldingCallers /\ ScanBelow'
    BY <1>0 DEF callVars, HoldingCallers, ScanBelow
  <1>3. QED
    BY <1>0, <1>1, <1>2, InvAfter DEF SlotsConserved

\* _status keeps the row and its counter in their domains.
LEMMA SetRowKeeps ==
    ASSUME Typed, NEW i \in Id, NEW s \in {"sending"} \cup Final, NEW n \in 0..MaxAttempts,
           SetRow(i, s, n)
    PROVE  /\ row' \in [Id -> {"none", "purged"} \cup InFlight \cup Final]
           /\ attempts' \in [Id -> 0..MaxAttempts]
           /\ UNCHANGED nextId
  BY DEF SetRow, Typed, InFlight

LEMMA SetRowTyped ==
    ASSUME Typed, NEW w \in Worker, NEW s \in {"sending"} \cup Final,
           NEW n \in {workAttempt[w], workAttempt[w] - 1}, SetRow(workId[w], s, n)
    PROVE  RowsTyped'
  <1>1. workId[w] \in Id /\ n \in 0..MaxAttempts
    BY Constants DEF Typed
  <1>2. QED
    BY <1>1, SetRowKeeps DEF RowsTyped, Typed

LEMMA RowsUnchangedTyped == Typed /\ UNCHANGED rowVars => RowsTyped'
  BY DEF Typed, RowsTyped, rowVars

\* The handler of a failed attempt.
LEMMA AttemptFailedKeeps ==
    ASSUME IInv, NEW w \in Worker, workPc[w] \in {"send", "record"}, AttemptFailed(w),
           UNCHANGED <<workId, workAttempt, slots, process, queue, callVars, heard>>,
           accepted' \in [Id -> Nat], faults' \in 0..MaxFaults
    PROVE  IInv'
  <1>0. Typed /\ BackoffBelow
    BY TypedFromInv
  <1>1. RowsTyped'
    BY <1>0, SetRowTyped, RowsUnchangedTyped DEF AttemptFailed, Final
  <1>2. PICK pc \in {"backoff", "release"} : Goto(w, pc) /\ (pc = "backoff" => workAttempt[w] < MaxAttempts)
    BY DEF AttemptFailed
  <1>3. Typed'
    BY <1>0, <1>1, <1>2 DEF Typed, RowsTyped, Goto, process, callVars
  <1>4. BackoffBelow'
    BY <1>0, <1>2 DEF Typed, BackoffBelow, Goto
  <1>5. QED
    BY <1>2, <1>3, <1>4, BusyKeeps

\* Steps of _deliver.
LEMMA WorkerKeeps ==
    ASSUME IInv, NEW w \in Worker, WorkerStep(w)
    PROVE  IInv'
  <1>0. Typed /\ BackoffBelow /\ ScanBelow /\ SlotsConserved /\ slots \in 0..Slots
    BY TypedFromInv
  <1>n. Len(queue) \in Nat /\ Cardinality(HoldingCallers) \in Nat /\ Cardinality(BusyWorkers) \in Nat
    BY <1>0, HoldersFinite DEF Typed
  <1>c. UNCHANGED callVars => HoldingCallers' = HoldingCallers /\ ScanBelow'
    BY <1>0 DEF callVars, HoldingCallers, ScanBelow
  <1>1. CASE Take(w)
    <2>1. Head(queue) \in Id /\ Tail(queue) \in Seq(Id) /\ Len(Tail(queue)) = Len(queue) - 1
      BY <1>0, <1>1 DEF Take, Typed
    <2>2. Typed' /\ BackoffBelow'
      BY <1>0, <1>1, <2>1, Constants
         DEF Take, Goto, Typed, BackoffBelow, rowVars, process, callVars
    <2>3. BusyWorkers' = BusyWorkers \cup {w} /\ w \notin BusyWorkers
      <3>1. BusyWorkers' = IF "check" = "idle" THEN BusyWorkers \ {w} ELSE BusyWorkers \cup {w}
        BY <1>0, <1>1, WorkerMove DEF Take, Goto
      <3>2. QED
        BY <1>1, <3>1 DEF Take, BusyWorkers
    <2>4. Cardinality(BusyWorkers') = Cardinality(BusyWorkers) + 1
      BY <2>3, HoldersFinite, FS_AddElement
    <2>5. SlotsConserved' /\ slots' >= 0
      BY <1>0, <1>1, <1>n, <1>c, <2>1, <2>4, Constants DEF Take, SlotsConserved
    <2>6. QED
      BY <1>1, <1>c, <2>2, <2>5, InvAfter DEF Take
  <1>2. CASE BeginAttempt(w)
    <2>1. RowsTyped'
      BY <1>0, <1>2, SetRowTyped, RowsUnchangedTyped DEF BeginAttempt, Final
    <2>2. PICK pc \in {"send", "release"} : Goto(w, pc)
      BY <1>2 DEF BeginAttempt
    <2>3. faults' \in 0..MaxFaults
      BY <1>0, <1>2, DbKeeps DEF BeginAttempt
    <2>4. Typed' /\ BackoffBelow'
      BY <1>0, <1>2, <2>1, <2>2, <2>3
         DEF BeginAttempt, Typed, RowsTyped, BackoffBelow, Goto, process, callVars
    <2>5. QED
      BY <1>2, <2>2, <2>4, BusyKeeps DEF BeginAttempt
  <1>3. CASE SendAccepted(w)
    <2>1. Typed' /\ BackoffBelow'
      BY <1>0, <1>3 DEF SendAccepted, Typed, BackoffBelow, Goto, rowVars, process, callVars
    <2>2. QED
      BY <1>3, <2>1, BusyKeeps DEF SendAccepted
  <1>4. CASE SendFails(w)
    <2>1. accepted' \in [Id -> Nat]
      <3>1. workId[w] \in Id /\ accepted \in [Id -> Nat]
        BY <1>0 DEF Typed
      <3>2. [accepted EXCEPT ![workId[w]] = @ + 1] \in [Id -> Nat]
        BY <3>1
      <3>3. QED
        BY <1>4, <3>1, <3>2 DEF SendFails
    <2>2. QED
      BY <1>0, <1>4, <2>1, AttemptFailedKeeps DEF SendFails, Typed
  <1>5. CASE RecordSentRaises(w)
    BY <1>0, <1>5, AttemptFailedKeeps, DbKeeps DEF RecordSentRaises, Typed
  <1>6. CASE RecordSent(w)
    <2>1. RowsTyped'
      BY <1>0, <1>6, SetRowTyped DEF RecordSent, Final
    <2>2. Typed' /\ BackoffBelow'
      BY <1>0, <1>6, <2>1, DbKeeps
         DEF RecordSent, Typed, RowsTyped, BackoffBelow, Goto, process, callVars
    <2>3. QED
      BY <1>6, <2>2, BusyKeeps DEF RecordSent
  <1>7. CASE Backoff(w)
    <2>1. workAttempt' \in [Worker -> 1..MaxAttempts]
      BY <1>0, <1>7, Constants DEF Backoff, Typed, BackoffBelow
    <2>2. Typed' /\ BackoffBelow'
      BY <1>0, <1>7, <2>1 DEF Backoff, Typed, BackoffBelow, Goto, rowVars, process, callVars
    <2>3. QED
      BY <1>7, <2>2, BusyKeeps DEF Backoff
  <1>8. CASE Release(w)
    <2>0. WorkTyped' /\ BackoffBelow'
      BY <1>0, <1>8, Constants DEF Release, Typed, WorkTyped, BackoffBelow
    <2>1. Typed' /\ BackoffBelow'
      BY <1>0, <1>8, <2>0 DEF Release, Typed, WorkTyped, rowVars, process, callVars
    <2>2. BusyWorkers' = BusyWorkers \ {w} /\ w \in BusyWorkers
      BY <1>0, <1>8, WorkerMove DEF Release, BusyWorkers
    <2>3. Cardinality(BusyWorkers') = Cardinality(BusyWorkers) - 1
      BY <2>2, HoldersFinite, FS_RemoveElement
    <2>4. SlotsConserved' /\ slots' >= 0
      BY <1>0, <1>8, <1>n, <1>c, <2>3, Constants DEF Release, SlotsConserved
    <2>5. QED
      BY <1>8, <1>c, <2>1, <2>4, InvAfter DEF Release
  <1>9. QED
    BY <1>1, <1>2, <1>3, <1>4, <1>5, <1>6, <1>7, <1>8 DEF WorkerStep

\* A restart gives every permit back.
LEMMA RestartKeeps ==
    ASSUME IInv, Restart
    PROVE  IInv'
  <1>0. Typed
    BY TypedFromInv
  <1>1. row' \in [Id -> {"none", "purged"} \cup InFlight \cup Final]
    BY <1>0 DEF Restart, AfterRestart, Typed, InFlight, Final
  <1>3. Typed' /\ BackoffBelow' /\ ScanBelow'
    <2>1. RowsTyped'
      BY <1>0, <1>1 DEF Restart, Typed, RowsTyped
    <2>2. CallsTyped' /\ ScanBelow'
      BY Constants DEF Restart, CallsTyped, ScanBelow
    <2>3. WorkTyped' /\ BackoffBelow'
      BY Constants DEF Restart, WorkTyped, BackoffBelow
    <2>4. RestTyped'
      <3>1. queue' \in Seq(Id)
        BY DEF Restart
      <3>2. accepted' \in [Id -> Nat] /\ heard' \in [Id -> Nat] /\ slots' \in Int /\ faults' \in 0..MaxFaults
        BY <1>0, Constants DEF Restart, Typed
      <3>3. stopped' \in BOOLEAN /\ poolOpen' \in BOOLEAN /\ dbOpen' \in BOOLEAN
        BY DEF Restart
      <3>4. QED
        BY <3>1, <3>2, <3>3 DEF RestTyped
    <2>5. QED
      BY <2>1, <2>2, <2>3, <2>4, TypedPartsAfter
  <1>4. HoldingCallers' = {} /\ BusyWorkers' = {}
    BY DEF Restart, HoldingCallers, BusyWorkers
  <1>5. SlotsConserved' /\ slots' >= 0
    BY <1>4, FS_EmptySet, Constants DEF Restart, SlotsConserved
  <1>6. QED
    BY <1>3, <1>5, InvAfter

LEMMA NextKeeps == IInv /\ [Next]_vars => IInv'
  <1> SUFFICES ASSUME IInv, [Next]_vars PROVE IInv'
    OBVIOUS
  <1>0. Typed /\ BackoffBelow /\ ScanBelow /\ SlotsConserved /\ slots \in 0..Slots
    BY TypedFromInv
  <1>1. ASSUME NEW c \in Caller, CallerStep(c) PROVE IInv'
    BY <1>1, CallerKeeps
  <1>2. ASSUME NEW w \in Worker, WorkerStep(w) PROVE IInv'
    BY <1>2, WorkerKeeps
  <1>3. CASE Restart
    BY <1>3, RestartKeeps
  <1>4. CASE StopEvent \/ PoolShutdown \/ CloseDb \/ UNCHANGED vars
    <2>1. UNCHANGED <<rowVars, slots, queue, callVars, workVars, accepted, heard, faults>>
          /\ stopped' \in BOOLEAN /\ poolOpen' \in BOOLEAN /\ dbOpen' \in BOOLEAN
      BY <1>0, <1>4 DEF StopEvent, PoolShutdown, CloseDb, vars, process, Typed
    <2>2. Typed' /\ BackoffBelow' /\ ScanBelow'
      BY <1>0, <2>1 DEF Typed, BackoffBelow, ScanBelow, rowVars, callVars, workVars
    <2>3. SlotsConserved' /\ slots' >= 0
      BY <1>0, <2>1, Constants
         DEF SlotsConserved, HoldingCallers, BusyWorkers, callVars, workVars
    <2>4. QED
      BY <2>2, <2>3, InvAfter
  <1>5. QED
    BY <1>1, <1>2, <1>3, <1>4 DEF Next

\* Every variable stays in its domain; in particular the semaphore never
\* exceeds its initial value (enqueue, _deliver).
THEOREM TypeCorrect == Spec => []TypeOK
  <1>1. IInv => TypeOK
    BY DEF IInv
  <1>2. QED
    BY <1>1, InitInv, NextKeeps, PTL DEF Spec

\* No permit is lost or duplicated, whatever raises, stops or crashes.
THEOREM PermitsConserved == Spec => []SlotsConserved
  <1>1. IInv => SlotsConserved
    BY DEF IInv
  <1>2. QED
    BY <1>1, InitInv, NextKeeps, PTL DEF Spec

-----------------------------------------------------------------------------
(* The history: who answers for which row, and what the rows then are.     *)

Submitting(i) == \E c \in Caller : callPc[c] = "submit" /\ callId[c] = i
Queued(i) == \E n \in 1..Len(queue) : queue[n] = i
Working(i) == \E w \in Worker : workPc[w] # "idle" /\ workId[w] = i

\* A row is with one caller, one place of the queue or one worker.
OneOwner ==
    /\ \A c, d \in Caller : callPc[c] = "submit" /\ callPc[d] = "submit" /\ callId[c] = callId[d] => c = d
    /\ \A m, n \in 1..Len(queue) : queue[m] = queue[n] => m = n
    /\ \A v, w \in Worker : workPc[v] # "idle" /\ workPc[w] # "idle" /\ workId[v] = workId[w] => v = w
    /\ \A i \in Id : ~(Submitting(i) /\ Queued(i)) /\ ~(Submitting(i) /\ Working(i)) /\ ~(Queued(i) /\ Working(i))

\* Rows not inserted yet are with nobody and nobody was told of them.
Fresh ==
    \A i \in Id : i >= nextId =>
        row[i] = "none" /\ heard[i] = 0 /\ ~Submitting(i) /\ ~Queued(i) /\ ~Working(i)

\* What waits for a worker is untouched.
WaitingRows == \A i \in Id : Submitting(i) \/ Queued(i) => row[i] = "queued" /\ heard[i] = 0

\* What a worker knows of its row by the place where it stands.
WorkerRow(w) ==
    /\ workPc[w] \in {"check", "backoff"} =>
           row[workId[w]] \in InFlight /\ (heard[workId[w]] = 0 \/ faults > 0 \/ ~dbOpen)
    /\ workPc[w] \in {"send", "record"} => row[workId[w]] = "sending"
    /\ workPc[w] = "send" => heard[workId[w]] = 0 \/ faults > 0
    /\ workPc[w] = "record" => heard[workId[w]] >= 1
    /\ workPc[w] = "release" => row[workId[w]] \notin InFlight \/ faults > 0 \/ ~dbOpen

WorkerRows == \A w \in Worker : WorkerRow(w)

\* An unfinished row is with somebody.
Cared ==
    faults = 0 /\ poolOpen =>
        \A i \in Id : row[i] \in InFlight => Submitting(i) \/ Queued(i) \/ Working(i)

\* stop goes in this order.
StopOrder == (dbOpen \/ ~poolOpen) /\ (poolOpen \/ stopped)

\* An unfinished row, a caller about to insert one and a worker about to leave
\* hold a permit each, until the pool is closed; after that rows stay behind.
Unfinished == {i \in Id : row[i] \in InFlight}
Finished   == {i \in Id : row[i] \in Final}
Inserting  == {c \in Caller : callPc[c] = "insert"}
Releasing  == {w \in Worker : workPc[w] = "release"}

PermitsCover ==
    faults = 0 =>
        /\ Cardinality(Unfinished) + Cardinality(Inserting) <= Slots
        /\ poolOpen => Cardinality(Unfinished) + Cardinality(Inserting) + Cardinality(Releasing) + slots <= Slots
        /\ Cardinality(Unfinished) + Cardinality(Finished) <= Retained + Slots

\* Half of HeardOnce; the other half is what workers know at "send".
OnceHeard == faults = 0 => \A i \in Id : heard[i] <= 1

RowsKnown ==
    /\ OneOwner /\ Fresh /\ WaitingRows /\ WorkerRows
    /\ OnceHeard /\ RowIsTruthful /\ Cared /\ StopOrder

\* The attempts of its row as a worker counts them, and one to spare for the
\* receiver while it sends.
CountWorker(w) ==
    /\ workPc[w] = "check" => attempts[workId[w]] = workAttempt[w] - 1
    /\ workPc[w] \in {"send", "record", "backoff"} => attempts[workId[w]] = workAttempt[w]
    /\ workPc[w] = "send" => accepted[workId[w]] < attempts[workId[w]]

\* No row has been tried before a worker has it.
Counted ==
    /\ TriedAsTold
    /\ \A w \in Worker : CountWorker(w)
    /\ \A i \in Id : i >= nextId \/ Submitting(i) \/ Queued(i) => attempts[i] = 0

HInv == RowsKnown /\ PermitsCover /\ Counted

\* Who answers for a row is the same before and after.
OwnersSame ==
    /\ queue' = queue
    /\ \A c \in Caller : callPc'[c] = "submit" <=> callPc[c] = "submit"
    /\ \A c \in Caller : callPc[c] = "submit" => callId'[c] = callId[c]
    /\ \A w \in Worker : workPc'[w] # "idle" <=> workPc[w] # "idle"
    /\ \A w \in Worker : workPc[w] # "idle" => workId'[w] = workId[w]

LEMMA SameOwners ==
    ASSUME OneOwner, OwnersSame
    PROVE  /\ OneOwner'
           /\ \A i \in Id : /\ Submitting(i)' <=> Submitting(i)
                            /\ Queued(i)' <=> Queued(i)
                            /\ Working(i)' <=> Working(i)
  <1>1. ASSUME NEW i \in Id
        PROVE  /\ Submitting(i)' <=> Submitting(i)
               /\ Queued(i)' <=> Queued(i)
               /\ Working(i)' <=> Working(i)
    BY DEF OwnersSame, Submitting, Queued, Working
  <1>2. \A c, d \in Caller : callPc'[c] = "submit" /\ callPc'[d] = "submit" /\ callId'[c] = callId'[d] => c = d
    BY DEF OneOwner, OwnersSame
  <1>3. \A m, n \in 1..Len(queue') : queue'[m] = queue'[n] => m = n
    BY DEF OneOwner, OwnersSame
  <1>4. \A v, w \in Worker : workPc'[v] # "idle" /\ workPc'[w] # "idle" /\ workId'[v] = workId'[w] => v = w
    BY DEF OneOwner, OwnersSame
  <1>5. \A i \in Id : ~(Submitting(i) /\ Queued(i))' /\ ~(Submitting(i) /\ Working(i))' /\ ~(Queued(i) /\ Working(i))'
    BY <1>1 DEF OneOwner
  <1>6. QED
    BY <1>1, <1>2, <1>3, <1>4, <1>5 DEF OneOwner


\* A fault of the database is not forgotten.
FaultsStay == faults' = faults \/ faults' > 0

\* A step that leaves the rows and their owners alone, while nothing reopens.
LEMMA RowsStay ==
    ASSUME RowsKnown, OwnersSame, UNCHANGED <<row, heard, nextId, workPc, workId>>,
           FaultsStay, StopOrder', dbOpen' => dbOpen, poolOpen' => poolOpen
    PROVE  RowsKnown'
  <1> USE DEF RowsKnown, FaultsStay
  <1>1. /\ OneOwner'
        /\ \A i \in Id : /\ Submitting(i)' <=> Submitting(i)
                         /\ Queued(i)' <=> Queued(i)
                         /\ Working(i)' <=> Working(i)
    BY SameOwners
  <1>2. Fresh' /\ WaitingRows' /\ Cared'
    BY <1>1 DEF Fresh, WaitingRows, Cared
  <1>3. WorkerRows'
    BY DEF WorkerRows, WorkerRow
  <1>4. OnceHeard' /\ RowIsTruthful'
    BY DEF OnceHeard, RowIsTruthful
  <1>5. QED
    BY <1>1, <1>2, <1>3, <1>4

\* What may be true of a row, whoever has it.
RowTruth(i) ==
    /\ faults = 0 => heard[i] <= 1
    /\ row[i] = "sent" => heard[i] >= 1
    /\ row[i] = "failed" /\ faults = 0 => heard[i] = 0

LEMMA TruthOfRows == (\A i \in Id : RowTruth(i)) <=> OnceHeard /\ RowIsTruthful
  BY DEF RowTruth, OnceHeard, RowIsTruthful

\* A worker changes its own row only.
LEMMA WorkerTouches ==
    ASSUME Typed, RowsKnown, NEW w \in Worker, workPc[w] # "idle", OwnersSame,
           UNCHANGED <<nextId, process>>, FaultsStay,
           \A i \in Id : i # workId[w] => row'[i] = row[i] /\ heard'[i] = heard[i],
           \A v \in Worker : v # w => workPc'[v] = workPc[v],
           WorkerRow(w)', RowTruth(workId[w])'
    PROVE  RowsKnown'
  <1> USE DEF RowsKnown, FaultsStay
  <1>1. /\ OneOwner'
        /\ \A i \in Id : /\ Submitting(i)' <=> Submitting(i)
                         /\ Queued(i)' <=> Queued(i)
                         /\ Working(i)' <=> Working(i)
    BY SameOwners
  <1>2. PICK k \in Id : k = workId[w] /\ k = workId'[w]
    BY DEF OwnersSame, Typed
  <1>3. Working(k) /\ ~Submitting(k) /\ ~Queued(k) /\ ~(k >= nextId)
    <2>1. Working(k)
      BY <1>2 DEF Working
    <2>2. QED
      BY <2>1 DEF OneOwner, Fresh
  <1>4. Fresh' /\ WaitingRows'
    BY <1>1, <1>2, <1>3 DEF Fresh, WaitingRows
  <1>5. Cared'
    BY <1>1, <1>2, <1>3 DEF Cared, process
  <1>6. \A i \in Id : RowTruth(i)'
    BY <1>2, TruthOfRows DEF RowTruth
  <1>7. ASSUME NEW v \in Worker, v # w, workPc[v] # "idle" PROVE WorkerRow(v)'
    <2>1. workId[v] \in Id /\ workId[v] # k /\ workId'[v] = workId[v] /\ workPc'[v] = workPc[v]
      BY <1>2, <1>7 DEF OneOwner, OwnersSame, Typed
    <2>2. row'[workId[v]] = row[workId[v]] /\ heard'[workId[v]] = heard[workId[v]]
      BY <1>2, <2>1
    <2>3. WorkerRow(v)
      BY DEF WorkerRows
    <2>4. QED
      BY <2>1, <2>2, <2>3 DEF WorkerRow, process
  <1>8. ASSUME NEW v \in Worker, v # w, workPc[v] = "idle" PROVE WorkerRow(v)'
    BY <1>8 DEF WorkerRow
  <1>9. WorkerRows'
    BY <1>7, <1>8 DEF WorkerRows
  <1>10. StopOrder'
    BY DEF StopOrder, process
  <1>11. OnceHeard' /\ RowIsTruthful'
    BY <1>6 DEF RowTruth, OnceHeard, RowIsTruthful
  <1>12. QED
    BY <1>1, <1>4, <1>5, <1>9, <1>10, <1>11

\* A statement on the database: nothing raises without a fault while it is open.
LEMMA DbSteps ==
    ASSUME Typed
    PROVE  /\ DbRuns => dbOpen /\ faults' = faults
           /\ DbRaises => FaultsStay /\ (dbOpen => faults' > 0)
  BY DEF DbRuns, DbRaises, FaultsStay, Typed

\* A step of a busy worker w that goes to pc.
WorkerGoes(w, pc) ==
    /\ workPc' = [workPc EXCEPT ![w] = pc]
    /\ UNCHANGED <<workId, slots, process, queue, callVars, nextId>>

LEMMA WorkerOwnersSame ==
    ASSUME Typed, NEW w \in Worker, workPc[w] # "idle", NEW pc, pc # "idle", WorkerGoes(w, pc)
    PROVE  /\ OwnersSame /\ workPc'[w] = pc
           /\ UNCHANGED <<nextId, process>>
           /\ \A v \in Worker : v # w => workPc'[v] = workPc[v]
           /\ workId'[w] = workId[w] /\ workId[w] \in Id
  BY DEF WorkerGoes, OwnersSame, Typed, callVars

\* The handler of a failed attempt: what it leaves of the row.
LEMMA FailedAttempt ==
    ASSUME Typed, NEW w \in Worker, AttemptFailed(w),
           UNCHANGED <<workId, workAttempt, slots, process, queue, callVars, heard>>
    PROVE  \/ WorkerGoes(w, "backoff") /\ UNCHANGED row
           \/ WorkerGoes(w, "release") /\ ~dbOpen /\ UNCHANGED row
           \/ WorkerGoes(w, "release") /\ dbOpen /\ row' = [row EXCEPT ![workId[w]] = "failed"]
  BY DEF AttemptFailed, Goto, SetRow, WorkerGoes, rowVars

\* What a worker going to pc leaves: status s of a row accepted a times.
Truthful(pc, s, a) ==
    /\ pc \in {"check", "backoff"} => s \in InFlight /\ (a = 0 \/ faults' > 0 \/ ~dbOpen)
    /\ pc \in {"send", "record"} => s = "sending"
    /\ pc = "send" => a = 0 \/ faults' > 0
    /\ pc = "record" => a >= 1
    /\ pc = "release" => s \notin InFlight \/ faults' > 0 \/ ~dbOpen
    /\ faults' = 0 => a <= 1
    /\ s = "sent" => a >= 1
    /\ s = "failed" /\ faults' = 0 => a = 0

\* One step of delivery leaves a true row behind.
LEMMA StepKnows ==
    ASSUME Typed, RowsKnown, NEW w \in Worker, NEW pc,
           workPc[w] # "idle", pc # "idle", WorkerGoes(w, pc), FaultsStay,
           NEW s, NEW a, Truthful(pc, s, a), NEW i, i = workId[w],
           row' = [row EXCEPT ![i] = s],
           heard' = [heard EXCEPT ![i] = a]
    PROVE  RowsKnown'
  <1>1. /\ OwnersSame /\ workPc'[w] = pc
        /\ UNCHANGED <<nextId, process>>
        /\ \A v \in Worker : v # w => workPc'[v] = workPc[v]
        /\ workId'[w] = workId[w] /\ workId[w] \in Id
    BY WorkerOwnersSame
  <1>2. /\ row'[workId[w]] = s /\ heard'[workId[w]] = a
        /\ \A j \in Id : j # workId[w] => row'[j] = row[j] /\ heard'[j] = heard[j]
    BY <1>1 DEF Typed
  <1>3. WorkerRow(w)' /\ RowTruth(workId[w])'
    BY <1>1, <1>2 DEF WorkerRow, RowTruth, Truthful, process
  <1>4. QED
    BY <1>1, <1>2, <1>3, WorkerTouches

\* A failed attempt, seen from the place where it fails.
LEMMA FailureKnows ==
    ASSUME Typed, RowsKnown, NEW w \in Worker, workPc[w] \in {"send", "record"}, AttemptFailed(w),
           UNCHANGED <<workId, workAttempt, slots, process, queue, callVars, heard>>, FaultsStay,
           heard[workId[w]] = 0 \/ faults' > 0 \/ ~dbOpen
    PROVE  RowsKnown'
  <1> DEFINE i == workId[w]
             a == heard[i]
  <1>1. /\ i \in Id /\ row = [row EXCEPT ![i] = row[i]]
        /\ heard' = [heard EXCEPT ![i] = a]
    BY DEF Typed
  <1>2. WorkerRow(w) /\ RowTruth(i)
    BY <1>1 DEF RowsKnown, WorkerRows, RowTruth, OnceHeard, RowIsTruthful
  <1>3. /\ row[i] = "sending" /\ (faults' = 0 => a <= 1)
        /\ a = 0 \/ faults' > 0 \/ ~dbOpen
    BY <1>2 DEF WorkerRow, RowTruth, FaultsStay, Typed
  <1> HIDE DEF i, a
  <1>4. CASE WorkerGoes(w, "backoff") /\ UNCHANGED row
    <2>1. row' = [row EXCEPT ![i] = "sending"] /\ Truthful("backoff", "sending", a)
      BY <1>1, <1>3, <1>4 DEF InFlight, Truthful
    <2>2. /\ WorkerGoes(w, "backoff") /\ workPc[w] # "idle"
          /\ heard' = [heard EXCEPT ![i] = a]
      BY <1>1, <1>4
    <2>3. QED
      BY <2>1, <2>2, StepKnows DEF i
  <1>5. CASE WorkerGoes(w, "release") /\ ~dbOpen /\ UNCHANGED row
    <2>1. row' = [row EXCEPT ![i] = "sending"] /\ Truthful("release", "sending", a)
      BY <1>1, <1>3, <1>5 DEF Truthful
    <2>2. /\ WorkerGoes(w, "release") /\ workPc[w] # "idle"
          /\ heard' = [heard EXCEPT ![i] = a]
      BY <1>1, <1>5
    <2>3. QED
      BY <2>1, <2>2, StepKnows DEF i
  <1>6. CASE WorkerGoes(w, "release") /\ dbOpen /\ row' = [row EXCEPT ![i] = "failed"]
    <2>1. Truthful("release", "failed", a)
      BY <1>3, <1>6 DEF InFlight, Truthful
    <2>2. QED
      BY <1>1, <1>6, <2>1, StepKnows DEF i
  <1>7. QED
    BY <1>4, <1>5, <1>6, FailedAttempt DEF i

\* The steps of a delivery between Take and Release.
LEMMA DeliveryKnows ==
    ASSUME Typed, RowsKnown, NEW w \in Worker,
           \/ BeginAttempt(w) \/ SendAccepted(w) \/ SendFails(w)
           \/ RecordSent(w) \/ RecordSentRaises(w) \/ Backoff(w)
    PROVE  RowsKnown'
  <1> DEFINE i == workId[w]
             a == heard[i]
  <1>1. /\ i \in Id /\ a \in Nat /\ row = [row EXCEPT ![i] = row[i]]
        /\ heard = [heard EXCEPT ![i] = a]
    BY DEF Typed
  <1>2. WorkerRow(w) /\ RowTruth(i) /\ StopOrder
    BY <1>1 DEF RowsKnown, WorkerRows, RowTruth, OnceHeard, RowIsTruthful
  <1>f. faults \in Nat
    BY Constants DEF Typed
  <1>3. CASE BeginAttempt(w)
    <2>1. workPc[w] = "check" /\ row[i] \in InFlight /\ (a = 0 \/ faults > 0 \/ ~dbOpen)
      BY <1>2, <1>3 DEF BeginAttempt, WorkerRow
    <2>2. CASE stopped /\ DbRuns /\ SetRow(i, "interrupted", workAttempt[w] - 1) /\ Goto(w, "release")
      <3>1. WorkerGoes(w, "release") /\ row' = [row EXCEPT ![i] = "interrupted"]
        BY <1>3, <2>2 DEF BeginAttempt, SetRow, Goto, WorkerGoes
      <3>2. heard' = [heard EXCEPT ![i] = a] /\ FaultsStay /\ (faults' = 0 => a <= 1)
        BY <1>1, <1>2, <1>3, <2>2, DbSteps DEF BeginAttempt, FaultsStay, RowTruth
      <3> HIDE DEF i, a
      <3>3. Truthful("release", "interrupted", a)
        BY <3>2 DEF InFlight, Truthful
      <3>4. QED
        BY <2>1, <3>1, <3>2, <3>3, StepKnows DEF i
    <2>3. CASE ~stopped /\ DbRuns /\ SetRow(i, "sending", workAttempt[w]) /\ Goto(w, "send")
      <3>1. WorkerGoes(w, "send") /\ row' = [row EXCEPT ![i] = "sending"]
        BY <1>3, <2>3 DEF BeginAttempt, SetRow, Goto, WorkerGoes
      <3>2. /\ heard' = [heard EXCEPT ![i] = a] /\ FaultsStay /\ (faults' = 0 => a <= 1)
            /\ a = 0 \/ faults' > 0
        BY <1>1, <1>2, <1>3, <2>1, <2>3, DbSteps DEF BeginAttempt, FaultsStay, RowTruth
      <3> HIDE DEF i, a
      <3>3. Truthful("send", "sending", a)
        BY <3>2 DEF Truthful
      <3>4. QED
        BY <2>1, <3>1, <3>2, <3>3, StepKnows DEF i
    <2>4. CASE DbRaises /\ Goto(w, "release") /\ UNCHANGED rowVars
      <3>1. WorkerGoes(w, "release") /\ row' = [row EXCEPT ![i] = row[i]]
        BY <1>1, <1>3, <2>4 DEF BeginAttempt, Goto, WorkerGoes, rowVars
      <3>2. /\ heard' = [heard EXCEPT ![i] = a] /\ FaultsStay /\ (faults' = 0 => a <= 1)
            /\ faults' > 0 \/ ~dbOpen
        BY <1>1, <1>2, <1>3, <1>f, <2>4, DbSteps DEF BeginAttempt, FaultsStay, RowTruth
      <3>3. row[i] # "sent" /\ row[i] # "failed"
        BY <2>1 DEF InFlight
      <3> HIDE DEF i, a
      <3>4. Truthful("release", row[i], a)
        BY <3>2, <3>3 DEF Truthful
      <3>5. QED
        BY <2>1, <3>1, <3>2, <3>4, StepKnows DEF i
    <2>5. QED
      BY <1>3, <2>2, <2>3, <2>4 DEF BeginAttempt
  <1>4. CASE SendAccepted(w)
    <2>1. workPc[w] = "send" /\ row[i] = "sending" /\ (a = 0 \/ faults > 0)
      BY <1>2, <1>4 DEF SendAccepted, WorkerRow
    <2>2. WorkerGoes(w, "record") /\ row' = [row EXCEPT ![i] = "sending"]
      BY <1>1, <1>4, <2>1 DEF SendAccepted, Goto, WorkerGoes, rowVars
    <2>3. /\ heard' = [heard EXCEPT ![i] = a + 1] /\ FaultsStay
          /\ faults' = 0 => a + 1 <= 1
          /\ a + 1 >= 1
      BY <1>1, <1>f, <1>4, <2>1 DEF SendAccepted, FaultsStay
    <2> HIDE DEF i, a
    <2>4. Truthful("record", "sending", a + 1)
      BY <2>3 DEF Truthful
    <2>5. QED
      BY <2>1, <2>2, <2>3, <2>4, StepKnows DEF i
  <1>5. CASE SendFails(w)
    <2>1. workPc[w] = "send" /\ (a = 0 \/ faults > 0) /\ faults' = faults
      BY <1>2, <1>5 DEF SendFails, WorkerRow
    <2>2. QED
      BY <1>5, <2>1, FailureKnows DEF SendFails, FaultsStay
  <1>6. CASE RecordSentRaises(w)
    <2>1. FaultsStay /\ (faults' > 0 \/ ~dbOpen)
      BY <1>6, DbSteps DEF RecordSentRaises
    <2>2. QED
      BY <1>6, <2>1, FailureKnows DEF RecordSentRaises
  <1>7. CASE RecordSent(w)
    <2>1. workPc[w] = "record" /\ a >= 1
      BY <1>2, <1>7 DEF RecordSent, WorkerRow
    <2>2. WorkerGoes(w, "release") /\ row' = [row EXCEPT ![i] = "sent"]
      BY <1>7 DEF RecordSent, SetRow, Goto, WorkerGoes
    <2>3. heard' = [heard EXCEPT ![i] = a] /\ FaultsStay /\ (faults' = 0 => a <= 1)
      BY <1>1, <1>2, <1>7, DbSteps DEF RecordSent, FaultsStay, RowTruth
    <2> HIDE DEF i, a
    <2>4. Truthful("release", "sent", a)
      BY <2>1, <2>3 DEF InFlight, Truthful
    <2>5. QED
      BY <2>1, <2>2, <2>3, <2>4, StepKnows DEF i
  <1>8. CASE Backoff(w)
    <2>1. workPc[w] = "backoff" /\ row[i] \in InFlight /\ (a = 0 \/ faults > 0 \/ ~dbOpen)
      BY <1>2, <1>8 DEF Backoff, WorkerRow
    <2>2. WorkerGoes(w, "check") /\ row' = [row EXCEPT ![i] = row[i]]
      BY <1>1, <1>8 DEF Backoff, Goto, WorkerGoes, rowVars
    <2>3. /\ heard' = [heard EXCEPT ![i] = a] /\ FaultsStay
          /\ faults' = 0 => a <= 1
          /\ a = 0 \/ faults' > 0 \/ ~dbOpen
      BY <1>1, <1>2, <1>8, <2>1 DEF Backoff, FaultsStay, RowTruth
    <2>4. row[i] # "sent" /\ row[i] # "failed"
      BY <2>1 DEF InFlight
    <2> HIDE DEF i, a
    <2>5. Truthful("check", row[i], a)
      BY <2>1, <2>3, <2>4 DEF Truthful
    <2>6. QED
      BY <2>1, <2>2, <2>3, <2>5, StepKnows DEF i
  <1>9. QED
    BY <1>3, <1>4, <1>5, <1>6, <1>7, <1>8

\* The steps that leave every row with whom it is.
LEMMA QuietKnows ==
    ASSUME Typed, RowsKnown,
           \/ \E c \in Caller : Enqueue(c) \/ SkipChannel(c) \/ LeaveEnqueue(c) \/ TakeSlot(c)
           \/ StopEvent \/ PoolShutdown \/ CloseDb \/ UNCHANGED vars
    PROVE  RowsKnown'
  <1>1. ASSUME NEW c \in Caller, Enqueue(c) \/ SkipChannel(c) \/ LeaveEnqueue(c) \/ TakeSlot(c)
        PROVE  RowsKnown'
    <2>1. /\ queue' = queue /\ callId' = callId /\ UNCHANGED workVars
          /\ UNCHANGED <<row, heard, nextId, process, faults>>
      BY <1>1 DEF Enqueue, SkipChannel, LeaveEnqueue, TakeSlot, rowVars
    <2>2. \A d \in Caller : callPc'[d] = "submit" <=> callPc[d] = "submit"
      BY <1>1 DEF Enqueue, SkipChannel, LeaveEnqueue, TakeSlot, Typed
    <2>3. OwnersSame
      BY <2>1, <2>2 DEF OwnersSame, workVars
    <2>4. FaultsStay /\ StopOrder' /\ (dbOpen' => dbOpen) /\ (poolOpen' => poolOpen)
      BY <2>1 DEF FaultsStay, RowsKnown, StopOrder, process
    <2>5. UNCHANGED <<row, heard, nextId, workPc, workId>>
      BY <2>1 DEF workVars
    <2>6. QED
      BY <2>3, <2>4, <2>5, RowsStay
  <1>2. CASE StopEvent \/ PoolShutdown \/ CloseDb \/ UNCHANGED vars
    <2>1. UNCHANGED <<row, heard, nextId, queue, callPc, callId, workPc, workId, faults>>
      BY <1>2 DEF StopEvent, PoolShutdown, CloseDb, vars, rowVars, callVars, workVars
    <2>2. OwnersSame /\ FaultsStay
      BY <2>1 DEF OwnersSame, FaultsStay
    <2>3. StopOrder' /\ (dbOpen' => dbOpen) /\ (poolOpen' => poolOpen)
      BY <1>2 DEF StopEvent, PoolShutdown, CloseDb, vars, process, RowsKnown, StopOrder
    <2>4. QED
      BY <2>1, <2>2, <2>3, RowsStay
  <1>3. QED
    BY <1>1, <1>2

\* The DELETE, row by row.
LEMMA PurgedRow ==
    ASSUME NEW r, NEW i \in Id
    PROVE  Purge(r)[i] = IF r[i] \in Final
                            /\ Cardinality({j \in {l \in Id : r[l] \in Final} : j > i}) >= Retained
                         THEN "purged" ELSE r[i]
  BY DEF Purge

\* What a row is after the INSERT and the DELETE.
LEMMA InsertedRows ==
    ASSUME Typed, RowsKnown, nextId \in Id, row' = Purge([row EXCEPT ![nextId] = "queued"])
    PROVE  /\ row'[nextId] = "queued" /\ row[nextId] = "none"
           /\ \A i \in Id : i # nextId => row'[i] = row[i] \/ (row[i] \in Final /\ row'[i] = "purged")
  <1> DEFINE r == [row EXCEPT ![nextId] = "queued"]
  <1> HIDE DEF r
  <1>1. \A i \in Id : Purge(r)[i] = r[i] \/ (r[i] \in Final /\ Purge(r)[i] = "purged")
    BY PurgedRow
  <1> USE DEF r
  <1>2. /\ r[nextId] = "queued"
        /\ \A i \in Id : i # nextId => r[i] = row[i]
    BY DEF Typed
  <1>3. row[nextId] = "none"
    BY DEF RowsKnown, Fresh, Id
  <1>4. "queued" \notin Final
    BY DEF Final
  <1> HIDE DEF r
  <1>5. row' = Purge(r)
    BY DEF r
  <1>6. QED
    BY <1>1, <1>2, <1>3, <1>4, <1>5

LEMMA InsertKnows ==
    ASSUME Typed, RowsKnown, NEW c \in Caller, InsertRow(c)
    PROVE  RowsKnown'
  <1> USE DEF RowsKnown
  <1>1. PICK k \in Id : k = nextId
    BY DEF InsertRow
  <1>2. /\ row'[k] = "queued"
        /\ \A i \in Id : i # k => row'[i] = row[i] \/ (row[i] \in Final /\ row'[i] = "purged")
    <2>1. nextId \in Id /\ row' = Purge([row EXCEPT ![nextId] = "queued"])
      BY DEF InsertRow
    <2>2. QED
      BY <1>1, <2>1, InsertedRows
  <1>3. heard' = heard /\ nextId' = k + 1 /\ queue' = queue /\ UNCHANGED process
        /\ workPc' = workPc /\ workId' = workId
        /\ callPc' = [callPc EXCEPT ![c] = "submit"] /\ callId' = [callId EXCEPT ![c] = k]
        /\ callPc[c] = "insert" /\ dbOpen /\ faults' = faults
    BY <1>1, DbSteps DEF InsertRow, workVars
  <1>4. row[k] = "none" /\ heard[k] = 0 /\ ~Submitting(k) /\ ~Queued(k) /\ ~Working(k)
    BY <1>1 DEF Fresh, Id
  <1>5. ASSUME NEW i \in Id
        PROVE  /\ Submitting(i)' <=> Submitting(i) \/ i = k
               /\ Queued(i)' <=> Queued(i)
               /\ Working(i)' <=> Working(i)
    <2>1. Submitting(i)' => Submitting(i) \/ i = k
      BY <1>3 DEF Submitting, Typed
    <2>2. Submitting(i) => Submitting(i)'
      BY <1>3 DEF Submitting, Typed
    <2>3. callPc'[c] = "submit" /\ callId'[c] = k
      BY <1>3 DEF Typed
    <2>4. i = k => Submitting(i)'
      BY <2>3 DEF Submitting
    <2>5. QED
      BY <1>3, <2>1, <2>2, <2>4 DEF Queued, Working
  <1>6. OneOwner'
    <2>1. \A a, d \in Caller : callPc'[a] = "submit" /\ callPc'[d] = "submit" /\ callId'[a] = callId'[d] => a = d
      <3> SUFFICES ASSUME NEW a \in Caller, NEW d \in Caller, callPc'[a] = "submit",
                          callPc'[d] = "submit", callId'[a] = callId'[d]
                   PROVE  a = d
        OBVIOUS
      <3>1. \A e \in Caller : e # c => callPc'[e] = callPc[e] /\ callId'[e] = callId[e]
        BY <1>3 DEF Typed
      <3>2. callId'[c] = k
        BY <1>3 DEF Typed
      <3>3. \A e \in Caller : e # c /\ callPc[e] = "submit" => callId[e] # k
        BY <1>4 DEF Submitting
      <3>4. QED
        BY <3>1, <3>2, <3>3 DEF OneOwner
    <2>2. QED
      BY <1>3, <1>4, <1>5, <2>1 DEF OneOwner
  <1>7. Fresh'
    BY <1>1, <1>2, <1>3, <1>5 DEF Fresh, Id, Final
  <1>8. WaitingRows'
    BY <1>2, <1>3, <1>4, <1>5 DEF WaitingRows, Final
  <1>9. WorkerRows'
    <2> SUFFICES ASSUME NEW w \in Worker PROVE WorkerRow(w)'
      BY DEF WorkerRows
    <2>1. CASE workPc[w] = "idle"
      BY <1>3, <2>1 DEF WorkerRow
    <2>2. CASE workPc[w] # "idle"
      <3>1. workId[w] \in Id /\ workId[w] # k /\ WorkerRow(w)
        BY <1>4, <2>2 DEF Working, Typed, WorkerRows
      <3>2. row'[workId[w]] = row[workId[w]]
            \/ (row[workId[w]] \in Final /\ row'[workId[w]] = "purged")
        BY <1>2, <3>1 DEF Final, InFlight
      <3>3. QED
        BY <1>3, <3>1, <3>2 DEF WorkerRow, process, Final, InFlight
    <2>3. QED
      BY <2>1, <2>2
  <1>10. OnceHeard' /\ RowIsTruthful'
    BY <1>2, <1>3, <1>4 DEF OnceHeard, RowIsTruthful, Typed
  <1>11. Cared'
    BY <1>2, <1>3, <1>5 DEF Cared, InFlight, process
  <1>12. StopOrder'
    BY <1>3 DEF StopOrder, process
  <1>13. QED
    BY <1>6, <1>7, <1>8, <1>9, <1>10, <1>11, <1>12

\* A failed call: only after the pool is closed it leaves a row behind.
LEMMA RaiseKnows ==
    ASSUME Typed, RowsKnown, NEW c \in Caller, EnqueueRaises(c)
    PROVE  RowsKnown'
  <1> USE DEF RowsKnown
  <1>1. /\ UNCHANGED <<row, heard, nextId, queue, workPc, workId, callId, process>>
        /\ callPc' = [callPc EXCEPT ![c] = "idle"]
    BY DEF EnqueueRaises, rowVars, workVars
  <1>2. FaultsStay
    BY DbSteps DEF EnqueueRaises, FaultsStay
  <1>3. CASE callPc[c] = "insert"
    <2>1. OwnersSame
      BY <1>1, <1>3 DEF OwnersSame, Typed
    <2>2. StopOrder' /\ (dbOpen' => dbOpen) /\ (poolOpen' => poolOpen)
      BY <1>1 DEF StopOrder, process
    <2>3. QED
      BY <1>1, <1>2, <2>1, <2>2, RowsStay
  <1>4. CASE callPc[c] = "submit" /\ ~poolOpen
    <2>1. ASSUME NEW i \in Id
          PROVE  /\ Submitting(i)' => Submitting(i)
                 /\ Queued(i)' <=> Queued(i)
                 /\ Working(i)' <=> Working(i)
      BY <1>1 DEF Submitting, Queued, Working, Typed
    <2>2. OneOwner'
      <3>1. \A a, d \in Caller : callPc'[a] = "submit" /\ callPc'[d] = "submit" /\ callId'[a] = callId'[d] => a = d
        BY <1>1 DEF OneOwner, Typed
      <3>2. QED
        BY <1>1, <2>1, <3>1 DEF OneOwner
    <2>3. Fresh' /\ WaitingRows'
      BY <1>1, <2>1 DEF Fresh, WaitingRows
    <2>4. WorkerRows'
      BY <1>1, <1>2 DEF WorkerRows, WorkerRow, FaultsStay, process
    <2>5. OnceHeard' /\ RowIsTruthful'
      BY <1>1, <1>2 DEF OnceHeard, RowIsTruthful, FaultsStay
    <2>6. Cared' /\ StopOrder'
      BY <1>1, <1>4 DEF Cared, StopOrder, process
    <2>7. QED
      BY <2>2, <2>3, <2>4, <2>5, <2>6
  <1>5. QED
    BY <1>3, <1>4 DEF EnqueueRaises

\* submit puts the id where a worker finds it.
LEMMA SubmitKnows ==
    ASSUME Typed, RowsKnown, NEW c \in Caller, Submit(c)
    PROVE  RowsKnown'
  <1> USE DEF RowsKnown
  <1>1. PICK k \in Id : k = callId[c]
    BY DEF Typed
  <1>2. /\ UNCHANGED <<row, heard, nextId, workPc, workId, callId, process, faults>>
        /\ callPc' = [callPc EXCEPT ![c] = "scan"] /\ callPc[c] = "submit"
        /\ queue' = Append(queue, k)
    BY <1>1 DEF Submit, rowVars, workVars
  <1>3. Submitting(k) /\ ~Queued(k) /\ ~Working(k)
    <2>1. Submitting(k)
      BY <1>1, <1>2 DEF Submitting
    <2>2. QED
      BY <2>1 DEF OneOwner
  <1>4. /\ Len(queue) \in Nat /\ Len(queue') = Len(queue) + 1 /\ queue'[Len(queue) + 1] = k
        /\ \A n \in 1..Len(queue) : queue'[n] = queue[n]
    BY <1>2 DEF Typed
  <1>5. ASSUME NEW i \in Id
        PROVE  /\ Submitting(i)' <=> Submitting(i) /\ i # k
               /\ Queued(i)' <=> Queued(i) \/ i = k
               /\ Working(i)' <=> Working(i)
    <2>1. ASSUME Submitting(i)' PROVE Submitting(i) /\ i # k
      <3>1. PICK d \in Caller : callPc'[d] = "submit" /\ callId'[d] = i
        BY <2>1 DEF Submitting
      <3>2. d # c /\ callPc[d] = "submit" /\ callId[d] = i
        BY <1>2, <3>1 DEF Typed
      <3>3. QED
        BY <1>1, <1>2, <3>2 DEF Submitting, OneOwner
    <2>2. Submitting(i) /\ i # k => Submitting(i)'
      BY <1>1, <1>2 DEF Submitting, Typed
    <2>3. Queued(i)' => Queued(i) \/ i = k
      <3>1. \A n \in 1..Len(queue') : n \in 1..Len(queue) \/ n = Len(queue) + 1
        BY <1>4
      <3>2. QED
        BY <1>4, <3>1 DEF Queued
    <2>4. Queued(i) => Queued(i)'
      <3>1. \A n \in 1..Len(queue) : n \in 1..Len(queue')
        BY <1>4
      <3>2. QED
        BY <1>4, <3>1 DEF Queued
    <2>5. Queued(k)'
      <3>1. Len(queue) + 1 \in 1..Len(queue')
        BY <1>4
      <3>2. QED
        BY <1>4, <3>1 DEF Queued
    <2>6. Working(i)' <=> Working(i)
      BY <1>2 DEF Working
    <2>7. QED
      BY <2>1, <2>2, <2>3, <2>4, <2>5, <2>6
  <1>6. OneOwner'
    <2>1. \A a, d \in Caller : callPc'[a] = "submit" /\ callPc'[d] = "submit" /\ callId'[a] = callId'[d] => a = d
      BY <1>2 DEF OneOwner, Typed
    <2>2. ASSUME NEW m \in 1..Len(queue'), NEW n \in 1..Len(queue'), queue'[m] = queue'[n]
          PROVE  m = n
      <3>1. /\ m \in 1..Len(queue) \/ m = Len(queue) + 1
            /\ n \in 1..Len(queue) \/ n = Len(queue) + 1
        BY <1>4
      <3>2. \A l \in 1..Len(queue) : queue[l] # k
        BY <1>3 DEF Queued
      <3>3. QED
        BY <1>4, <2>2, <3>1, <3>2 DEF OneOwner
    <2>3. QED
      BY <1>2, <1>3, <1>5, <2>1, <2>2 DEF OneOwner
  <1>7. Fresh' /\ WaitingRows' /\ Cared'
    BY <1>2, <1>3, <1>5 DEF Fresh, WaitingRows, Cared, process
  <1>8. WorkerRows'
    BY <1>2 DEF WorkerRows, WorkerRow, process
  <1>9. OnceHeard' /\ RowIsTruthful' /\ StopOrder'
    BY <1>2 DEF OnceHeard, RowIsTruthful, StopOrder, process
  <1>10. QED
    BY <1>6, <1>7, <1>8, <1>9

\* An idle worker takes the first of the queue.
LEMMA TakeKnows ==
    ASSUME Typed, RowsKnown, NEW w \in Worker, Take(w)
    PROVE  RowsKnown'
  <1> USE DEF RowsKnown
  <1>1. PICK k \in Id : k = queue[1] /\ k = Head(queue)
    BY DEF Take, Typed
  <1>2. /\ UNCHANGED <<row, heard, nextId, callPc, callId, process, faults>>
        /\ workPc' = [workPc EXCEPT ![w] = "check"] /\ workPc[w] = "idle"
        /\ workId' = [workId EXCEPT ![w] = k]
        /\ queue' = Tail(queue)
    BY <1>1 DEF Take, Goto, rowVars, callVars
  <1>3. /\ Len(queue) \in Nat \ {0} /\ Len(queue') = Len(queue) - 1
        /\ \A n \in 1..(Len(queue) - 1) : queue'[n] = queue[n + 1]
    BY <1>2 DEF Take, Typed
  <1>4. Queued(k) /\ ~Submitting(k) /\ ~Working(k)
    <2>1. 1 \in 1..Len(queue)
      BY <1>3
    <2>2. Queued(k)
      BY <1>1, <2>1 DEF Queued
    <2>3. QED
      BY <2>2 DEF OneOwner
  <1>5. ASSUME NEW i \in Id
        PROVE  /\ Submitting(i)' <=> Submitting(i)
               /\ Queued(i)' <=> Queued(i) /\ i # k
               /\ Working(i)' <=> Working(i) \/ i = k
    <2>1. ASSUME Queued(i)' PROVE Queued(i) /\ i # k
      <3>1. PICK n \in 1..Len(queue') : queue'[n] = i
        BY <2>1 DEF Queued
      <3>2. n + 1 \in 1..Len(queue) /\ n + 1 # 1 /\ queue[n + 1] = i /\ 1 \in 1..Len(queue)
        BY <1>3, <3>1
      <3>3. QED
        BY <1>1, <3>2 DEF Queued, OneOwner
    <2>2. ASSUME Queued(i), i # k PROVE Queued(i)'
      <3>1. PICK n \in 1..Len(queue) : queue[n] = i
        BY <2>2 DEF Queued
      <3>2. n # 1
        BY <1>1, <2>2, <3>1
      <3>3. n - 1 \in 1..Len(queue') /\ n - 1 \in 1..(Len(queue) - 1) /\ (n - 1) + 1 = n
        BY <1>3, <3>2
      <3>4. queue'[n - 1] = i
        BY <1>3, <3>1, <3>3
      <3>5. QED
        BY <3>3, <3>4 DEF Queued
    <2>3. Submitting(i)' <=> Submitting(i)
      BY <1>2 DEF Submitting
    <2>4. Working(i)' => Working(i) \/ i = k
      BY <1>2 DEF Working, Typed
    <2>5. Working(i) => Working(i)'
      BY <1>2 DEF Working, Typed
    <2>6. Working(k)'
      BY <1>2 DEF Working, Typed
    <2>7. QED
      BY <2>1, <2>2, <2>3, <2>4, <2>5, <2>6
  <1>6. OneOwner'
    <2>1. ASSUME NEW m \in 1..Len(queue'), NEW n \in 1..Len(queue'), queue'[m] = queue'[n]
          PROVE  m = n
      <3>1. /\ m \in Nat /\ n \in Nat
            /\ m + 1 \in 1..Len(queue) /\ n + 1 \in 1..Len(queue)
            /\ queue[m + 1] = queue'[m] /\ queue[n + 1] = queue'[n]
        BY <1>3
      <3>2. m + 1 = n + 1
        BY <2>1, <3>1 DEF OneOwner
      <3>3. QED
        BY <3>1, <3>2
    <2>2. ASSUME NEW v \in Worker, NEW u \in Worker, workPc'[v] # "idle", workPc'[u] # "idle",
                 workId'[v] = workId'[u]
          PROVE  v = u
      <3>1. \A x \in Worker : x # w => workPc'[x] = workPc[x] /\ workId'[x] = workId[x]
        BY <1>2 DEF Typed
      <3>2. workId'[w] = k
        BY <1>2 DEF Typed
      <3>3. \A x \in Worker : workPc[x] # "idle" => workId[x] # k
        BY <1>4 DEF Working
      <3>4. QED
        BY <2>2, <3>1, <3>2, <3>3 DEF OneOwner
    <2>3. \A a, d \in Caller : callPc'[a] = "submit" /\ callPc'[d] = "submit" /\ callId'[a] = callId'[d] => a = d
      BY <1>2 DEF OneOwner
    <2>4. QED
      BY <1>4, <1>5, <2>1, <2>2, <2>3 DEF OneOwner
  <1>7. Fresh' /\ WaitingRows' /\ Cared'
    BY <1>2, <1>4, <1>5 DEF Fresh, WaitingRows, Cared, process
  <1>8. WorkerRows'
    <2>1. row[k] \in InFlight /\ heard[k] = 0
      BY <1>4 DEF WaitingRows, InFlight
    <2>2. ASSUME NEW v \in Worker PROVE WorkerRow(v)'
      <3>1. CASE v = w
        <4>1. workPc'[w] = "check" /\ workId'[w] = k
          BY <1>2 DEF Typed
        <4>2. QED
          BY <1>2, <2>1, <3>1, <4>1 DEF WorkerRow
      <3>2. CASE v # w
        <4>1. workPc'[v] = workPc[v] /\ workId'[v] = workId[v]
          BY <1>2, <3>2 DEF Typed
        <4>2. QED
          BY <1>2, <4>1 DEF WorkerRows, WorkerRow, process
      <3>3. QED
        BY <3>1, <3>2
    <2>3. QED
      BY <2>2 DEF WorkerRows
  <1>9. OnceHeard' /\ RowIsTruthful' /\ StopOrder'
    BY <1>2 DEF OnceHeard, RowIsTruthful, StopOrder, process
  <1>10. QED
    BY <1>6, <1>7, <1>8, <1>9

\* A worker that leaves has settled its row, unless the database failed.
LEMMA ReleaseKnows ==
    ASSUME Typed, RowsKnown, NEW w \in Worker, Release(w)
    PROVE  RowsKnown'
  <1> USE DEF RowsKnown
  <1>1. /\ UNCHANGED <<row, heard, nextId, callPc, callId, queue, process, faults>>
        /\ workPc' = [workPc EXCEPT ![w] = "idle"] /\ workPc[w] = "release"
        /\ workId' = [workId EXCEPT ![w] = 1]
    BY DEF Release, rowVars, callVars
  <1>2. PICK k \in Id : k = workId[w]
    BY DEF Typed
  <1>3. row[k] \notin InFlight \/ faults > 0 \/ ~dbOpen
    BY <1>1, <1>2 DEF WorkerRows, WorkerRow
  <1>4. /\ \A v \in Worker : v # w => workPc'[v] = workPc[v] /\ workId'[v] = workId[v]
        /\ workPc'[w] = "idle"
    BY <1>1 DEF Typed
  <1>5. ASSUME NEW i \in Id
        PROVE  /\ Submitting(i)' <=> Submitting(i)
               /\ Queued(i)' <=> Queued(i)
               /\ Working(i)' => Working(i)
               /\ Working(i) /\ i # k => Working(i)'
    BY <1>1, <1>2, <1>4 DEF Submitting, Queued, Working
  <1>6. OneOwner'
    <2>1. \A v, u \in Worker : workPc'[v] # "idle" /\ workPc'[u] # "idle" /\ workId'[v] = workId'[u] => v = u
      BY <1>4 DEF OneOwner
    <2>2. QED
      BY <1>1, <1>5, <2>1 DEF OneOwner
  <1>7. Fresh' /\ WaitingRows'
    BY <1>1, <1>5 DEF Fresh, WaitingRows
  <1>8. Cared'
    BY <1>1, <1>3, <1>5, Constants DEF Cared, StopOrder, process, Typed
  <1>9. WorkerRows'
    BY <1>1, <1>4 DEF WorkerRows, WorkerRow, process
  <1>10. OnceHeard' /\ RowIsTruthful' /\ StopOrder'
    BY <1>1 DEF OnceHeard, RowIsTruthful, StopOrder, process
  <1>11. QED
    BY <1>6, <1>7, <1>8, <1>9, <1>10

\* A restart gives up what was under way.
LEMMA RestartKnows ==
    ASSUME Typed, RowsKnown, Restart
    PROVE  RowsKnown'
  <1> USE DEF RowsKnown
  <1>1. /\ UNCHANGED <<heard, nextId, faults>>
        /\ \A i \in Id : row'[i] = AfterRestart(row[i])
        /\ \A c \in Caller : callPc'[c] = "idle"
        /\ \A w \in Worker : workPc'[w] = "idle"
        /\ Len(queue') = 0
    BY DEF Restart
  <1>2. \A i \in Id : ~Submitting(i)' /\ ~Queued(i)' /\ ~Working(i)'
    BY <1>1 DEF Submitting, Queued, Working
  <1>3. OneOwner'
    BY <1>1, <1>2 DEF OneOwner
  <1>4. \A i \in Id : row'[i] = row[i] \/ (row[i] \in InFlight /\ row'[i] = "interrupted")
    <2> SUFFICES ASSUME NEW i \in Id
                 PROVE  row'[i] = row[i] \/ (row[i] \in InFlight /\ row'[i] = "interrupted")
      OBVIOUS
    <2>1. row'[i] = IF row[i] \in InFlight THEN "interrupted" ELSE row[i]
      BY <1>1 DEF AfterRestart
    <2>2. QED
      BY <2>1
  <1>5. \A i \in Id : row'[i] \notin InFlight
    BY <1>1 DEF AfterRestart, InFlight
  <1>6. Fresh' /\ WaitingRows' /\ Cared'
    BY <1>1, <1>2, <1>4, <1>5 DEF Fresh, WaitingRows, Cared, InFlight
  <1>7. WorkerRows' /\ StopOrder'
    BY <1>1 DEF WorkerRows, WorkerRow, StopOrder, Restart
  <1>8. OnceHeard' /\ RowIsTruthful'
    BY <1>1, <1>4 DEF OnceHeard, RowIsTruthful
  <1>9. QED
    BY <1>3, <1>6, <1>7, <1>8

LEMMA RowsStayKnown ==
    ASSUME IInv, RowsKnown, [Next]_vars
    PROVE  RowsKnown'
  <1>1. Typed
    BY TypedFromInv
  <1>2. ASSUME NEW c \in Caller, CallerStep(c) PROVE RowsKnown'
    BY <1>1, <1>2, QuietKnows, InsertKnows, RaiseKnows, SubmitKnows DEF CallerStep
  <1>3. ASSUME NEW w \in Worker, WorkerStep(w) PROVE RowsKnown'
    BY <1>1, <1>3, TakeKnows, DeliveryKnows, ReleaseKnows DEF WorkerStep
  <1>4. CASE StopEvent \/ PoolShutdown \/ CloseDb \/ UNCHANGED vars
    BY <1>1, <1>4, QuietKnows
  <1>5. CASE Restart
    BY <1>1, <1>5, RestartKnows
  <1>6. QED
    BY <1>2, <1>3, <1>4, <1>5 DEF Next

-----------------------------------------------------------------------------
(* How many rows and permits there are.                                    *)

\* Of a set of numbers at most n have fewer than n greater ones.
LEMMA NewestAreFew ==
    ASSUME NEW S \in SUBSET Nat, IsFiniteSet(S), NEW n \in Nat,
           NEW T, T = {i \in S : Cardinality({j \in S : j > i}) < n}
    PROVE  IsFiniteSet(T) /\ Cardinality(T) <= n
  <1> DEFINE above(i) == {j \in S : j > i}
             f == [i \in T |-> Cardinality(above(i)) + 1]
  <1>1. \A i \in S : IsFiniteSet(above(i)) /\ Cardinality(above(i)) \in Nat
    BY FS_Subset, FS_CardinalityType
  <1>2. ASSUME NEW i \in S, NEW k \in S, i < k
        PROVE  Cardinality(above(k)) < Cardinality(above(i))
    <2>0. i \in Nat /\ k \in Nat /\ ~(k > k) /\ k > i /\ \A j \in S : j > k => j > i
      BY <1>2
    <2>1. above(k) \cup {k} \subseteq above(i) /\ k \notin above(k)
      BY <2>0
    <2> HIDE DEF above
    <2>2. Cardinality(above(k) \cup {k}) = Cardinality(above(k)) + 1
      BY <1>1, <2>1, FS_AddElement
    <2>3. Cardinality(above(k) \cup {k}) <= Cardinality(above(i))
      BY <1>1, <2>1, FS_Subset
    <2>4. QED
      BY <1>1, <2>2, <2>3
  <1>3. T \subseteq S /\ \A i \in T : Cardinality(above(i)) < n
    OBVIOUS
  <1> HIDE DEF above
  <1>4. f \in [T -> 1..n]
    <2>1. \A i \in T : Cardinality(above(i)) + 1 \in 1..n
      BY <1>1, <1>3
    <2>2. QED
      BY <2>1
  <1>5. ASSUME NEW i \in T, NEW k \in T, f[i] = f[k] PROVE i = k
    <2>1. i \in Nat /\ k \in Nat /\ i \in S /\ k \in S
      BY <1>3
    <2>2. Cardinality(above(i)) = Cardinality(above(k))
      BY <1>1, <1>5, <2>1
    <2>3. QED
      BY <1>1, <1>2, <2>1, <2>2
  <1>6. f \in Injection(T, 1..n)
    BY <1>4, <1>5 DEF Injection, IsInjective
  <1>7. IsFiniteSet(1..n) /\ Cardinality(1..n) = n
    BY FS_Interval
  <1>8. QED
    BY <1>6, <1>7, FS_Injection

\* The sets that are counted are finite.
LEMMA CountsFinite ==
    /\ IsFiniteSet(Unfinished) /\ Cardinality(Unfinished) \in Nat
    /\ IsFiniteSet(Finished) /\ Cardinality(Finished) \in Nat
    /\ IsFiniteSet(Inserting) /\ Cardinality(Inserting) \in Nat
    /\ IsFiniteSet(Releasing) /\ Cardinality(Releasing) \in Nat
  <1>1. IsFiniteSet(Id)
    BY FS_Interval, Constants DEF Id
  <1>2. /\ Unfinished \subseteq Id /\ Finished \subseteq Id
        /\ Inserting \subseteq Caller /\ Releasing \subseteq Worker
    BY DEF Unfinished, Finished, Inserting, Releasing
  <1>3. /\ IsFiniteSet(Unfinished) /\ IsFiniteSet(Finished)
        /\ IsFiniteSet(Inserting) /\ IsFiniteSet(Releasing)
    BY <1>1, <1>2, FS_Subset, ConstantAssumption
  <1>4. QED
    BY <1>3, FS_CardinalityType

\* Nothing that is counted changes.
LEMMA CountsSame ==
    ASSUME PermitsCover, FaultsStay,
           Unfinished' = Unfinished, Finished' = Finished, Inserting' = Inserting,
           poolOpen' => poolOpen /\ slots' = slots /\ Releasing' = Releasing
    PROVE  PermitsCover'
  BY DEF PermitsCover, FaultsStay

\* Steps of a delivery: a row is finished as its worker turns to leave.
LEMMA SettledCounts ==
    ASSUME Typed, PermitsCover, UNCHANGED <<slots, process>>, FaultsStay, Inserting' = Inserting,
           NEW i \in Id, i \in Unfinished, NEW w \in Worker, w \notin Releasing,
           Unfinished' = Unfinished \ {i}, Finished' = Finished \cup {i}, Releasing' = Releasing \cup {w}
    PROVE  PermitsCover'
  <1>1. i \notin Finished
    BY DEF Unfinished, Finished, InFlight, Final
  <1>2. /\ Cardinality(Unfinished') = Cardinality(Unfinished) - 1
        /\ Cardinality(Finished') = Cardinality(Finished) + 1
        /\ Cardinality(Releasing') = Cardinality(Releasing) + 1
        /\ Cardinality(Inserting') = Cardinality(Inserting)
    BY <1>1, CountsFinite, FS_AddElement, FS_RemoveElement
  <1>3. slots \in Int /\ Slots \in Nat /\ Retained \in Nat
    BY Constants, ConstantAssumption DEF Typed
  <1>4. QED
    BY <1>2, <1>3, CountsFinite DEF PermitsCover, FaultsStay, process

\* What a new status of a row that was under way does to the sets.
LEMMA StatusCounts ==
    ASSUME Typed, NEW i \in Id, i \in Unfinished, NEW s, row' = [row EXCEPT ![i] = s]
    PROVE  /\ s \in InFlight => Unfinished' = Unfinished /\ Finished' = Finished
           /\ s \in Final => Unfinished' = Unfinished \ {i} /\ Finished' = Finished \cup {i}
  <1>1. \A j \in Id : row'[j] = IF j = i THEN s ELSE row[j]
    BY DEF Typed
  <1>2. s \in InFlight => s \notin Final
    BY DEF InFlight, Final
  <1>3. s \in Final => s \notin InFlight
    BY DEF InFlight, Final
  <1>4. row[i] \in InFlight /\ row[i] \notin Final
    BY DEF Unfinished, InFlight, Final
  <1>5. QED
    BY <1>1, <1>2, <1>3, <1>4 DEF Unfinished, Finished

\* What the move of a worker does to them.
LEMMA MoveCounts ==
    ASSUME Typed, NEW w \in Worker, NEW pc, WorkerGoes(w, pc)
    PROVE  /\ Inserting' = Inserting /\ UNCHANGED <<slots, process>>
           /\ pc = "release" => Releasing' = Releasing \cup {w}
           /\ pc # "release" /\ workPc[w] # "release" => Releasing' = Releasing
  BY DEF WorkerGoes, Inserting, Releasing, callVars, Typed

\* A step of a delivery in one of four ways: it goes on, it settles its row,
\* a fault is counted, or it leaves after the pool is closed.
LEMMA DeliveryWays ==
    ASSUME Typed, RowsKnown, NEW w \in Worker,
           \/ BeginAttempt(w) \/ SendAccepted(w) \/ SendFails(w)
           \/ RecordSent(w) \/ RecordSentRaises(w) \/ Backoff(w)
    PROVE  /\ FaultsStay /\ workPc[w] # "release"
           /\ workId[w] \in Id /\ workId[w] \in Unfinished
           /\ \E pc : /\ WorkerGoes(w, pc)
                      /\ \/ \E s \in InFlight : pc # "release" /\ row' = [row EXCEPT ![workId[w]] = s]
                         \/ \E s \in Final : pc = "release" /\ row' = [row EXCEPT ![workId[w]] = s]
                         \/ faults' > 0
                         \/ ~poolOpen /\ UNCHANGED row
  <1> DEFINE Ways ==
        \E pc : /\ WorkerGoes(w, pc)
                /\ \/ \E s \in InFlight : pc # "release" /\ row' = [row EXCEPT ![workId[w]] = s]
                   \/ \E s \in Final : pc = "release" /\ row' = [row EXCEPT ![workId[w]] = s]
                   \/ faults' > 0
                   \/ ~poolOpen /\ UNCHANGED row
  <1>1. FaultsStay
    BY DbSteps DEF BeginAttempt, SendAccepted, SendFails, RecordSent, RecordSentRaises, Backoff, FaultsStay
  <1>2. workPc[w] \in {"check", "send", "record", "backoff"}
    BY DEF BeginAttempt, SendAccepted, SendFails, RecordSent, RecordSentRaises, Backoff
  <1>3. workId[w] \in Id /\ WorkerRow(w) /\ StopOrder
    BY DEF Typed, RowsKnown, WorkerRows
  <1>4. row[workId[w]] \in InFlight
    BY <1>2, <1>3 DEF WorkerRow, InFlight
  <1>5. /\ "sending" \in InFlight
        /\ "sent" \in Final /\ "failed" \in Final /\ "interrupted" \in Final
    BY DEF InFlight, Final
  <1>6. UNCHANGED row => row' = [row EXCEPT ![workId[w]] = row[workId[w]]]
    BY <1>3 DEF Typed
  <1>7. AttemptFailed(w) /\ UNCHANGED <<workId, workAttempt, slots, process, queue, callVars, heard>> => Ways
    <2> SUFFICES ASSUME AttemptFailed(w),
                        UNCHANGED <<workId, workAttempt, slots, process, queue, callVars, heard>>
                 PROVE  Ways
      OBVIOUS
    <2>1. CASE WorkerGoes(w, "backoff") /\ UNCHANGED row
      BY <1>4, <1>6, <2>1
    <2>2. CASE WorkerGoes(w, "release") /\ ~dbOpen /\ UNCHANGED row
      BY <1>3, <2>2 DEF StopOrder
    <2>3. CASE WorkerGoes(w, "release") /\ dbOpen /\ row' = [row EXCEPT ![workId[w]] = "failed"]
      BY <1>5, <2>3
    <2>4. QED
      BY <2>1, <2>2, <2>3, FailedAttempt
  <1>8. ASSUME BeginAttempt(w) PROVE Ways
    <2>1. CASE stopped /\ DbRuns /\ SetRow(workId[w], "interrupted", workAttempt[w] - 1) /\ Goto(w, "release")
      <3>1. WorkerGoes(w, "release") /\ row' = [row EXCEPT ![workId[w]] = "interrupted"]
        BY <1>8, <2>1 DEF BeginAttempt, SetRow, Goto, WorkerGoes
      <3>2. QED
        BY <1>5, <3>1
    <2>2. CASE ~stopped /\ DbRuns /\ SetRow(workId[w], "sending", workAttempt[w]) /\ Goto(w, "send")
      <3>1. WorkerGoes(w, "send") /\ row' = [row EXCEPT ![workId[w]] = "sending"]
        BY <1>8, <2>2 DEF BeginAttempt, SetRow, Goto, WorkerGoes
      <3>2. \E s \in InFlight : "send" # "release" /\ row' = [row EXCEPT ![workId[w]] = s]
        BY <1>5, <3>1
      <3>3. QED
        BY <3>1, <3>2
    <2>3. CASE DbRaises /\ Goto(w, "release") /\ UNCHANGED rowVars
      <3>1. WorkerGoes(w, "release") /\ UNCHANGED row
        BY <1>8, <2>3 DEF BeginAttempt, Goto, WorkerGoes, rowVars
      <3>2. faults' > 0 \/ ~poolOpen
        BY <1>3, <2>3, DbSteps DEF StopOrder
      <3>3. QED
        BY <3>1, <3>2
    <2>4. QED
      BY <1>8, <2>1, <2>2, <2>3 DEF BeginAttempt
  <1>9. ASSUME SendAccepted(w) \/ Backoff(w) PROVE Ways
    <2>1. (WorkerGoes(w, "record") \/ WorkerGoes(w, "check")) /\ UNCHANGED row
      BY <1>9 DEF SendAccepted, Backoff, Goto, WorkerGoes, rowVars
    <2>2. QED
      BY <1>4, <1>6, <2>1
  <1>10. ASSUME RecordSent(w) PROVE Ways
    <2>1. WorkerGoes(w, "release") /\ row' = [row EXCEPT ![workId[w]] = "sent"]
      BY <1>10 DEF RecordSent, SetRow, Goto, WorkerGoes
    <2>2. QED
      BY <1>5, <2>1
  <1>11. ASSUME SendFails(w) \/ RecordSentRaises(w) PROVE Ways
    BY <1>7, <1>11 DEF SendFails, RecordSentRaises
  <1>12. Ways
    BY <1>8, <1>9, <1>10, <1>11
  <1>13. QED
    BY <1>1, <1>2, <1>3, <1>4, <1>12 DEF Unfinished

LEMMA DeliveryCounts ==
    ASSUME Typed, RowsKnown, PermitsCover, NEW w \in Worker,
           \/ BeginAttempt(w) \/ SendAccepted(w) \/ SendFails(w)
           \/ RecordSent(w) \/ RecordSentRaises(w) \/ Backoff(w)
    PROVE  PermitsCover'
  <1>1. PICK i \in Unfinished : i \in Id /\ i = workId[w]
    BY DeliveryWays
  <1>2. PICK pc : /\ WorkerGoes(w, pc)
                  /\ \/ \E s \in InFlight : pc # "release" /\ row' = [row EXCEPT ![i] = s]
                     \/ \E s \in Final : pc = "release" /\ row' = [row EXCEPT ![i] = s]
                     \/ faults' > 0
                     \/ ~poolOpen /\ UNCHANGED row
    BY <1>1, DeliveryWays
  <1>3. FaultsStay /\ workPc[w] # "release" /\ w \notin Releasing
    BY DeliveryWays DEF Releasing
  <1>4. Inserting' = Inserting /\ UNCHANGED <<slots, process>>
    BY <1>2, MoveCounts
  <1>5. ASSUME NEW s \in InFlight, pc # "release", row' = [row EXCEPT ![i] = s] PROVE PermitsCover'
    <2>1. Unfinished' = Unfinished /\ Finished' = Finished
      BY <1>1, <1>5, StatusCounts
    <2>2. Releasing' = Releasing
      BY <1>2, <1>3, <1>5, MoveCounts
    <2>3. QED
      BY <1>3, <1>4, <2>1, <2>2, CountsSame DEF process
  <1>6. ASSUME NEW s \in Final, pc = "release", row' = [row EXCEPT ![i] = s] PROVE PermitsCover'
    <2>1. Unfinished' = Unfinished \ {i} /\ Finished' = Finished \cup {i}
      BY <1>1, <1>6, StatusCounts
    <2>2. Releasing' = Releasing \cup {w}
      BY <1>2, <1>6, MoveCounts
    <2>3. QED
      BY <1>1, <1>3, <1>4, <2>1, <2>2, SettledCounts
  <1>7. CASE faults' > 0
    BY <1>7 DEF PermitsCover
  <1>8. CASE ~poolOpen /\ UNCHANGED row
    <2>1. Unfinished' = Unfinished /\ Finished' = Finished
      BY <1>8 DEF Unfinished, Finished
    <2>2. ~poolOpen'
      BY <1>4, <1>8 DEF process
    <2>3. QED
      BY <1>3, <1>4, <2>1, <2>2, CountsSame
  <1>9. QED
    BY <1>2, <1>5, <1>6, <1>7, <1>8

\* A row inserted: the permit of its caller is the row's, and the DELETE leaves
\* few enough of the finished ones.
LEMMA InsertCounts ==
    ASSUME Typed, RowsKnown, PermitsCover, NEW c \in Caller, InsertRow(c)
    PROVE  PermitsCover'
  <1> SUFFICES ASSUME faults' = 0 PROVE PermitsCover'
    BY DEF PermitsCover
  <1>1. PICK k \in Id : k = nextId
    BY DEF InsertRow
  <1>2. nextId \in Id /\ row' = Purge([row EXCEPT ![nextId] = "queued"])
    BY DEF InsertRow
  <1>3. /\ row'[k] = "queued" /\ row[k] = "none"
        /\ \A i \in Id : i # k => row'[i] = row[i] \/ (row[i] \in Final /\ row'[i] = "purged")
    BY <1>1, <1>2, InsertedRows
  <1>4. /\ callPc[c] = "insert" /\ callPc' = [callPc EXCEPT ![c] = "submit"]
        /\ UNCHANGED <<slots, process, workPc>> /\ faults = 0
    BY DbSteps DEF InsertRow, workVars
  <1>5. Unfinished' = Unfinished \cup {k} /\ k \notin Unfinished
    BY <1>3 DEF Unfinished, InFlight, Final
  <1>6. Inserting' = Inserting \ {c} /\ c \in Inserting /\ Releasing' = Releasing
    BY <1>4 DEF Inserting, Releasing, Typed
  <1>7. IsFiniteSet(Finished') /\ Cardinality(Finished') <= Retained
    <2> DEFINE r == [row EXCEPT ![nextId] = "queued"]
    <2>1. \A i \in Id : r[i] = IF i = k THEN "queued" ELSE row[i]
      BY <1>1 DEF Typed
    <2>2. {l \in Id : r[l] \in Final} = Finished
      BY <1>3, <2>1 DEF Finished, Final
    <2> HIDE DEF r
    <2>3. \A i \in Id : row'[i] = IF r[i] \in Final
                                     /\ Cardinality({j \in Finished : j > i}) >= Retained
                                  THEN "purged" ELSE r[i]
      BY <1>2, <2>2, PurgedRow DEF r
    <2>4. Finished \subseteq Nat /\ IsFiniteSet(Finished) /\ Retained \in Nat
      BY CountsFinite, ConstantAssumption DEF Finished, Id
    <2>5. \A i \in Finished : IsFiniteSet({j \in Finished : j > i})
                              /\ Cardinality({j \in Finished : j > i}) \in Nat
      BY <2>4, FS_Subset, FS_CardinalityType
    <2>6. "purged" \notin Final
      BY DEF Final
    <2>7. \A i \in Id : r[i] \in Final <=> i \in Finished
      BY <2>2
    <2>8. Finished' = {i \in Finished : Cardinality({j \in Finished : j > i}) < Retained}
      <3>1. Finished' = {i \in Id : row'[i] \in Final}
        BY DEF Finished
      <3>2. ASSUME NEW i \in Id
            PROVE  row'[i] \in Final <=> i \in Finished /\ Cardinality({j \in Finished : j > i}) < Retained
        <4>1. CASE i \in Finished
          <5>1. Cardinality({j \in Finished : j > i}) \in Nat /\ r[i] \in Final
            BY <2>5, <2>7, <4>1
          <5>2. QED
            BY <2>3, <2>4, <2>6, <4>1, <5>1
        <4>2. CASE i \notin Finished
          BY <2>3, <2>7, <4>2
        <4>3. QED
          BY <4>1, <4>2
      <3>3. Finished \subseteq Id
        BY DEF Finished
      <3>4. QED
        BY <3>1, <3>2, <3>3
    <2>9. QED
      BY <2>4, <2>8, NewestAreFew
  <1>8. /\ Cardinality(Unfinished') = Cardinality(Unfinished) + 1
        /\ Cardinality(Inserting') = Cardinality(Inserting) - 1
        /\ Cardinality(Finished') \in Nat
    BY <1>5, <1>6, <1>7, CountsFinite, FS_AddElement, FS_RemoveElement, FS_CardinalityType
  <1>9. Cardinality(Inserting) >= 1
    <2>1. Cardinality(Inserting) # 0
      BY <1>6, CountsFinite, FS_EmptySet
    <2>2. QED
      BY <2>1, CountsFinite
  <1>10. slots \in Int /\ Slots \in Nat /\ Retained \in Nat
    BY Constants, ConstantAssumption DEF Typed
  <1>11. Releasing' = Releasing /\ slots' = slots /\ poolOpen' = poolOpen
    BY <1>4, <1>6 DEF process
  <1>12. /\ Cardinality(Unfinished) + Cardinality(Inserting) <= Slots
         /\ poolOpen => Cardinality(Unfinished) + Cardinality(Inserting) + Cardinality(Releasing) + slots <= Slots
    BY <1>4 DEF PermitsCover
  <1>13. QED
    BY <1>7, <1>8, <1>9, <1>10, <1>11, <1>12, CountsFinite DEF PermitsCover

\* The other steps of enqueue.
LEMMA CallerCounts ==
    ASSUME Typed, RowsKnown, PermitsCover, NEW c \in Caller, CallerStep(c)
    PROVE  PermitsCover'
  <1>0. slots \in Int /\ Slots \in Nat
    BY Constants DEF Typed
  <1>1. CASE Enqueue(c) \/ SkipChannel(c) \/ LeaveEnqueue(c) \/ Submit(c)
    <2>1. UNCHANGED <<row, slots, process, workPc, faults>>
      BY <1>1 DEF Enqueue, SkipChannel, LeaveEnqueue, Submit, rowVars, workVars
    <2>2. Inserting' = Inserting
      BY <1>1 DEF Enqueue, SkipChannel, LeaveEnqueue, Submit, Inserting, Typed
    <2>3. Unfinished' = Unfinished /\ Finished' = Finished /\ Releasing' = Releasing
      BY <2>1 DEF Unfinished, Finished, Releasing
    <2>4. QED
      BY <2>1, <2>2, <2>3, CountsSame DEF FaultsStay, process
  <1>2. CASE TakeSlot(c)
    <2>1. /\ UNCHANGED <<row, process, workPc, faults>> /\ slots' = slots - 1
          /\ callPc' = [callPc EXCEPT ![c] = "insert"] /\ callPc[c] = "scan"
          /\ poolOpen
      BY <1>2 DEF TakeSlot, rowVars, workVars, RowsKnown, StopOrder
    <2>2. Inserting' = Inserting \cup {c} /\ c \notin Inserting
      BY <2>1 DEF Inserting, Typed
    <2>3. Unfinished' = Unfinished /\ Finished' = Finished /\ Releasing' = Releasing
      BY <2>1 DEF Unfinished, Finished, Releasing
    <2>4. Cardinality(Inserting') = Cardinality(Inserting) + 1
      BY <2>2, CountsFinite, FS_AddElement
    <2>5. slots > 0
      BY <1>2 DEF TakeSlot
    <2>6. QED
      BY <1>0, <2>1, <2>3, <2>4, <2>5, CountsFinite DEF PermitsCover
  <1>3. CASE InsertRow(c)
    BY <1>3, InsertCounts
  <1>4. CASE EnqueueRaises(c)
    <2>1. /\ UNCHANGED <<row, process, workPc>>
          /\ callPc' = [callPc EXCEPT ![c] = "idle"]
          /\ faults' > 0 \/ ~poolOpen
      BY <1>4, DbSteps DEF EnqueueRaises, rowVars, workVars, RowsKnown, StopOrder
    <2>2. FaultsStay
      BY <1>4, DbSteps DEF EnqueueRaises, FaultsStay
    <2>3. Inserting' \subseteq Inserting
      BY <2>1 DEF Inserting, Typed
    <2>4. Cardinality(Inserting') <= Cardinality(Inserting) /\ Cardinality(Inserting') \in Nat
      BY <2>3, CountsFinite, FS_Subset, FS_CardinalityType
    <2>5. Unfinished' = Unfinished /\ Finished' = Finished
      BY <2>1 DEF Unfinished, Finished
    <2>6. QED
      BY <1>0, <2>1, <2>2, <2>4, <2>5, CountsFinite DEF PermitsCover, FaultsStay, process
  <1>5. QED
    BY <1>1, <1>2, <1>3, <1>4 DEF CallerStep

\* The other steps of a worker.
LEMMA WorkerCounts ==
    ASSUME Typed, RowsKnown, PermitsCover, NEW w \in Worker, WorkerStep(w)
    PROVE  PermitsCover'
  <1>0. slots \in Int /\ Slots \in Nat
    BY Constants DEF Typed
  <1>1. CASE Take(w)
    <2>1. UNCHANGED <<row, slots, process, callPc, faults>>
      BY <1>1 DEF Take, rowVars, callVars
    <2>2. Releasing' = Releasing
      BY <1>1 DEF Take, Goto, Releasing, Typed
    <2>3. Unfinished' = Unfinished /\ Finished' = Finished /\ Inserting' = Inserting
      BY <2>1 DEF Unfinished, Finished, Inserting
    <2>4. QED
      BY <2>1, <2>2, <2>3, CountsSame DEF FaultsStay, process
  <1>2. CASE Release(w)
    <2>1. /\ UNCHANGED <<row, process, callPc, faults>> /\ slots' = slots + 1
          /\ workPc' = [workPc EXCEPT ![w] = "idle"] /\ workPc[w] = "release"
      BY <1>2 DEF Release, rowVars, callVars
    <2>2. Releasing' = Releasing \ {w} /\ w \in Releasing
      BY <2>1 DEF Releasing, Typed
    <2>3. Unfinished' = Unfinished /\ Finished' = Finished /\ Inserting' = Inserting
      BY <2>1 DEF Unfinished, Finished, Inserting
    <2>4. Cardinality(Releasing') = Cardinality(Releasing) - 1
      BY <2>2, CountsFinite, FS_RemoveElement
    <2>5. QED
      BY <1>0, <2>1, <2>3, <2>4, CountsFinite DEF PermitsCover, process
  <1>3. QED
    BY <1>1, <1>2, DeliveryCounts DEF WorkerStep

\* A restart finishes every row that was under way.
LEMMA RestartCounts ==
    ASSUME Typed, PermitsCover, Restart
    PROVE  PermitsCover'
  <1>1. /\ \A i \in Id : row'[i] = AfterRestart(row[i])
        /\ \A c \in Caller : callPc'[c] = "idle"
        /\ \A w \in Worker : workPc'[w] = "idle"
        /\ slots' = Slots /\ faults' = faults
    BY DEF Restart
  <1>2. Unfinished' = {} /\ Inserting' = {} /\ Releasing' = {}
    BY <1>1 DEF Unfinished, Inserting, Releasing, AfterRestart, InFlight
  <1>3. Finished' = Finished \cup Unfinished
    <2>1. ASSUME NEW i \in Id
          PROVE  row'[i] \in Final <=> row[i] \in Final \/ row[i] \in InFlight
      <3>1. row'[i] = IF row[i] \in InFlight THEN "interrupted" ELSE row[i]
        BY <1>1 DEF AfterRestart
      <3>2. QED
        BY <3>1 DEF Final
    <2>2. QED
      BY <2>1 DEF Finished, Unfinished
  <1>4. Finished \cap Unfinished = {}
    <2>1. \A s : ~(s \in Final /\ s \in InFlight)
      BY DEF Final, InFlight
    <2>2. \A i \in Finished : i \notin Unfinished
      BY <2>1 DEF Finished, Unfinished
    <2>3. QED
      BY <2>2
  <1>5. Cardinality(Finished') = Cardinality(Finished) + Cardinality(Unfinished)
    <2>1. /\ Cardinality(Finished \cup Unfinished)
               = Cardinality(Finished) + Cardinality(Unfinished) - Cardinality(Finished \cap Unfinished)
          /\ Cardinality({}) = 0
      BY CountsFinite, FS_Union, FS_EmptySet
    <2>2. Cardinality(Finished \cap Unfinished) = 0
      BY <1>4, <2>1, Zenon
    <2>3. Cardinality(Finished') = Cardinality(Finished \cup Unfinished)
      BY <1>3, Zenon
    <2>4. QED
      BY <2>1, <2>2, <2>3, CountsFinite
  <1>6. Cardinality(Unfinished') = 0 /\ Cardinality(Inserting') = 0 /\ Cardinality(Releasing') = 0
    BY <1>2, FS_EmptySet
  <1>7. Slots \in Nat /\ Retained \in Nat
    BY Constants, ConstantAssumption
  <1>8. QED
    BY <1>1, <1>5, <1>6, <1>7, CountsFinite DEF PermitsCover

-----------------------------------------------------------------------------
(* How often a row was tried and its message handed over.                  *)

\* A worker counts on its own row only.
LEMMA CountTouches ==
    ASSUME Typed, RowsKnown, Counted, NEW w \in Worker, workPc[w] # "idle", OwnersSame,
           UNCHANGED nextId, NEW i, i = workId[w],
           \A j \in Id : j # i =>
               attempts'[j] = attempts[j] /\ accepted'[j] = accepted[j] /\ heard'[j] = heard[j],
           \A v \in Worker : v # w => workPc'[v] = workPc[v] /\ workAttempt'[v] = workAttempt[v],
           CountWorker(w)', heard'[i] <= accepted'[i], accepted'[i] <= attempts'[i]
    PROVE  Counted'
  <1>1. \A j \in Id : /\ Submitting(j)' <=> Submitting(j)
                      /\ Queued(j)' <=> Queued(j)
    BY SameOwners DEF RowsKnown
  <1>2. i \in Id /\ Working(i)
    BY DEF Working, Typed
  <1>3. ~Submitting(i) /\ ~Queued(i) /\ ~(i >= nextId)
    BY <1>2 DEF RowsKnown, OneOwner, Fresh
  <1>4. \A j \in Id : j >= nextId' \/ Submitting(j)' \/ Queued(j)' => attempts'[j] = 0
    BY <1>1, <1>3 DEF Counted
  <1>5. TriedAsTold'
    BY <1>2 DEF Counted, TriedAsTold
  <1>6. ASSUME NEW v \in Worker PROVE CountWorker(v)'
    <2>1. CASE v = w
      BY <2>1
    <2>2. CASE v # w /\ workPc[v] = "idle"
      BY <2>2 DEF CountWorker
    <2>3. CASE v # w /\ workPc[v] # "idle"
      <3>1. workId'[v] = workId[v] /\ workId[v] \in Id /\ workId[v] # i
        BY <2>3 DEF OwnersSame, RowsKnown, OneOwner, Typed
      <3>2. QED
        BY <2>3, <3>1 DEF CountWorker, Counted
    <2>4. QED
      BY <2>1, <2>2, <2>3
  <1>7. QED
    BY <1>4, <1>5, <1>6 DEF Counted

\* The steps of a delivery between Take and Release.
LEMMA DeliveryCounted ==
    ASSUME Typed, RowsKnown, Counted, NEW w \in Worker,
           \/ BeginAttempt(w) \/ SendAccepted(w) \/ SendFails(w)
           \/ RecordSent(w) \/ RecordSentRaises(w) \/ Backoff(w)
    PROVE  Counted'
  <1>1. PICK i \in Id : i = workId[w]
    BY DEF Typed
  <1>2. /\ CountWorker(w) /\ heard[i] <= accepted[i] /\ accepted[i] <= attempts[i]
        /\ heard[i] \in Nat /\ accepted[i] \in Nat /\ attempts[i] \in Nat /\ workAttempt[w] \in Nat
    BY <1>1, Constants DEF Counted, TriedAsTold, Typed
  <1>3. /\ workPc[w] # "idle" /\ UNCHANGED <<nextId, workId>>
        /\ \E pc : pc # "idle" /\ WorkerGoes(w, pc)
    BY DEF BeginAttempt, SendAccepted, SendFails, RecordSent, RecordSentRaises, Backoff,
           AttemptFailed, Goto, SetRow, WorkerGoes, rowVars
  <1>4. /\ OwnersSame
        /\ \A v \in Worker : v # w => workPc'[v] = workPc[v]
    BY <1>3, WorkerOwnersSame
  <1>5. \A v \in Worker : v # w => workAttempt'[v] = workAttempt[v]
    BY DEF BeginAttempt, SendAccepted, SendFails, RecordSent, RecordSentRaises, Backoff, Typed
  <1>6. \A j \in Id : j # i =>
            attempts'[j] = attempts[j] /\ accepted'[j] = accepted[j] /\ heard'[j] = heard[j]
    <2>1. CASE BeginAttempt(w) \/ RecordSent(w)
      BY <1>1, <2>1 DEF BeginAttempt, RecordSent, SetRow, rowVars, Typed
    <2>2. CASE SendAccepted(w) \/ Backoff(w)
      BY <1>1, <2>2 DEF SendAccepted, Backoff, rowVars, Typed
    <2>3. CASE SendFails(w) \/ RecordSentRaises(w)
      BY <1>1, <2>3 DEF SendFails, RecordSentRaises, AttemptFailed, SetRow, rowVars, Typed
    <2>4. QED
      BY <2>1, <2>2, <2>3
  <1>7. CountWorker(w)' /\ heard'[i] <= accepted'[i] /\ accepted'[i] <= attempts'[i]
    <2>1. CASE BeginAttempt(w)
      <3>1. /\ workPc[w] = "check" /\ UNCHANGED <<accepted, heard, workAttempt>>
            /\ \/ workPc'[w] = "release" /\ attempts'[i] = workAttempt[w] - 1
               \/ workPc'[w] = "send" /\ attempts'[i] = workAttempt[w]
               \/ workPc'[w] = "release" /\ attempts'[i] = attempts[i]
        BY <1>1, <2>1 DEF BeginAttempt, SetRow, Goto, rowVars, Typed
      <3>2. attempts[i] = workAttempt[w] - 1
        BY <1>1, <1>2, <3>1 DEF CountWorker
      <3>3. QED
        BY <1>1, <1>2, <1>3, <3>1, <3>2 DEF CountWorker
    <2>2. CASE SendAccepted(w)
      <3>1. /\ workPc[w] = "send" /\ workPc'[w] = "record" /\ UNCHANGED <<attempts, workAttempt>>
            /\ accepted'[i] = accepted[i] + 1 /\ heard'[i] = heard[i] + 1
        BY <1>1, <2>2 DEF SendAccepted, Goto, rowVars, Typed
      <3>2. QED
        BY <1>1, <1>2, <1>3, <3>1 DEF CountWorker
    <2>3. CASE SendFails(w) \/ RecordSentRaises(w)
      <3>1. /\ workPc[w] \in {"send", "record"} /\ UNCHANGED <<workAttempt, heard>>
            /\ workPc'[w] \in {"backoff", "release"}
            /\ attempts'[i] \in {attempts[i], workAttempt[w]}
        BY <1>1, <2>3 DEF SendFails, RecordSentRaises, AttemptFailed, SetRow, Goto, rowVars, Typed
      <3>2. \/ accepted'[i] = accepted[i]
            \/ workPc[w] = "send" /\ accepted'[i] = accepted[i] + 1
        BY <1>1, <2>3 DEF SendFails, RecordSentRaises, Typed
      <3>3. attempts[i] = workAttempt[w] /\ (workPc[w] = "send" => accepted[i] < attempts[i])
        BY <1>1, <1>2, <3>1 DEF CountWorker
      <3>4. QED
        BY <1>1, <1>2, <1>3, <3>1, <3>2, <3>3 DEF CountWorker
    <2>4. CASE RecordSent(w)
      <3>1. /\ workPc[w] = "record" /\ workPc'[w] = "release" /\ UNCHANGED <<accepted, heard>>
            /\ attempts'[i] = workAttempt[w]
        BY <1>1, <2>4 DEF RecordSent, SetRow, Goto, Typed
      <3>2. QED
        BY <1>1, <1>2, <3>1 DEF CountWorker
    <2>5. CASE Backoff(w)
      <3>1. /\ workPc[w] = "backoff" /\ workPc'[w] = "check" /\ UNCHANGED <<attempts, accepted, heard>>
            /\ workAttempt'[w] = workAttempt[w] + 1
        BY <2>5 DEF Backoff, Goto, rowVars, Typed
      <3>2. QED
        BY <1>1, <1>2, <1>3, <3>1 DEF CountWorker
    <2>6. QED
      BY <2>1, <2>2, <2>3, <2>4, <2>5
  <1>8. QED
    BY <1>1, <1>3, <1>4, <1>5, <1>6, <1>7, CountTouches

\* Steps of enqueue: at most a new row, not tried yet.
LEMMA CallerCounted ==
    ASSUME Typed, RowsKnown, Counted, NEW c \in Caller, CallerStep(c)
    PROVE  Counted'
  <1>1. UNCHANGED <<attempts, accepted, heard, workVars>>
    BY DEF CallerStep, Enqueue, SkipChannel, LeaveEnqueue, TakeSlot, InsertRow, EnqueueRaises,
           Submit, rowVars
  <1>2. TriedAsTold' /\ \A w \in Worker : CountWorker(w)'
    BY <1>1 DEF Counted, TriedAsTold, CountWorker, workVars
  <1>3. ASSUME NEW i \in Id, (i >= nextId \/ Submitting(i) \/ Queued(i))'
        PROVE  i >= nextId \/ Submitting(i) \/ Queued(i)
    <2>1. CASE Enqueue(c) \/ SkipChannel(c) \/ LeaveEnqueue(c) \/ TakeSlot(c) \/ EnqueueRaises(c)
      <3>1. /\ UNCHANGED <<queue, callId, nextId>>
            /\ \A d \in Caller : callPc'[d] = "submit" => callPc[d] = "submit"
        BY <2>1 DEF Enqueue, SkipChannel, LeaveEnqueue, TakeSlot, EnqueueRaises, rowVars, Typed
      <3>2. QED
        BY <1>3, <3>1 DEF Submitting, Queued
    <2>2. CASE InsertRow(c)
      <3>1. /\ UNCHANGED queue /\ nextId' = nextId + 1 /\ nextId \in Nat /\ i \in Nat
            /\ callPc' = [callPc EXCEPT ![c] = "submit"] /\ callId' = [callId EXCEPT ![c] = nextId]
        BY <2>2 DEF InsertRow, Id
      <3>2. CASE Submitting(i)'
        <4>1. PICK d \in Caller : callPc'[d] = "submit" /\ callId'[d] = i
          BY <3>2 DEF Submitting
        <4>2. CASE d = c
          BY <3>1, <4>1, <4>2 DEF Typed
        <4>3. CASE d # c
          BY <3>1, <4>1, <4>3 DEF Submitting, Typed
        <4>4. QED
          BY <4>2, <4>3
      <3>3. QED
        BY <1>3, <3>1, <3>2 DEF Queued
    <2>3. CASE Submit(c)
      <3>1. PICK k \in Id : k = callId[c]
        BY DEF Typed
      <3>2. /\ UNCHANGED <<callId, nextId>> /\ queue' = Append(queue, k)
            /\ callPc' = [callPc EXCEPT ![c] = "scan"] /\ callPc[c] = "submit"
        BY <2>3, <3>1 DEF Submit, rowVars
      <3>3. Submitting(k)
        BY <3>1, <3>2 DEF Submitting
      <3>4. Submitting(i)' => Submitting(i)
        BY <3>2 DEF Submitting, Typed
      <3>5. Queued(i)' => Queued(i) \/ i = k
        <4>1. /\ Len(queue) \in Nat /\ Len(queue') = Len(queue) + 1 /\ queue'[Len(queue) + 1] = k
              /\ \A n \in 1..Len(queue) : queue'[n] = queue[n]
          BY <3>2 DEF Typed
        <4>2. \A n \in 1..Len(queue') : n \in 1..Len(queue) \/ n = Len(queue) + 1
          BY <4>1
        <4>3. QED
          BY <4>1, <4>2 DEF Queued
      <3>6. QED
        BY <1>3, <3>2, <3>3, <3>4, <3>5
    <2>4. QED
      BY <2>1, <2>2, <2>3 DEF CallerStep
  <1>4. QED
    BY <1>1, <1>2, <1>3 DEF Counted

\* A worker that starts finds a row not tried yet.
LEMMA TakeCounted ==
    ASSUME Typed, RowsKnown, Counted, NEW w \in Worker, Take(w)
    PROVE  Counted'
  <1>1. PICK k \in Id : k = queue[1] /\ k = Head(queue)
    BY DEF Take, Typed
  <1>2. /\ UNCHANGED <<attempts, accepted, heard, nextId, callPc, callId>>
        /\ workPc' = [workPc EXCEPT ![w] = "check"]
        /\ workId' = [workId EXCEPT ![w] = k] /\ workAttempt' = [workAttempt EXCEPT ![w] = 1]
        /\ queue' = Tail(queue)
    BY <1>1 DEF Take, Goto, rowVars, callVars
  <1>3. /\ Len(queue) \in Nat \ {0} /\ Len(queue') = Len(queue) - 1
        /\ \A n \in 1..(Len(queue) - 1) : queue'[n] = queue[n + 1]
    BY <1>2 DEF Take, Typed
  <1>4. attempts[k] = 0
    <2>1. Queued(k)
      BY <1>1, <1>3 DEF Queued
    <2>2. QED
      BY <2>1 DEF Counted
  <1>5. \A i \in Id : Queued(i)' => Queued(i)
    <2>1. \A n \in 1..Len(queue') : n + 1 \in 1..Len(queue) /\ queue'[n] = queue[n + 1]
      BY <1>3
    <2>2. QED
      BY <2>1 DEF Queued
  <1>6. ASSUME NEW v \in Worker PROVE CountWorker(v)'
    <2>1. CASE v = w
      BY <1>2, <1>4, <2>1 DEF CountWorker, Typed
    <2>2. CASE v # w
      <3>1. workPc'[v] = workPc[v] /\ workId'[v] = workId[v] /\ workAttempt'[v] = workAttempt[v]
        BY <1>2, <2>2 DEF Typed
      <3>2. QED
        BY <1>2, <3>1 DEF Counted, CountWorker
    <2>3. QED
      BY <2>1, <2>2
  <1>7. \A i \in Id : Submitting(i)' <=> Submitting(i)
    BY <1>2 DEF Submitting
  <1>8. QED
    BY <1>2, <1>5, <1>6, <1>7 DEF Counted, TriedAsTold

\* The steps that touch no counter.
LEMMA QuietCounted ==
    ASSUME Typed, Counted, UNCHANGED <<attempts, accepted, heard, nextId>>,
           \A i \in Id : Submitting(i)' \/ Queued(i)' => Submitting(i) \/ Queued(i),
           \A w \in Worker : \/ workPc'[w] = "idle"
                             \/ UNCHANGED <<workPc[w], workId[w], workAttempt[w]>>
    PROVE  Counted'
  <1>1. ASSUME NEW w \in Worker PROVE CountWorker(w)'
    <2>1. CASE workPc'[w] = "idle"
      BY <2>1 DEF CountWorker
    <2>2. CASE UNCHANGED <<workPc[w], workId[w], workAttempt[w]>>
      BY <2>2 DEF Counted, CountWorker
    <2>3. QED
      BY <2>1, <2>2
  <1>2. QED
    BY <1>1 DEF Counted, TriedAsTold

LEMMA CountsStay ==
    ASSUME IInv, RowsKnown, Counted, [Next]_vars
    PROVE  Counted'
  <1>0. Typed
    BY TypedFromInv
  <1>1. ASSUME NEW c \in Caller, CallerStep(c) PROVE Counted'
    BY <1>0, <1>1, CallerCounted
  <1>2. ASSUME NEW w \in Worker, WorkerStep(w) PROVE Counted'
    <2>1. CASE Release(w)
      <3>1. /\ UNCHANGED <<attempts, accepted, heard, nextId, queue, callPc, callId>>
            /\ \A v \in Worker : workPc'[v] = "idle"
                                  \/ UNCHANGED <<workPc[v], workId[v], workAttempt[v]>>
        BY <1>0, <2>1 DEF Release, rowVars, callVars, Typed
      <3>2. \A i \in Id : Submitting(i)' \/ Queued(i)' => Submitting(i) \/ Queued(i)
        BY <3>1 DEF Submitting, Queued
      <3>3. QED
        BY <1>0, <3>1, <3>2, QuietCounted
    <2>2. QED
      BY <1>0, <1>2, <2>1, TakeCounted, DeliveryCounted DEF WorkerStep
  <1>3. CASE StopEvent \/ PoolShutdown \/ CloseDb \/ UNCHANGED vars
    <2>1. UNCHANGED <<attempts, accepted, heard, nextId, queue, callPc, callId, workPc, workId, workAttempt>>
      BY <1>3 DEF StopEvent, PoolShutdown, CloseDb, vars, rowVars, callVars, workVars
    <2>2. \A i \in Id : Submitting(i)' \/ Queued(i)' => Submitting(i) \/ Queued(i)
      BY <2>1 DEF Submitting, Queued
    <2>3. QED
      BY <1>0, <2>1, <2>2, QuietCounted
  <1>4. CASE Restart
    <2>1. /\ UNCHANGED <<attempts, accepted, heard, nextId>> /\ Len(queue') = 0
          /\ \A c \in Caller : callPc'[c] = "idle"
          /\ \A w \in Worker : workPc'[w] = "idle"
      BY <1>4 DEF Restart
    <2>2. \A i \in Id : Submitting(i)' \/ Queued(i)' => Submitting(i) \/ Queued(i)
      BY <2>1 DEF Submitting, Queued
    <2>3. QED
      BY <1>0, <2>1, <2>2, QuietCounted
  <1>5. QED
    BY <1>1, <1>2, <1>3, <1>4 DEF Next

\* The history's invariant is kept by every step, ...
LEMMA HistoryKept ==
    ASSUME IInv, HInv, [Next]_vars
    PROVE  HInv'
  <1>1. Typed /\ RowsKnown /\ PermitsCover
    BY TypedFromInv DEF HInv
  <1>c. RowsKnown' /\ Counted'
    BY RowsStayKnown, CountsStay DEF HInv
  <1>2. ASSUME NEW c \in Caller, CallerStep(c) PROVE PermitsCover'
    BY <1>1, <1>2, CallerCounts
  <1>3. ASSUME NEW w \in Worker, WorkerStep(w) PROVE PermitsCover'
    BY <1>1, <1>3, WorkerCounts
  <1>4. CASE StopEvent \/ PoolShutdown \/ CloseDb \/ UNCHANGED vars
    <2>1. UNCHANGED <<row, slots, callPc, workPc, faults>> /\ (poolOpen' => poolOpen)
      BY <1>4 DEF StopEvent, PoolShutdown, CloseDb, vars, rowVars, callVars, workVars, process
    <2>2. /\ Unfinished' = Unfinished /\ Finished' = Finished
          /\ Inserting' = Inserting /\ Releasing' = Releasing
      BY <2>1 DEF Unfinished, Finished, Inserting, Releasing
    <2>3. PermitsCover'
      BY <1>1, <2>1, <2>2, CountsSame DEF FaultsStay
    <2>4. QED
      BY <1>c, <2>3 DEF HInv
  <1>5. CASE Restart
    BY <1>1, <1>5, <1>c, RestartCounts DEF HInv
  <1>6. QED
    BY <1>2, <1>3, <1>4, <1>5, <1>c DEF HInv, Next

\* ... holds at the start ...
LEMMA HistoryStarts == Init => HInv
  <1> SUFFICES ASSUME Init PROVE HInv
    OBVIOUS
  <1>1. /\ \A i \in Id : row[i] = "none" /\ heard[i] = 0 /\ accepted[i] = 0 /\ attempts[i] = 0
        /\ \A c \in Caller : callPc[c] = "idle"
        /\ \A w \in Worker : workPc[w] = "idle"
        /\ Len(queue) = 0 /\ slots = Slots /\ faults = 0
    BY DEF Init
  <1>2. \A i \in Id : ~Submitting(i) /\ ~Queued(i) /\ ~Working(i)
    BY <1>1 DEF Submitting, Queued, Working
  <1>3. OneOwner
    BY <1>1, <1>2 DEF OneOwner
  <1>4. Fresh /\ WaitingRows /\ Cared
    BY <1>1, <1>2 DEF Fresh, WaitingRows, Cared, InFlight
  <1>5. WorkerRows /\ StopOrder
    BY <1>1 DEF WorkerRows, WorkerRow, StopOrder, Init
  <1>6. OnceHeard /\ RowIsTruthful
    BY <1>1 DEF OnceHeard, RowIsTruthful
  <1>7. Unfinished = {} /\ Finished = {} /\ Inserting = {} /\ Releasing = {}
    BY <1>1 DEF Unfinished, Finished, Inserting, Releasing, InFlight, Final
  <1>8. PermitsCover
    BY <1>1, <1>7, FS_EmptySet, Constants, ConstantAssumption DEF PermitsCover
  <1>9. Counted
    BY <1>1 DEF Counted, TriedAsTold, CountWorker
  <1>10. QED
    BY <1>3, <1>4, <1>5, <1>6, <1>8, <1>9 DEF HInv, RowsKnown

\* ... and says what the history promises.
LEMMA HistoryFollows == IInv /\ HInv => HistoryTrue
  <1> SUFFICES ASSUME IInv, HInv PROVE HistoryTrue
    OBVIOUS
  <1>1. TriedAsTold /\ HeardOnce /\ RowIsTruthful
    <2>1. ASSUME faults = 0, NEW w \in Worker, workPc[w] = "send" PROVE heard[workId[w]] = 0
      BY <2>1 DEF HInv, RowsKnown, WorkerRows, WorkerRow
    <2>2. QED
      BY <2>1 DEF HInv, RowsKnown, Counted, OnceHeard, HeardOnce
  <1>2. NoOrphan
    <2> SUFFICES ASSUME faults = 0, poolOpen PROVE
            \A i \in Id :
                /\ row[i] \in InFlight =>
                      \/ \E c \in Caller : callPc[c] = "submit" /\ callId[c] = i
                      \/ \E n \in DOMAIN queue : queue[n] = i
                      \/ \E w \in BusyWorkers : workId[w] = i
                /\ \A w \in Worker : workPc[w] \in {"send", "record"} => row[workId[w]] = "sending"
      BY DEF NoOrphan
    <2>1. \A i \in Id : row[i] \in InFlight => Submitting(i) \/ Queued(i) \/ Working(i)
      BY DEF HInv, RowsKnown, Cared
    <2>2. \A w \in Worker : workPc[w] \in {"send", "record"} => row[workId[w]] = "sending"
      BY DEF HInv, RowsKnown, WorkerRows, WorkerRow
    <2>3. DOMAIN queue = 1..Len(queue)
      BY TypedFromInv DEF Typed
    <2>4. QED
      BY <2>1, <2>2, <2>3 DEF Submitting, Queued, Working, BusyWorkers
  <1>3. HistoryBounded
    <2>1. Finished = {i \in Id : row[i] \in Final}
      BY DEF Finished
    <2>2. Slots \in Nat /\ Retained \in Nat
      BY Constants, ConstantAssumption
    <2>3. faults = 0 => Cardinality(Finished) <= Retained + Slots
      BY <2>2, CountsFinite DEF HInv, PermitsCover
    <2>4. QED
      BY <2>1, <2>3 DEF HistoryBounded
  <1>4. QED
    BY <1>1, <1>2, <1>3 DEF HistoryTrue

\* For any number of callers, workers, permits, attempts and retained rows: a
\* receiver gets a message at most as often as its row counts attempts, and
\* none the service learnt to have arrived is sent again; the row tells what the
\* service knows and is with somebody until it is finished, and the table stays
\* bounded, over lost answers, stops and restarts (enqueue, _deliver, __init__).
THEOREM HistoryIsTrue == Spec => []HistoryTrue
  <1>1. Spec => [](IInv /\ HInv)
    BY InitInv, NextKeeps, HistoryStarts, HistoryKept, PTL DEF Spec
  <1>2. QED
    BY <1>1, HistoryFollows, PTL

=============================================================================
