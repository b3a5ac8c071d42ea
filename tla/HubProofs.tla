------------------------------ MODULE HubProofs ------------------------------
(* The invariants of the hub hold for all sizes of its parts that the code  *)
(* allows (Sizes).  Each part has an inductive invariant of its own, kept   *)
(* by its steps and disturbed by no other part; the last section puts them  *)
(* together.                                                                *)
EXTENDS Hub, FiniteSetTheorems, SequenceTheorems, WellFoundedInduction, TLAPS

(* A part counts with the Cardinality of its own instance.                  *)

LEMMA JobsCount == \A s : J!Cardinality(s) = Cardinality(s)
  BY Zenon DEF J!Cardinality, Cardinality

LEMMA HttpCount == \A mix, s : H(mix)!Cardinality(s) = Cardinality(s)
  BY Zenon DEF H!Cardinality, Cardinality

LEMMA BackupCount == \A s : B!Cardinality(s) = Cardinality(s)
  BY Zenon DEF B!Cardinality, Cardinality

LEMMA PoolCount == \A s : D!Cardinality(s) = Cardinality(s)
  BY Zenon DEF D!Cardinality, Cardinality

-----------------------------------------------------------------------------
(* The jobs: a slot is missing for each job queued or at work, and the lock of*)
(* the CVE checks is held for one check.                                    *)

JobsPcs == {"idle", "submit", "watch", "poll", "done"}
JobsReplies == {"none", "job", "result", "error", "busy", "full", "late"}
JobsRow == [pc : JobsPcs, reply : JobsReplies]
JobsStatuses == {"none", "running", "done", "error"}

JobsTyped ==
    /\ req \in [Request -> JobsRow]
    /\ jobs \in [Request -> JobsStatuses]
    /\ order \in Seq(Request)
    /\ slots \in 0 .. Slots
    /\ pool \in [queue : Seq(J!Tasks), busy : SUBSET J!Tasks]
    /\ Cardinality(pool.busy) <= Workers
    /\ cveLock \in BOOLEAN
    /\ worked \subseteq Request /\ alert \subseteq Request
    /\ refusals \in 0 .. MaxFaults

JobsRunning == {r \in Request : jobs[r] = "running"}
JobsPending == {r \in Request : J!Pending(r)}
JobsHolders == {r \in Request :
                  Kind[r] = "cve" /\ (J!At(r, "submit") \/ (J!Pending(r) /\ r \notin worked))}

\* Whether r holds the lock when it stands at pc.
JobsHolding(r, pc) ==
    Kind[r] = "cve" /\ (pc = "submit" \/ (J!Pending(r) /\ r \notin worked))

\* A task is in the pool once, a finished job in the list once.
JobsSingle ==
    /\ \A i, j \in DOMAIN pool.queue : pool.queue[i] = pool.queue[j] => i = j
    /\ \A i \in DOMAIN pool.queue : pool.queue[i] \notin pool.busy
JobsListing ==
    /\ \A i, j \in DOMAIN order : order[i] = order[j] => i = j
    /\ \A i \in DOMAIN order : order[i] \in J!Finished
    /\ \A r \in J!Finished : \E i \in DOMAIN order : order[i] = r

\* What a request has not yet put into the pool is not there.
JobsEarly ==
    \A r \in Request :
        /\ req[r].pc \in {"idle", "submit"}
              => jobs[r] = "none" /\ ~J!Pending(r) /\ r \notin worked
        /\ req[r].pc # "done" => J!Watcher(r) \notin J!Queued \cup pool.busy
        /\ J!Pending(r) => jobs[r] = "running" \/ r \in worked
        /\ jobs[r] = "running" => J!Pending(r)
JobsCounted ==
    /\ Slots - slots = Cardinality(JobsPending)
    /\ Cardinality(J!Listed) <= KeepJobs + 1
JobsChecked ==
    /\ \A r, s \in JobsHolders : r = s
    /\ cveLock <=> JobsHolders # {}

JobsInv == JobsTyped /\ JobsSingle /\ JobsListing /\ JobsEarly /\ JobsCounted /\ JobsChecked

JobsHeld == J!Queued \cup pool.busy

LEMMA JobsTaskFacts ==
  /\ \A r, s : J!Job(r) = J!Job(s) => r = s
  /\ \A r, s : J!Watcher(r) = J!Watcher(s) => r = s
  /\ \A r, s : J!Job(r) # J!Watcher(s)
  /\ \A r \in Request : J!Job(r) \in J!Tasks /\ J!Watcher(r) \in J!Tasks
<1>1. \A r : J!Job(r).of = r /\ J!Watcher(r).of = r /\ J!Job(r).what # J!Watcher(r).what
  BY DEF J!Job, J!Watcher
<1>2. \A r, s : J!Job(r).what = J!Job(s).what
  BY DEF J!Job
<1>3. \A r \in Request : J!Job(r) \in J!Tasks /\ J!Watcher(r) \in J!Tasks
  BY DEF J!Tasks
<1>4. \A r, s : J!Job(r) # J!Watcher(s)
  BY DEF J!Job, J!Watcher
<1> QED
  BY <1>1, <1>3, <1>4


LEMMA JobsFiniteTasks == ASSUME JobsSized, NEW C \in SUBSET J!Tasks PROVE IsFiniteSet(C)
<1> DEFINE js == {J!Job(r) : r \in Request}
           ws == {J!Watcher(r) : r \in Request}
<1>1. IsFiniteSet(js)
  <2>1. [r \in Request |-> J!Job(r)] \in Surjection(Request, js)
    BY DEF Surjection
  <2> QED
    BY <2>1, FS_Surjection DEF JobsSized
<1>2. IsFiniteSet(ws)
  <2>1. [r \in Request |-> J!Watcher(r)] \in Surjection(Request, ws)
    BY DEF Surjection
  <2> QED
    BY <2>1, FS_Surjection DEF JobsSized
<1>3. IsFiniteSet(js \cup ws) /\ J!Tasks = js \cup ws
  BY <1>1, <1>2, FS_Union DEF J!Tasks
<1> QED
  BY <1>3, FS_Subset

\* The first n of different entries are n.
LEMMA JobsPrefix ==
  ASSUME NEW s \in Seq(Request), NEW n \in 0 .. Len(s),
         \A i, j \in DOMAIN s : s[i] = s[j] => i = j
  PROVE  /\ IsFiniteSet({s[i] : i \in 1 .. n})
         /\ Cardinality({s[i] : i \in 1 .. n}) = n
<1> DEFINE V == {s[i] : i \in 1 .. n}
           f == [i \in 1 .. n |-> s[i]]
<1>1. IsFiniteSet(1 .. n) /\ Cardinality(1 .. n) = n
  BY FS_Interval
<1>2. f \in Surjection(1 .. n, V)
  BY DEF Surjection
<1>3. f \in Injection(1 .. n, V)
  BY DEF Injection, IsInjective
<1> HIDE DEF V, f
<1>4. IsFiniteSet(V) /\ Cardinality(V) = n
  BY <1>1, <1>2, <1>3, FS_Surjection
<1> QED
  BY <1>4 DEF V

LEMMA JobsPutting ==
  ASSUME JobsTyped, JobsSingle, NEW t \in J!Tasks, t \notin JobsHeld, pool' = J!Put(t)
  PROVE  /\ pool' \in [queue : Seq(J!Tasks), busy : SUBSET J!Tasks]
         /\ JobsSingle' /\ JobsHeld' = JobsHeld \cup {t} /\ pool'.busy = pool.busy
<1> DEFINE q == pool.queue
<1>1. /\ q \in Seq(J!Tasks) /\ pool' = [queue |-> Append(q, t), busy |-> pool.busy]
      /\ pool.busy \subseteq J!Tasks
  BY DEF JobsTyped, J!Put
<1>2. pool'.queue = Append(q, t) /\ pool'.busy = pool.busy
  BY <1>1
<1>3. /\ Append(q, t) \in Seq(J!Tasks) /\ DOMAIN Append(q, t) = 1 .. Len(q) + 1
      /\ DOMAIN q = 1 .. Len(q) /\ Len(q) \in Nat
      /\ \A i \in 1 .. Len(q) : Append(q, t)[i] = q[i]
      /\ Append(q, t)[Len(q) + 1] = t
  BY <1>1
<1>4. J!Queued' = J!Queued \cup {t}
  BY <1>2, <1>3 DEF J!Queued
<1>5. \A i \in 1 .. Len(q) : q[i] # t
  BY <1>3 DEF JobsHeld, J!Queued
<1>6. JobsSingle'
  BY <1>2, <1>3, <1>5 DEF JobsSingle, JobsHeld
<1> QED
  BY <1>1, <1>2, <1>3, <1>4, <1>6 DEF JobsHeld

LEMMA JobsTaking ==
  ASSUME JobsSized, JobsTyped, JobsSingle, J!Take
  PROVE  /\ pool' \in [queue : Seq(J!Tasks), busy : SUBSET J!Tasks]
         /\ JobsSingle' /\ JobsHeld' = JobsHeld /\ Cardinality(pool'.busy) <= Workers
<1> DEFINE q == pool.queue
<1>1. /\ q \in Seq(J!Tasks) /\ q # <<>> /\ pool.busy \subseteq J!Tasks
      /\ pool' = [queue |-> Tail(q), busy |-> pool.busy \cup {Head(q)}]
  BY DEF JobsTyped, J!Take
<1>2. pool'.queue = Tail(q) /\ pool'.busy = pool.busy \cup {Head(q)}
  BY <1>1
<1>3. /\ Tail(q) \in Seq(J!Tasks) /\ DOMAIN Tail(q) = 1 .. Len(q) - 1
      /\ DOMAIN q = 1 .. Len(q) /\ Len(q) \in Nat \ {0}
      /\ \A i \in 1 .. Len(q) - 1 : Tail(q)[i] = q[i + 1]
      /\ Head(q) = q[1] /\ Head(q) \in J!Tasks
  BY <1>1
<1>4. JobsSingle'
  <2>1. /\ \A i \in 1 .. Len(q) : q[i] \notin pool.busy
        /\ \A i, j \in 1 .. Len(q) : q[i] = q[j] => i = j
    BY <1>3 DEF JobsSingle
  <2>2. ASSUME NEW i \in 1 .. Len(q) - 1
        PROVE  /\ i + 1 \in 1 .. Len(q) /\ i + 1 # 1 /\ 1 \in 1 .. Len(q)
               /\ Tail(q)[i] = q[i + 1]
    BY <1>3
  <2>3. \A i \in 1 .. Len(q) - 1 : Tail(q)[i] \notin pool.busy \cup {Head(q)}
    BY <1>3, <2>1, <2>2
  <2>4. \A i, j \in 1 .. Len(q) - 1 : i + 1 = j + 1 => i = j
    OBVIOUS
  <2>5. \A i, j \in 1 .. Len(q) - 1 : Tail(q)[i] = Tail(q)[j] => i = j
    BY <2>1, <2>2, <2>4
  <2> QED
    BY <1>2, <1>3, <2>3, <2>5 DEF JobsSingle
<1>5. JobsHeld' = JobsHeld
  <2>1. \A i \in 2 .. Len(q) : i - 1 \in 1 .. Len(q) - 1 /\ Tail(q)[i - 1] = q[i]
    BY <1>3
  <2>2. J!Queued = J!Queued' \cup {Head(q)}
    <3>1. ASSUME NEW x \in J!Queued PROVE x = Head(q) \/ x \in J!Queued'
      <4>1. PICK i \in 1 .. Len(q) : x = q[i]
        BY <1>3 DEF J!Queued
      <4>2. CASE i = 1
        BY <1>3, <4>1, <4>2
      <4>3. CASE i # 1
        <5>1. i \in 2 .. Len(q)
          BY <1>3, <4>3
        <5> QED
          BY <1>2, <1>3, <2>1, <4>1, <5>1 DEF J!Queued
      <4> QED
        BY <4>2, <4>3
    <3>2. \A x \in J!Queued' : x \in J!Queued
      BY <1>2, <1>3 DEF J!Queued
    <3>3. Head(q) \in J!Queued
      BY <1>3 DEF J!Queued
    <3> QED
      BY <3>1, <3>2, <3>3
  <2> QED
    BY <1>2, <2>2 DEF JobsHeld
<1>6. Cardinality(pool'.busy) <= Workers
  <2>1. IsFiniteSet(pool.busy)
    BY <1>1, JobsFiniteTasks
  <2>2. Cardinality(pool.busy) \in Nat /\ Cardinality(pool.busy) < Workers
    BY <2>1, FS_CardinalityType, JobsCount DEF J!Take, J!ThreadFree
  <2>3. Cardinality(pool.busy \cup {Head(q)}) \in {Cardinality(pool.busy), Cardinality(pool.busy) + 1}
    BY <2>1, FS_AddElement
  <2> QED
    BY <1>2, <2>2, <2>3 DEF JobsSized
<1> QED
  BY <1>1, <1>2, <1>3, <1>4, <1>5, <1>6

LEMMA JobsLeaving ==
  ASSUME JobsSized, JobsTyped, JobsSingle, NEW t \in pool.busy, J!Leave(t)
  PROVE  /\ pool' \in [queue : Seq(J!Tasks), busy : SUBSET J!Tasks]
         /\ JobsSingle' /\ JobsHeld' = JobsHeld \ {t} /\ Cardinality(pool'.busy) <= Workers
<1>1. /\ pool.queue \in Seq(J!Tasks) /\ pool.busy \subseteq J!Tasks
      /\ pool' = [queue |-> pool.queue, busy |-> pool.busy \ {t}]
  BY DEF JobsTyped, J!Leave
<1>2. pool'.queue = pool.queue /\ pool'.busy = pool.busy \ {t}
  BY <1>1
<1>3. JobsSingle'
  BY <1>2 DEF JobsSingle
<1>4. JobsHeld' = JobsHeld \ {t}
  BY <1>2 DEF JobsHeld, J!Queued, JobsSingle
<1>5. Cardinality(pool'.busy) <= Workers
  <2>1. IsFiniteSet(pool.busy)
    BY <1>1, JobsFiniteTasks
  <2>2. Cardinality(pool'.busy) \in Nat /\ Cardinality(pool.busy) \in Nat
        /\ Cardinality(pool'.busy) <= Cardinality(pool.busy)
    <3>1. IsFiniteSet(pool'.busy) /\ pool'.busy \in SUBSET pool.busy
      BY <1>2, <2>1, FS_Subset
    <3> QED
      BY <2>1, <3>1, FS_Subset, FS_CardinalityType
  <2> QED
    BY <2>2 DEF JobsTyped, JobsSized
<1> QED
  BY <1>1, <1>2, <1>3, <1>4, <1>5

LEMMA JobsInitInv == ASSUME JobsSized, J!Init PROVE JobsInv
<1>1. /\ req \in [Request -> JobsRow] /\ jobs \in [Request -> JobsStatuses]
      /\ order \in Seq(Request) /\ slots \in 0 .. Slots
      /\ cveLock \in BOOLEAN /\ worked \subseteq Request /\ alert \subseteq Request
      /\ refusals \in 0 .. MaxFaults
  <2>1. [pc |-> "idle", reply |-> "none"] \in JobsRow /\ "none" \in JobsStatuses
    BY DEF JobsRow, JobsPcs, JobsReplies, JobsStatuses
  <2>2. <<>> \in Seq(Request) /\ Slots \in 0 .. Slots /\ 0 \in 0 .. MaxFaults
    BY DEF JobsSized
  <2> QED
    BY <2>1, <2>2 DEF J!Init
<1>2. /\ pool.queue = <<>> /\ pool.busy = {}
      /\ pool \in [queue : Seq(J!Tasks), busy : SUBSET J!Tasks]
  BY DEF J!Init
<1>3. Cardinality(pool.busy) <= Workers
  BY <1>2, FS_EmptySet DEF JobsSized
<1>4. J!Queued = {} /\ JobsHeld = {}
  BY <1>2 DEF J!Queued, JobsHeld
<1>5. \A r \in Request : /\ ~J!Pending(r) /\ req[r].pc = "idle" /\ jobs[r] = "none"
                          /\ r \notin worked
  BY <1>4 DEF J!Init, J!Pending, JobsHeld
<1>6. JobsHolders = {} /\ JobsPending = {} /\ J!Listed = {} /\ J!Finished = {}
  BY <1>5 DEF JobsHolders, JobsPending, J!Listed, J!Finished, J!At
<1>7. JobsCounted
  BY <1>6, FS_EmptySet DEF JobsCounted, JobsSized, J!Init
<1>8. JobsChecked
  BY <1>6 DEF JobsChecked, J!Init
<1>9. JobsSingle /\ JobsListing /\ JobsEarly
  BY <1>2, <1>4, <1>5, <1>6 DEF JobsSingle, JobsListing, JobsEarly, JobsHeld, J!Init
<1> QED
  BY <1>1, <1>2, <1>3, <1>7, <1>8, <1>9 DEF JobsInv, JobsTyped

\* Of what is pruned nothing is left in the list.
LEMMA JobsPruning ==
  ASSUME JobsTyped, JobsListing, NEW n \in 0 .. Len(order), J!Prune(n)
  PROVE  /\ order' \in Seq(Request)
         /\ \A i, j \in DOMAIN order' : order'[i] = order'[j] => i = j
         /\ \A i \in DOMAIN order' : order'[i] \in J!Finished \ J!Pruned(n)
         /\ \A r \in J!Finished \ J!Pruned(n) : \E i \in DOMAIN order' : order'[i] = r
         /\ J!Pruned(n) \subseteq J!Finished
         /\ IsFiniteSet(J!Pruned(n)) /\ Cardinality(J!Pruned(n)) = n
<1>1. /\ order \in Seq(Request) /\ Len(order) \in Nat /\ DOMAIN order = 1 .. Len(order)
      /\ order' = SubSeq(order, n + 1, Len(order))
  BY DEF JobsTyped, J!Prune
<1>2. \A i \in (n + 1) .. Len(order) : order[i] \in Request
  BY <1>1
<1>3. /\ order' \in Seq(Request) /\ Len(order') = Len(order) - n
      /\ \A i \in 1 .. Len(order) - n : order'[i] = order[n + i]
  <2>1. n + 1 \in Int /\ Len(order) \in Int
    BY <1>1
  <2> HIDE DEF J!Prune
  <2>2. /\ order' \in Seq(Request)
        /\ Len(order') = IF n + 1 <= Len(order) THEN Len(order) - (n + 1) + 1 ELSE 0
        /\ \A i \in 1 .. Len(order) - (n + 1) + 1 : order'[i] = order[n + 1 + i - 1]
    BY <1>1, <1>2, <2>1, SubSeqProperties
  <2>3. /\ Len(order) - (n + 1) + 1 = Len(order) - n
        /\ n + 1 <= Len(order) \/ Len(order) - n = 0
    <3>1. \A l \in Nat : \A k \in 0 .. l :
            l - (k + 1) + 1 = l - k /\ (k + 1 <= l \/ l - k = 0)
      OBVIOUS
    <3> QED
      BY <1>1, <3>1
  <2>4. \A i \in 1 .. Len(order) - n : n + 1 + i - 1 = n + i
    BY <1>1
  <2>5. Len(order') = Len(order) - n
    BY <2>2, <2>3
  <2>6. ASSUME NEW i \in 1 .. Len(order) - n PROVE order'[i] = order[n + i]
    <3>1. order'[i] = order[n + 1 + i - 1]
      BY <2>2, <2>3
    <3> QED
      BY <2>4, <3>1
  <2> QED
    BY <2>2, <2>5, <2>6
<1>4. DOMAIN order' = 1 .. Len(order) - n
  BY <1>3
<1>5. \A i \in 1 .. Len(order) - n : n + i \in 1 .. Len(order) /\ n + i \notin 1 .. n
  BY <1>1
<1>6. /\ \A i, j \in 1 .. Len(order) : order[i] = order[j] => i = j
      /\ \A i \in 1 .. Len(order) : order[i] \in J!Finished
      /\ \A r \in J!Finished : \E i \in 1 .. Len(order) : order[i] = r
  BY <1>1 DEF JobsListing
<1>7. ASSUME NEW i \in DOMAIN order', NEW j \in DOMAIN order', order'[i] = order'[j]
      PROVE  i = j
  <2>1. n + i = n + j
    <3>1. i \in 1 .. Len(order) - n /\ j \in 1 .. Len(order) - n
      BY <1>4
    <3>2. order'[i] = order[n + i] /\ order'[j] = order[n + j]
      BY <1>3, <3>1
    <3>3. n + i \in 1 .. Len(order) /\ n + j \in 1 .. Len(order)
      BY <1>5, <3>1
    <3> HIDE DEF J!Prune
    <3> QED
      BY <1>6, <1>7, <3>2, <3>3
  <2> QED
    BY <1>1, <1>4, <2>1
<1>8. ASSUME NEW i \in DOMAIN order' PROVE order'[i] \in J!Finished \ J!Pruned(n)
  <2>1. order'[i] = order[n + i] /\ n + i \in 1 .. Len(order) /\ n + i \notin 1 .. n
    BY <1>3, <1>4, <1>5
  <2>2. \A k \in 1 .. n : k \in 1 .. Len(order)
    BY <1>1
  <2> QED
    BY <1>6, <2>1, <2>2 DEF J!Pruned
<1>9. ASSUME NEW r \in J!Finished \ J!Pruned(n) PROVE \E i \in DOMAIN order' : order'[i] = r
  <2>1. PICK k \in 1 .. Len(order) : order[k] = r
    BY <1>6
  <2>2. k \notin 1 .. n
    BY <2>1 DEF J!Pruned
  <2>3. k - n \in 1 .. Len(order) - n /\ n + (k - n) = k
    BY <1>1, <2>2
  <2> QED
    BY <1>3, <1>4, <2>1, <2>3
<1>10. J!Pruned(n) \subseteq J!Finished
  <2>1. \A k \in 1 .. n : k \in 1 .. Len(order)
    BY <1>1
  <2> QED
    BY <1>6, <2>1 DEF J!Pruned
<1>11. IsFiniteSet(J!Pruned(n)) /\ Cardinality(J!Pruned(n)) = n
  BY <1>1, <1>6, JobsPrefix DEF J!Pruned
<1> QED
  BY <1>3, <1>7, <1>8, <1>9, <1>10, <1>11

\* Only the request r moves.
LEMMA JobsRequesting ==
  ASSUME JobsInv, NEW r \in Request, NEW x \in JobsRow, req' = [req EXCEPT ![r] = x],
         UNCHANGED <<jobs, order, slots, pool, worked>>,
         x.pc \in {"idle", "submit"} => req[r].pc = "idle",
         x.pc # "done" => req[r].pc # "done"
  PROVE  /\ JobsSingle' /\ JobsListing' /\ JobsEarly' /\ JobsCounted'
         /\ req' \in [Request -> JobsRow]
         /\ \A q \in Request \ {r} : q \in JobsHolders' <=> q \in JobsHolders
         /\ r \in JobsHolders' <=> JobsHolding(r, x.pc)
<1>1. req \in [Request -> JobsRow]
  BY DEF JobsInv, JobsTyped
<1>2. J!Queued' = J!Queued /\ pool' = pool /\ \A q : J!Pending(q)' <=> J!Pending(q)
  BY DEF J!Queued, J!Pending
<1>3. J!Listed' = J!Listed /\ J!Finished' = J!Finished /\ JobsPending' = JobsPending
  BY <1>2 DEF J!Listed, J!Finished, JobsPending
<1>4. JobsSingle' /\ JobsListing' /\ JobsCounted'
  BY <1>2, <1>3 DEF JobsInv, JobsSingle, JobsListing, JobsCounted
<1>5. req'[r] = x /\ \A q \in Request \ {r} : req'[q] = req[q]
  BY <1>1
<1>6. JobsEarly'
  BY <1>2, <1>5 DEF JobsInv, JobsEarly
<1>7. \A q \in Request :
         /\ q \in JobsHolders <=> JobsHolding(q, req[q].pc)
         /\ q \in JobsHolders' <=> JobsHolding(q, req'[q].pc)
  <2>1. \A q : J!Pending(q)' /\ q \notin worked' <=> J!Pending(q) /\ q \notin worked
    BY <1>2
  <2> QED
    BY <2>1 DEF JobsHolders, JobsHolding, J!At
<1>8. \A q \in Request \ {r} : q \in JobsHolders' <=> q \in JobsHolders
  BY <1>5, <1>7
<1>9. r \in JobsHolders' <=> JobsHolding(r, x.pc)
  BY <1>5, <1>7
<1> QED
  BY <1>1, <1>4, <1>6, <1>8, <1>9

LEMMA JobsFiniteRequests ==
  ASSUME JobsSized, NEW C \in SUBSET Request
  PROVE  IsFiniteSet(C) /\ Cardinality(C) \in Nat
  BY FS_Subset, FS_CardinalityType DEF JobsSized

\* The lock and its holders when those of r change.
LEMMA JobsLocking ==
  ASSUME JobsInv, NEW r \in Request,
         \A q \in Request \ {r} : q \in JobsHolders' <=> q \in JobsHolders,
         \/ /\ cveLock' = cveLock
            /\ r \in JobsHolders' <=> r \in JobsHolders
         \/ r \in JobsHolders /\ r \notin JobsHolders' /\ ~cveLock'
         \/ ~cveLock /\ r \in JobsHolders' /\ cveLock'
  PROVE  JobsChecked'
<1>1. JobsHolders \subseteq Request /\ JobsHolders' \subseteq Request
  BY DEF JobsHolders
<1>2. JobsChecked
  BY DEF JobsInv
<1>3. CASE cveLock' = cveLock /\ (r \in JobsHolders' <=> r \in JobsHolders)
  <2>1. JobsHolders' = JobsHolders
    BY <1>1, <1>3
  <2> QED
    BY <1>2, <1>3, <2>1 DEF JobsChecked
<1>4. CASE r \in JobsHolders /\ r \notin JobsHolders' /\ ~cveLock'
  <2>1. JobsHolders' = {}
    BY <1>1, <1>2, <1>4 DEF JobsChecked
  <2> QED
    BY <1>4, <2>1 DEF JobsChecked
<1>5. CASE ~cveLock /\ r \in JobsHolders' /\ cveLock'
  <2>1. JobsHolders' = {r}
    BY <1>1, <1>2, <1>5 DEF JobsChecked
  <2> QED
    BY <1>5, <2>1 DEF JobsChecked
<1> QED
  BY <1>3, <1>4, <1>5

\* An answer, or a step of a handler.
LEMMA JobsMoves ==
  ASSUME JobsTyped, NEW r \in Request
  PROVE  /\ \A pc \in JobsPcs : J!Go(r, pc) =>
              \E x \in JobsRow : req' = [req EXCEPT ![r] = x] /\ x.pc = pc
         /\ \A a \in JobsReplies : J!Answer(r, a) =>
              \E x \in JobsRow : req' = [req EXCEPT ![r] = x] /\ x.pc = "done"
<1>1. req \in [Request -> JobsRow] /\ req[r] \in JobsRow
  BY DEF JobsTyped
<1>2. ASSUME NEW pc \in JobsPcs, J!Go(r, pc)
      PROVE  \E x \in JobsRow : req' = [req EXCEPT ![r] = x] /\ x.pc = pc
  <2> DEFINE x == [req[r] EXCEPT !.pc = pc]
  <2>1. x \in JobsRow /\ x.pc = pc
    BY <1>1 DEF JobsRow
  <2>2. req' = [req EXCEPT ![r] = x]
    BY <1>2 DEF J!Go
  <2> HIDE DEF x
  <2> QED
    BY <2>1, <2>2
<1>3. ASSUME NEW a \in JobsReplies, J!Answer(r, a)
      PROVE  \E x \in JobsRow : req' = [req EXCEPT ![r] = x] /\ x.pc = "done"
  <2> DEFINE x == [pc |-> "done", reply |-> a]
  <2>1. x \in JobsRow /\ x.pc = "done"
    BY DEF JobsRow, JobsPcs
  <2>2. req' = [req EXCEPT ![r] = x]
    BY <1>3 DEF J!Answer
  <2> HIDE DEF x
  <2> QED
    BY <2>1, <2>2
<1> QED
  BY <1>2, <1>3

\* The table after a pruning, with r at work in it.
LEMMA JobsTabling ==
  ASSUME JobsSized, JobsInv, NEW r \in Request, jobs[r] = "none", slots > 0,
         ~J!Pending(r), \A q \in Request : J!Pending(q)' <=> J!Pending(q) \/ q = r,
         NEW n \in 0 .. Len(order), J!Prune(n),
         jobs' = [q \in Request |-> IF q = r THEN "running"
                                    ELSE IF q \in J!Pruned(n) THEN "none" ELSE jobs[q]],
         slots' = slots - 1
  PROVE  JobsCounted' /\ JobsListing' /\ jobs' \in [Request -> JobsStatuses]
<1>0. JobsTyped /\ JobsListing /\ JobsCounted /\ JobsEarly /\ jobs \in [Request -> JobsStatuses] /\ slots \in 0 .. Slots
  BY DEF JobsInv, JobsTyped
<1>1. /\ order' \in Seq(Request)
      /\ \A i, j \in DOMAIN order' : order'[i] = order'[j] => i = j
      /\ \A i \in DOMAIN order' : order'[i] \in J!Finished \ J!Pruned(n)
      /\ \A q \in J!Finished \ J!Pruned(n) : \E i \in DOMAIN order' : order'[i] = q
      /\ J!Pruned(n) \subseteq J!Finished
      /\ IsFiniteSet(J!Pruned(n)) /\ Cardinality(J!Pruned(n)) = n
  BY <1>0, JobsPruning
<1>2. \A q \in Request : jobs'[q] = IF q = r THEN "running"
                                    ELSE IF q \in J!Pruned(n) THEN "none" ELSE jobs[q]
  OBVIOUS
<1>3. r \notin J!Finished /\ r \notin J!Listed /\ r \notin JobsPending
  BY DEF J!Finished, J!Listed, JobsPending
<1>4. J!Finished' = J!Finished \ J!Pruned(n)
  BY <1>2, <1>3 DEF J!Finished
<1>5. JobsListing'
  BY <1>1, <1>4 DEF JobsListing
<1>6. JobsPending' = JobsPending \cup {r} /\ JobsRunning \subseteq JobsPending
  BY <1>0 DEF JobsPending, JobsRunning, JobsEarly
<1>7. J!Listed' = (J!Listed \ J!Pruned(n)) \cup {r}
  BY <1>2 DEF J!Listed
<1>8. /\ IsFiniteSet(J!Listed) /\ Cardinality(J!Listed) \in Nat
      /\ IsFiniteSet(JobsPending) /\ Cardinality(JobsPending) \in Nat
  BY JobsFiniteRequests DEF J!Listed, JobsPending
<1>9. Cardinality(JobsPending') = Cardinality(JobsPending) + 1
  BY <1>3, <1>6, <1>8, FS_AddElement
<1>10. Slots - slots' = Cardinality(JobsPending')
  BY <1>0, <1>8, <1>9 DEF JobsCounted, JobsSized
<1>11. Cardinality(J!Listed') <= KeepJobs + 1
  <2>1. Len(order) \in Nat
    BY <1>0 DEF JobsTyped
  <2>2. CASE n = Len(order)
    <3>1. J!Listed' \subseteq JobsPending'
      <4>1. J!Finished \subseteq J!Pruned(n)
        <5>1. DOMAIN order = 1 .. n
          BY <1>0, <2>2 DEF JobsTyped
        <5>2. \A q \in J!Finished : \E i \in DOMAIN order : order[i] = q
          BY <1>0 DEF JobsListing
        <5> QED
          BY <5>1, <5>2 DEF J!Pruned
      <4>2. \A q \in J!Listed : q \in JobsRunning \/ q \in J!Finished
        <5>1. \A q \in Request : jobs[q] \in {"none", "running", "done", "error"}
          BY <1>0 DEF JobsStatuses
        <5> QED
          BY <5>1 DEF J!Listed, JobsRunning, J!Finished
      <4> QED
        BY <1>6, <1>7, <4>1, <4>2
    <3>2. IsFiniteSet(JobsPending') /\ Cardinality(JobsPending') \in Nat
      BY <1>6, <1>8, <1>9, FS_AddElement
    <3>3. IsFiniteSet(J!Listed') /\ Cardinality(J!Listed') \in Nat
          /\ Cardinality(J!Listed') <= Cardinality(JobsPending')
      BY <3>1, <3>2, FS_Subset, FS_CardinalityType
    <3>4. Cardinality(JobsPending') <= Slots
      BY <1>0, <1>10, <3>2 DEF JobsSized
    <3> QED
      BY <3>2, <3>3, <3>4 DEF JobsSized
  <2>3. CASE n # Len(order)
    <3>1. n >= J!Excess
      BY <2>3 DEF J!Prune
    <3>2. J!Pruned(n) \subseteq J!Listed
      BY <1>1 DEF J!Finished, J!Listed
    <3>3. /\ IsFiniteSet(J!Listed \ J!Pruned(n))
          /\ Cardinality(J!Listed \ J!Pruned(n)) = Cardinality(J!Listed) - n
      <4>1. J!Listed \cap J!Pruned(n) = J!Pruned(n)
        BY <3>2
      <4>2. /\ IsFiniteSet(J!Listed \ J!Pruned(n))
            /\ Cardinality(J!Listed \ J!Pruned(n))
                 = Cardinality(J!Listed) - Cardinality(J!Listed \cap J!Pruned(n))
        BY <1>8, FS_Difference
      <4>3. Cardinality(J!Listed \cap J!Pruned(n)) = n
        BY <1>1, <4>1
      <4> QED
        BY <4>2, <4>3
    <3>4. r \notin J!Listed \ J!Pruned(n)
      BY <1>3
    <3>5. Cardinality(J!Listed') = Cardinality(J!Listed) - n + 1
      BY <1>7, <3>3, <3>4, FS_AddElement
    <3>6. Cardinality(J!Listed) - n <= KeepJobs
      BY <1>8, <2>1, <3>1, JobsCount DEF J!Excess, JobsSized
    <3> QED
      BY <1>8, <2>1, <3>5, <3>6 DEF JobsSized
  <2> QED
    BY <2>2, <2>3
<1>12. jobs' \in [Request -> JobsStatuses]
  BY <1>0 DEF JobsStatuses
<1> QED
  BY <1>5, <1>10, <1>11, <1>12 DEF JobsCounted

\* A pool that changes in what it holds of one task.
LEMMA JobsHeldJobs ==
  /\ \A q : J!Pending(q) <=> J!Job(q) \in JobsHeld
  /\ \A q : J!Pending(q)' <=> J!Job(q) \in JobsHeld'
  BY DEF J!Pending, JobsHeld

LEMMA JobsNextInv ==
  ASSUME JobsSized, JobsInv, [J!Next]_jobVars
  PROVE  JobsInv'
<1>0. /\ JobsTyped /\ JobsSingle /\ JobsListing /\ JobsEarly /\ JobsCounted /\ JobsChecked
      /\ req \in [Request -> JobsRow] /\ jobs \in [Request -> JobsStatuses]
      /\ slots \in 0 .. Slots /\ cveLock \in BOOLEAN /\ refusals \in 0 .. MaxFaults
  BY DEF JobsInv, JobsTyped
<1>1. /\ {"idle", "submit", "watch", "poll", "done"} \subseteq JobsPcs
      /\ {"none", "job", "result", "error", "busy", "full", "late"} \subseteq JobsReplies
  BY DEF JobsPcs, JobsReplies
<1>2. ASSUME NEW r \in Request, J!Arrive(r) PROVE JobsInv'
  <2>1. J!At(r, "idle") /\ UNCHANGED <<jobs, order, slots, pool, worked, alert, refusals>>
    BY <1>2 DEF J!Arrive
  <2>2. ~J!Pending(r) /\ r \notin JobsHolders
    BY <1>0, <2>1 DEF JobsEarly, J!At, JobsHolders
  <2>3. PICK x \in JobsRow : /\ req' = [req EXCEPT ![r] = x]
                             /\ \/ x.pc = "submit" /\ Kind[r] # "cve" /\ cveLock' = cveLock
                                \/ x.pc = "done" /\ cveLock' = cveLock
                                \/ x.pc = "submit" /\ Kind[r] = "cve" /\ ~cveLock /\ cveLock' = TRUE
    <3>0. "submit" \in JobsPcs /\ "busy" \in JobsReplies
      BY <1>1
    <3>1. CASE Kind[r] # "cve"
      BY <1>0, <1>2, <3>0, <3>1, JobsMoves DEF J!Arrive
    <3>2. CASE Kind[r] = "cve" /\ cveLock
      <4>1. J!Answer(r, "busy") /\ cveLock' = cveLock
        BY <1>2, <3>2 DEF J!Arrive
      <4>2. PICK x \in JobsRow : req' = [req EXCEPT ![r] = x] /\ x.pc = "done"
        BY <1>0, <3>0, <4>1, JobsMoves
      <4> QED
        BY <4>1, <4>2
    <3>3. CASE Kind[r] = "cve" /\ ~cveLock
      <4>1. J!Go(r, "submit") /\ cveLock' = TRUE
        BY <1>2, <3>3 DEF J!Arrive
      <4>2. PICK x \in JobsRow : req' = [req EXCEPT ![r] = x] /\ x.pc = "submit"
        BY <1>0, <3>0, <4>1, JobsMoves
      <4> QED
        BY <3>3, <4>1, <4>2
    <3> QED
      BY <3>1, <3>2, <3>3
  <2>4. /\ JobsSingle' /\ JobsListing' /\ JobsEarly' /\ JobsCounted'
        /\ req' \in [Request -> JobsRow]
        /\ \A q \in Request \ {r} : q \in JobsHolders' <=> q \in JobsHolders
        /\ r \in JobsHolders' <=> JobsHolding(r, x.pc)
    <3>1. x.pc \in {"idle", "submit"} => req[r].pc = "idle"
      BY <2>1 DEF J!At
    <3>2. x.pc # "done" => req[r].pc # "done"
      BY <2>1 DEF J!At
    <3> QED
      BY <2>1, <2>3, <3>1, <3>2, JobsRequesting
  <2>5. JobsChecked'
    BY <2>2, <2>3, <2>4, JobsLocking DEF JobsHolding
  <2>6. JobsTyped'
    BY <1>0, <2>1, <2>3, <2>4 DEF JobsTyped
  <2> QED
    BY <2>4, <2>5, <2>6 DEF JobsInv
<1>3. ASSUME NEW r \in Request, J!Submit(r) PROVE JobsInv'
  <2>1. /\ J!At(r, "submit") /\ slots > 0 /\ slots' = slots - 1 /\ pool' = J!Put(J!Job(r))
        /\ UNCHANGED <<worked, cveLock, alert, refusals>>
    BY <1>3 DEF J!Submit
  <2>2. PICK n \in 0 .. Len(order) :
          /\ J!Prune(n)
          /\ jobs' = [q \in Request |-> IF q = r THEN "running"
                                        ELSE IF q \in J!Pruned(n) THEN "none" ELSE jobs[q]]
    BY <1>3 DEF J!Submit
  <2>3. PICK x \in JobsRow : req' = [req EXCEPT ![r] = x] /\ x.pc \in {"done", "watch", "poll"}
    <3>1. CASE Kind[r] \in {"async", "cve"}
      BY <1>0, <1>1, <1>3, <3>1, JobsMoves DEF J!Submit
    <3>2. CASE Kind[r] \notin {"async", "cve"}
      BY <1>0, <1>1, <1>3, <3>2, JobsMoves DEF J!Submit
    <3> QED
      BY <3>1, <3>2
  <2>4. jobs[r] = "none" /\ ~J!Pending(r) /\ J!Watcher(r) \notin JobsHeld
    BY <1>0, <2>1 DEF JobsEarly, J!At, JobsHeld
  <2>5. J!Job(r) \in J!Tasks /\ J!Job(r) \notin JobsHeld
    BY <2>4, JobsTaskFacts, JobsHeldJobs
  <2>6. /\ pool' \in [queue : Seq(J!Tasks), busy : SUBSET J!Tasks]
        /\ JobsSingle' /\ JobsHeld' = JobsHeld \cup {J!Job(r)} /\ pool'.busy = pool.busy
    BY <1>0, <2>1, <2>5, JobsPutting
  <2>7. /\ \A q : J!Pending(q)' <=> J!Pending(q) \/ q = r
        /\ \A q : J!Watcher(q) \in JobsHeld' <=> J!Watcher(q) \in JobsHeld
    BY <2>6, JobsHeldJobs, JobsTaskFacts
  <2>8. JobsCounted' /\ JobsListing' /\ jobs' \in [Request -> JobsStatuses]
    BY <2>1, <2>2, <2>4, <2>7, JobsTabling
  <2>9. /\ req'[r] = x /\ \A q \in Request \ {r} : req'[q] = req[q]
        /\ req' \in [Request -> JobsRow]
    BY <1>0, <2>3
  <2>10. JobsEarly'
    <3>1. order' \in Seq(Request) /\ J!Pruned(n) \subseteq J!Finished
      BY <1>0, <2>2, JobsPruning
    <3>2. \A q \in Request \ {r} : \/ jobs'[q] = jobs[q]
                                   \/ jobs'[q] = "none" /\ jobs[q] # "running"
      BY <2>2, <3>1 DEF J!Finished
    <3>3. jobs'[r] = "running"
      BY <2>2
    <3> QED
      BY <1>0, <2>3, <2>1, <2>4, <2>7, <2>9, <3>2, <3>3 DEF JobsEarly, JobsHeld
  <2>11. JobsChecked'
    <3>1. \A q \in Request \ {r} : q \in JobsHolders' <=> q \in JobsHolders
      BY <2>1, <2>7, <2>9 DEF JobsHolders, J!At
    <3>2. r \in JobsHolders' <=> r \in JobsHolders
      BY <1>0, <2>1, <2>7 DEF JobsHolders, J!At, JobsEarly
    <3> QED
      BY <2>1, <3>1, <3>2, JobsLocking
  <2>12. JobsTyped'
    <3>1. order' \in Seq(Request)
      BY <1>0, <2>2, JobsPruning
    <3>2. slots' \in 0 .. Slots
      BY <1>0, <2>1 DEF JobsSized
    <3> QED
      BY <1>0, <2>1, <2>6, <2>8, <2>9, <3>1, <3>2 DEF JobsTyped
  <2> QED
    BY <2>6, <2>8, <2>10, <2>11, <2>12 DEF JobsInv
\* The lock goes with the request that is not submitted, or with the job.
<1>4. ASSUME NEW r \in Request, r \in JobsHolders \/ Kind[r] # "cve", r \notin JobsHolders',
             \A q \in Request \ {r} : q \in JobsHolders' <=> q \in JobsHolders, cveLock' = J!CveHeld(r)
      PROVE  JobsChecked'
  <2>1. CASE Kind[r] = "cve"
    BY <1>4, <2>1, JobsLocking DEF J!CveHeld
  <2>2. CASE Kind[r] # "cve"
    <3>1. r \notin JobsHolders /\ cveLock' = cveLock
      BY <1>0, <1>4, <2>2 DEF JobsHolders, J!CveHeld
    <3> QED
      BY <1>4, <3>1, JobsLocking
  <2> QED
    BY <2>1, <2>2
<1>5. ASSUME NEW r \in Request, J!NotSubmitted(r) PROVE JobsInv'
  <2>1. /\ J!At(r, "submit") /\ cveLock' = J!CveHeld(r) /\ UNCHANGED <<slots, pool, worked, alert>>
    BY <1>5 DEF J!NotSubmitted
  <2>2. jobs[r] = "none" /\ ~J!Pending(r) /\ (r \in JobsHolders \/ Kind[r] # "cve")
    BY <1>0, <2>1 DEF JobsEarly, J!At, JobsHolders
  <2>3. PICK x \in JobsRow : req' = [req EXCEPT ![r] = x] /\ x.pc = "done"
    BY <1>0, <1>1, <1>5, JobsMoves DEF J!NotSubmitted
  <2>4. cveLock' \in BOOLEAN
    BY <1>0, <2>1 DEF J!CveHeld
  <2>5. CASE UNCHANGED <<jobs, order, refusals>>
    <3>1. /\ JobsSingle' /\ JobsListing' /\ JobsEarly' /\ JobsCounted'
          /\ req' \in [Request -> JobsRow]
          /\ \A q \in Request \ {r} : q \in JobsHolders' <=> q \in JobsHolders
          /\ r \in JobsHolders' <=> JobsHolding(r, x.pc)
      BY <2>1, <2>3, <2>5, JobsRequesting DEF J!At
    <3>2. JobsChecked'
      BY <1>4, <2>1, <2>2, <2>3, <3>1 DEF JobsHolding
    <3> QED
      BY <1>0, <2>1, <2>4, <2>5, <3>1, <3>2 DEF JobsInv, JobsTyped
  <2>6. CASE /\ refusals < MaxFaults /\ refusals' = refusals + 1
             /\ \E n \in 0 .. Len(order) :
                  /\ J!Prune(n)
                  /\ jobs' = [q \in Request |-> IF q \in J!Pruned(n) THEN "none" ELSE jobs[q]]
    <3>1. PICK n \in 0 .. Len(order) :
                  /\ J!Prune(n)
                  /\ jobs' = [q \in Request |-> IF q \in J!Pruned(n) THEN "none" ELSE jobs[q]]
      BY <2>6
    <3>2. /\ order' \in Seq(Request)
          /\ \A i, j \in DOMAIN order' : order'[i] = order'[j] => i = j
          /\ \A i \in DOMAIN order' : order'[i] \in J!Finished \ J!Pruned(n)
          /\ \A q \in J!Finished \ J!Pruned(n) : \E i \in DOMAIN order' : order'[i] = q
          /\ J!Pruned(n) \subseteq J!Finished
      BY <1>0, <3>1, JobsPruning
    <3>3. \A q \in Request : jobs'[q] = IF q \in J!Pruned(n) THEN "none" ELSE jobs[q]
      BY <3>1
    <3>4. jobs' \in [Request -> JobsStatuses]
      BY <1>0, <3>1 DEF JobsStatuses
    <3>5. /\ J!Finished' = J!Finished \ J!Pruned(n) /\ J!Listed' \subseteq J!Listed
          /\ JobsPending' = JobsPending
      BY <2>1, <3>2, <3>3 DEF J!Finished, JobsPending, J!Listed, J!Pending, J!Queued
    <3>6. JobsListing'
      BY <3>2, <3>5 DEF JobsListing
    <3>7. JobsCounted'
      <4>1. IsFiniteSet(J!Listed) /\ Cardinality(J!Listed) \in Nat
            /\ IsFiniteSet(J!Listed') /\ Cardinality(J!Listed') \in Nat
        BY JobsFiniteRequests DEF J!Listed
      <4>2. Cardinality(J!Listed') <= Cardinality(J!Listed)
        BY <3>5, <4>1, FS_Subset
      <4> QED
        BY <1>0, <2>1, <3>5, <4>1, <4>2 DEF JobsCounted, JobsSized
    <3>8. JobsSingle' /\ J!Queued' = J!Queued /\ \A q : J!Pending(q)' <=> J!Pending(q)
      BY <1>0, <2>1 DEF JobsSingle, J!Queued, J!Pending
    <3>9. /\ req'[r] = x /\ \A q \in Request \ {r} : req'[q] = req[q]
          /\ req' \in [Request -> JobsRow]
      BY <1>0, <2>3
    <3>10. JobsEarly'
      <4>1. \A q \in Request : \/ jobs'[q] = jobs[q]
                               \/ jobs'[q] = "none" /\ jobs[q] # "running"
        BY <3>2, <3>3 DEF J!Finished
      <4> QED
        BY <1>0, <2>1, <2>3, <3>8, <3>9, <4>1 DEF JobsEarly
    <3>11. JobsChecked'
      <4>1. r \notin JobsHolders'
        BY <2>2, <2>3, <3>8, <3>9 DEF JobsHolders, J!At
      <4>2. \A q \in Request \ {r} : q \in JobsHolders' <=> q \in JobsHolders
        BY <2>1, <3>8, <3>9 DEF JobsHolders, J!At
      <4> QED
        BY <1>4, <2>1, <2>2, <4>1, <4>2
    <3>12. refusals' \in 0 .. MaxFaults
      BY <1>0, <2>6 DEF JobsSized
    <3> QED
      BY <1>0, <2>1, <2>4, <3>2, <3>4, <3>6, <3>7, <3>8, <3>9, <3>10, <3>11, <3>12
         DEF JobsInv, JobsTyped
  <2> QED
    BY <1>5, <2>5, <2>6 DEF J!NotSubmitted
<1>6. ASSUME NEW r \in Request, J!Watch(r) PROVE JobsInv'
  <2>1. J!At(r, "watch") /\ UNCHANGED <<jobs, order, slots, worked, cveLock, alert>>
    BY <1>6 DEF J!Watch
  <2>2. PICK x \in JobsRow : req' = [req EXCEPT ![r] = x] /\ x.pc = "done"
    BY <1>0, <1>1, <1>6, JobsMoves DEF J!Watch
  <2>3. CASE pool' = pool /\ refusals < MaxFaults /\ refusals' = refusals + 1
    <3>1. /\ JobsSingle' /\ JobsListing' /\ JobsEarly' /\ JobsCounted'
          /\ req' \in [Request -> JobsRow]
          /\ \A q \in Request \ {r} : q \in JobsHolders' <=> q \in JobsHolders
          /\ r \in JobsHolders' <=> JobsHolding(r, x.pc)
      BY <2>1, <2>2, <2>3, JobsRequesting DEF J!At
    <3>2. r \in JobsHolders <=> Kind[r] = "cve" /\ J!Pending(r) /\ r \notin worked
      BY <2>1 DEF JobsHolders, J!At
    <3>3. JobsChecked'
      BY <2>1, <2>2, <3>1, <3>2, JobsLocking DEF JobsHolding
    <3>4. refusals' \in 0 .. MaxFaults
      BY <1>0, <2>3 DEF JobsSized
    <3> QED
      BY <1>0, <2>1, <2>3, <3>1, <3>3, <3>4 DEF JobsInv, JobsTyped
  <2>4. CASE pool' = J!Put(J!Watcher(r)) /\ refusals' = refusals
    <3>1. J!Watcher(r) \in J!Tasks /\ J!Watcher(r) \notin JobsHeld
      BY <1>0, <2>1, JobsTaskFacts DEF JobsEarly, J!At, JobsHeld
    <3>2. /\ pool' \in [queue : Seq(J!Tasks), busy : SUBSET J!Tasks]
          /\ JobsSingle' /\ JobsHeld' = JobsHeld \cup {J!Watcher(r)} /\ pool'.busy = pool.busy
      BY <1>0, <2>4, <3>1, JobsPutting
    <3>3. /\ \A q : J!Pending(q)' <=> J!Pending(q)
          /\ \A q : J!Watcher(q) \in JobsHeld' <=> J!Watcher(q) \in JobsHeld \/ q = r
      BY <3>2, JobsHeldJobs, JobsTaskFacts
    <3>4. /\ req'[r] = x /\ \A q \in Request \ {r} : req'[q] = req[q]
          /\ req' \in [Request -> JobsRow]
      BY <1>0, <2>2
    <3>5. JobsEarly'
      BY <1>0, <2>1, <2>2, <3>3, <3>4 DEF JobsEarly, JobsHeld
    <3>6. J!Listed' = J!Listed /\ J!Finished' = J!Finished /\ JobsPending' = JobsPending
      BY <2>1, <3>3 DEF J!Listed, J!Finished, JobsPending
    <3>7. JobsListing' /\ JobsCounted'
      BY <1>0, <2>1, <3>6 DEF JobsListing, JobsCounted
    <3>8. JobsHolders' = JobsHolders
      BY <2>1, <2>2, <3>3, <3>4 DEF JobsHolders, J!At
    <3>9. JobsChecked'
      BY <1>0, <2>1, <3>8 DEF JobsChecked
    <3> QED
      BY <1>0, <2>1, <2>4, <3>2, <3>4, <3>5, <3>7, <3>9 DEF JobsInv, JobsTyped
  <2> QED
    BY <1>6, <2>3, <2>4 DEF J!Watch
<1>7. ASSUME NEW r \in Request, J!Poll(r) \/ J!PollDeadline(r) PROVE JobsInv'
  <2>1. /\ J!At(r, "poll")
        /\ UNCHANGED <<jobs, order, slots, pool, worked, cveLock, alert, refusals>>
    BY <1>7 DEF J!Poll, J!PollDeadline
  <2>2. PICK x \in JobsRow : req' = [req EXCEPT ![r] = x] /\ x.pc = "done"
    <3>1. PICK a \in JobsReplies : J!Answer(r, a)
      BY <1>1, <1>7 DEF J!Poll, J!PollDeadline
    <3> QED
      BY <1>0, <3>1, JobsMoves
  <2>3. /\ JobsSingle' /\ JobsListing' /\ JobsEarly' /\ JobsCounted'
        /\ req' \in [Request -> JobsRow]
        /\ \A q \in Request \ {r} : q \in JobsHolders' <=> q \in JobsHolders
        /\ r \in JobsHolders' <=> JobsHolding(r, x.pc)
    BY <2>1, <2>2, JobsRequesting DEF J!At
  <2>4. r \in JobsHolders <=> Kind[r] = "cve" /\ J!Pending(r) /\ r \notin worked
    BY <2>1 DEF JobsHolders, J!At
  <2>5. JobsChecked'
    BY <2>1, <2>2, <2>3, <2>4, JobsLocking DEF JobsHolding
  <2> QED
    BY <1>0, <2>1, <2>3, <2>5 DEF JobsInv, JobsTyped
\* The pool: what it holds is the same, or less one task.
<1>8. ASSUME J!Take PROVE JobsInv'
  <2>1. UNCHANGED <<req, jobs, order, slots, worked, cveLock, alert, refusals>>
    BY <1>8 DEF J!Take
  <2>2. /\ pool' \in [queue : Seq(J!Tasks), busy : SUBSET J!Tasks]
        /\ JobsSingle' /\ JobsHeld' = JobsHeld /\ Cardinality(pool'.busy) <= Workers
    BY <1>0, <1>8, JobsTaking
  <2>3. \A q : J!Pending(q)' <=> J!Pending(q)
    BY <2>2, JobsHeldJobs
  <2>4. JobsEarly'
    BY <1>0, <2>1, <2>2, <2>3 DEF JobsEarly, JobsHeld
  <2>5. /\ J!Listed' = J!Listed /\ J!Finished' = J!Finished /\ JobsPending' = JobsPending
        /\ JobsHolders' = JobsHolders
    BY <2>1, <2>3 DEF J!Listed, J!Finished, JobsPending, JobsHolders, J!At
  <2>6. JobsListing' /\ JobsCounted' /\ JobsChecked'
    BY <1>0, <2>1, <2>5 DEF JobsListing, JobsCounted, JobsChecked
  <2> QED
    BY <1>0, <2>1, <2>2, <2>4, <2>6 DEF JobsInv, JobsTyped
\* The work ends: the lock goes, if it is held.
<1>9. ASSUME NEW r \in Request, J!JobWorks(r) PROVE JobsInv'
  <2>1. /\ J!Pending(r) /\ r \notin worked /\ worked' = worked \cup {r}
        /\ cveLock' = J!CveHeld(r)
        /\ UNCHANGED <<req, jobs, order, slots, pool, alert, refusals>>
    BY <1>9 DEF J!JobWorks, J!Pending
  <2>2. /\ JobsHeld' = JobsHeld /\ J!Queued' = J!Queued
        /\ \A q : J!Pending(q)' <=> J!Pending(q)
    BY <2>1 DEF JobsHeld, J!Queued, J!Pending
  <2>3. /\ J!Listed' = J!Listed /\ J!Finished' = J!Finished /\ JobsPending' = JobsPending
    BY <2>1, <2>2 DEF J!Listed, J!Finished, JobsPending
  <2>4. JobsSingle' /\ JobsListing' /\ JobsCounted'
    BY <1>0, <2>1, <2>3 DEF JobsSingle, JobsListing, JobsCounted
  <2>5. JobsEarly'
    BY <1>0, <2>1, <2>2 DEF JobsEarly
  <2>6. JobsChecked'
    <3>1. r \in JobsHolders \/ Kind[r] # "cve"
      BY <2>1 DEF JobsHolders
    <3>2. r \notin JobsHolders'
      BY <1>0, <2>1 DEF JobsHolders, J!At, JobsEarly
    <3>3. \A q \in Request \ {r} : q \in JobsHolders' <=> q \in JobsHolders
      BY <2>1, <2>2 DEF JobsHolders, J!At
    <3> QED
      BY <1>4, <2>1, <3>1, <3>2, <3>3
  <2>7. JobsTyped'
    BY <1>0, <2>1 DEF JobsTyped, J!CveHeld
  <2> QED
    BY <2>4, <2>5, <2>6, <2>7 DEF JobsInv
\* The entry is changed: the job is one of the finished ones.
<1>10. ASSUME NEW r \in Request, J!JobTells(r) PROVE JobsInv'
  <2>1. /\ r \in worked /\ jobs[r] = "running" /\ order' = Append(order, r)
        /\ UNCHANGED <<req, slots, pool, worked, cveLock, alert, refusals>>
    BY <1>10 DEF J!JobTells
  <2>2. PICK s \in {"done", "error"} : jobs' = [jobs EXCEPT ![r] = s]
    BY <1>10 DEF J!JobTells
  <2>3. /\ jobs' \in [Request -> JobsStatuses] /\ jobs'[r] = s
        /\ \A q \in Request \ {r} : jobs'[q] = jobs[q]
    <3>1. s \in JobsStatuses
      BY <2>2 DEF JobsStatuses
    <3> QED
      BY <1>0, <2>2, <3>1
  <2>4. /\ J!Finished' = J!Finished \cup {r} /\ r \notin J!Finished /\ J!Listed' = J!Listed
    BY <2>1, <2>2, <2>3 DEF J!Finished, J!Listed
  <2>5. JobsListing'
    <3>1. /\ order \in Seq(Request) /\ Len(order) \in Nat /\ DOMAIN order = 1 .. Len(order)
          /\ DOMAIN order' = 1 .. Len(order) + 1 /\ order'[Len(order) + 1] = r
          /\ \A i \in 1 .. Len(order) : order'[i] = order[i]
      BY <1>0, <2>1 DEF JobsTyped
    <3>2. /\ \A i, j \in 1 .. Len(order) : order[i] = order[j] => i = j
          /\ \A i \in 1 .. Len(order) : order[i] \in J!Finished
          /\ \A q \in J!Finished : \E i \in 1 .. Len(order) : order[i] = q
      BY <1>0, <3>1 DEF JobsListing
    <3>3. \A i \in DOMAIN order' : i \in 1 .. Len(order) \/ i = Len(order) + 1
      BY <3>1
    <3>4. \A i, j \in DOMAIN order' : order'[i] = order'[j] => i = j
      BY <2>4, <3>1, <3>2, <3>3
    <3>5. \A i \in DOMAIN order' : order'[i] \in J!Finished'
      BY <2>4, <3>1, <3>2, <3>3
    <3>6. \A q \in J!Finished' : \E i \in DOMAIN order' : order'[i] = q
      <4>1. /\ \A i \in 1 .. Len(order) : i \in DOMAIN order'
            /\ Len(order) + 1 \in DOMAIN order'
        BY <3>1
      <4> QED
        BY <2>4, <3>1, <3>2, <4>1
    <3> QED
      BY <3>4, <3>5, <3>6 DEF JobsListing
  <2>6. /\ JobsHeld' = JobsHeld /\ J!Queued' = J!Queued
        /\ \A q : J!Pending(q)' <=> J!Pending(q)
    BY <2>1 DEF JobsHeld, J!Queued, J!Pending
  <2>7. JobsSingle' /\ JobsCounted'
    <3>1. JobsPending' = JobsPending
      BY <2>6 DEF JobsPending
    <3> QED
      BY <1>0, <2>1, <2>4, <3>1 DEF JobsSingle, JobsCounted
  <2>8. JobsEarly'
    BY <1>0, <2>1, <2>2, <2>3, <2>6 DEF JobsEarly
  <2>9. JobsChecked'
    <3>1. JobsHolders' = JobsHolders
      BY <2>1, <2>6 DEF JobsHolders, J!At
    <3> QED
      BY <1>0, <2>1, <3>1 DEF JobsChecked
  <2>10. order' \in Seq(Request)
    BY <1>0, <2>1 DEF JobsTyped
  <2> QED
    BY <1>0, <2>1, <2>3, <2>5, <2>7, <2>8, <2>9, <2>10 DEF JobsInv, JobsTyped
\* The slot is free.
<1>11. ASSUME NEW r \in Request, J!JobEnds(r) PROVE JobsInv'
  <2>1. /\ J!Job(r) \in pool.busy /\ jobs[r] # "running" /\ slots' = slots + 1
        /\ J!Leave(J!Job(r)) /\ UNCHANGED <<req, jobs, order, worked, cveLock, alert, refusals>>
    BY <1>11 DEF J!JobEnds
  <2>2. /\ pool' \in [queue : Seq(J!Tasks), busy : SUBSET J!Tasks]
        /\ JobsSingle' /\ JobsHeld' = JobsHeld \ {J!Job(r)} /\ Cardinality(pool'.busy) <= Workers
    BY <1>0, <2>1, JobsLeaving
  <2>3. /\ \A q : J!Pending(q)' <=> J!Pending(q) /\ q # r
        /\ \A q : J!Watcher(q) \in JobsHeld' <=> J!Watcher(q) \in JobsHeld
    BY <2>2, JobsHeldJobs, JobsTaskFacts
  <2>4. J!Pending(r) /\ r \in worked
    BY <1>0, <2>1 DEF J!Pending, JobsEarly
  <2>5. /\ J!Listed' = J!Listed /\ J!Finished' = J!Finished
        /\ JobsPending' = JobsPending \ {r} /\ r \in JobsPending
        /\ JobsHolders' = JobsHolders
    BY <1>0, <2>1, <2>3, <2>4
       DEF J!Listed, J!Finished, JobsPending, JobsHolders, J!At, JobsEarly
  <2>6. JobsCounted' /\ slots' \in 0 .. Slots
    <3>1. /\ IsFiniteSet(JobsPending) /\ Cardinality(JobsPending) \in Nat
          /\ Cardinality(JobsPending') \in Nat
      BY JobsFiniteRequests DEF JobsPending
    <3>2. Cardinality(JobsPending') = Cardinality(JobsPending) - 1
      BY <2>5, <3>1, FS_RemoveElement
    <3> QED
      BY <1>0, <2>1, <2>5, <3>1, <3>2 DEF JobsCounted, JobsSized
  <2>7. JobsEarly'
    BY <1>0, <2>1, <2>3, <2>4 DEF JobsEarly, JobsHeld
  <2>8. JobsListing' /\ JobsChecked'
    BY <1>0, <2>1, <2>5 DEF JobsListing, JobsChecked
  <2> QED
    BY <1>0, <2>1, <2>2, <2>6, <2>7, <2>8 DEF JobsInv, JobsTyped
<1>12. ASSUME NEW r \in Request, J!WatcherEnds(r) PROVE JobsInv'
  <2>1. /\ J!Watcher(r) \in pool.busy /\ J!Leave(J!Watcher(r)) /\ alert' \subseteq Request
        /\ UNCHANGED <<req, jobs, order, slots, worked, cveLock, refusals>>
    BY <1>0, <1>12 DEF J!WatcherEnds, J!WatcherReports, J!WatcherDeadline, JobsTyped
  <2>2. /\ pool' \in [queue : Seq(J!Tasks), busy : SUBSET J!Tasks]
        /\ JobsSingle' /\ JobsHeld' = JobsHeld \ {J!Watcher(r)} /\ Cardinality(pool'.busy) <= Workers
    BY <1>0, <2>1, JobsLeaving
  <2>3. /\ \A q : J!Pending(q)' <=> J!Pending(q)
        /\ \A q : J!Watcher(q) \in JobsHeld' => J!Watcher(q) \in JobsHeld
    BY <2>2, JobsHeldJobs, JobsTaskFacts
  <2>4. JobsEarly'
    BY <1>0, <2>1, <2>3 DEF JobsEarly, JobsHeld
  <2>5. /\ J!Listed' = J!Listed /\ J!Finished' = J!Finished /\ JobsPending' = JobsPending
        /\ JobsHolders' = JobsHolders
    BY <2>1, <2>3 DEF J!Listed, J!Finished, JobsPending, JobsHolders, J!At
  <2>6. JobsListing' /\ JobsCounted' /\ JobsChecked'
    BY <1>0, <2>1, <2>5 DEF JobsListing, JobsCounted, JobsChecked
  <2> QED
    BY <1>0, <2>1, <2>2, <2>4, <2>6 DEF JobsInv, JobsTyped
<1>13. CASE UNCHANGED jobVars
  <2>1. JobsHeld' = JobsHeld /\ J!Queued' = J!Queued /\ \A q : J!Pending(q)' <=> J!Pending(q)
    BY <1>13 DEF jobVars, JobsHeld, J!Queued, J!Pending
  <2>2. /\ J!Listed' = J!Listed /\ J!Finished' = J!Finished /\ JobsPending' = JobsPending
        /\ JobsHolders' = JobsHolders
    BY <1>13, <2>1 DEF jobVars, J!Listed, J!Finished, JobsPending, JobsHolders, J!At
  <2> QED
    BY <1>0, <1>13, <2>1, <2>2 DEF jobVars, JobsInv, JobsTyped, JobsSingle, JobsListing,
       JobsEarly, JobsCounted, JobsChecked
<1> QED
  BY <1>2, <1>3, <1>5, <1>6, <1>7, <1>8, <1>9, <1>12, <1>13, <1>10, <1>11 DEF J!Next, J!Handle, J!Wrap

LEMMA JobsSound == ASSUME JobsSized, JobsInv PROVE J!TypeOK /\ J!NothingLeaks
<1>0. /\ JobsTyped /\ JobsSingle /\ JobsListing /\ JobsEarly /\ JobsCounted /\ JobsChecked
  BY DEF JobsInv
<1>1. J!Queued \subseteq J!Tasks
  BY <1>0 DEF JobsTyped, J!Queued
<1>2. J!TypeOK
  BY <1>0, <1>1, JobsCount DEF JobsTyped, J!TypeOK, JobsRow, JobsPcs, JobsReplies, JobsStatuses
<1>3. Cardinality(JobsHolders) = IF cveLock THEN 1 ELSE 0
  <2>1. CASE cveLock
    <3>1. PICK r \in JobsHolders : TRUE
      BY <1>0, <2>1 DEF JobsChecked
    <3>2. JobsHolders = {r}
      BY <1>0, <3>1 DEF JobsChecked
    <3> QED
      BY <2>1, <3>2, FS_Singleton
  <2>2. CASE ~cveLock
    BY <1>0, <2>2, FS_EmptySet DEF JobsChecked
  <2> QED
    BY <2>1, <2>2
<1> QED
  BY <1>0, <1>2, <1>3, JobsCount
     DEF J!NothingLeaks, JobsCounted, JobsEarly, JobsPending, JobsHolders

-----------------------------------------------------------------------------
(* The request handlers, for each mix: what has run was permitted, and a row*)
(* tells whose it was and how it ended.                                     *)

HttpPcs == {"idle", "auth", "form", "role", "run", "audit", "reply", "fail", "count",
            "reset", "done"}
HttpThreads(mix) == [pc : HttpPcs, status : H(mix)!Statuses]
HttpTyped(mix) == /\ th \in [Request -> HttpThreads(mix)]
                  /\ fails \in [H(mix)!Ips -> 0 .. MaxFails] /\ seen \in [Request -> 0 .. MaxFails]
                  /\ block \subseteq H(mix)!Ips
                  /\ actor = [r \in Request |-> actor[r]]

\* A change is made for somebody who may ask for it, in whose name its thread
\* goes on; it has a row only once its status is settled.
HttpNamed(mix) ==
    \A r \in Request :
        /\ H(mix)!At(r, "run") /\ Verb[mix][r] # "get" => H(mix)!Permitted(r) /\ actor[r] = H(mix)!Sender(r)
        /\ H(mix)!At(r, "audit") => r \in effects /\ H(mix)!Permitted(r) /\ actor[r] = H(mix)!Sender(r)
HttpSettled(mix) ==
    /\ effects \subseteq Request /\ \A r \in effects : H(mix)!Permitted(r)
    /\ \A line \in audit :
         /\ line.of \in effects /\ line.user = H(mix)!Sender(line.of)
         /\ th[line.of].pc \in {"reply", "done"} /\ line.status = th[line.of].status

HttpInv(mix) == HttpTyped(mix) /\ HttpNamed(mix) /\ HttpSettled(mix)

LEMMA HttpTyping == ASSUME NEW mix \in Mix, HttpSized, HttpInv(mix) PROVE H(mix)!TypeOK
<1>1. 0 .. MaxFails \subseteq 0 .. MaxFails + Cardinality(Request)
  BY FS_CardinalityType DEF HttpSized
<1>2. fails \in [H(mix)!Ips -> 0 .. MaxFails + Cardinality(Request)]
      /\ seen \in [Request -> 0 .. MaxFails + Cardinality(Request)]
  BY <1>1 DEF HttpInv, HttpTyped
<1>3. \A line \in audit : line.of \in Request /\ line.status \in H(mix)!Statuses
  BY DEF HttpInv, HttpTyped, HttpSettled, HttpThreads
<1> QED
  BY <1>2, <1>3, HttpCount DEF H!TypeOK, HttpInv, HttpTyped, HttpThreads, HttpPcs, HttpSettled

LEMMA HttpInitInv == ASSUME NEW mix \in Mix, HttpSized, H(mix)!Init PROVE HttpInv(mix)
<1>1. HttpTyped(mix)
  BY DEF HttpSized, H!Init, HttpTyped, HttpThreads, HttpPcs, H!Statuses
<1>2. HttpNamed(mix) /\ HttpSettled(mix)
  BY DEF H!Init, HttpNamed, HttpSettled, H!At
<1> QED
  BY <1>1, <1>2 DEF HttpInv

\* What a step of a thread does to the others, and to its own place.
HttpMoved(mix, r, pc, status) ==
    /\ th' \in [Request -> HttpThreads(mix)]
    /\ th'[r].pc = pc /\ th'[r].status = status
    /\ \A q \in Request \ {r} : th'[q] = th[q]

LEMMA HttpGoMoves ==
  ASSUME NEW mix \in Mix, HttpTyped(mix), NEW r \in Request, NEW pc \in HttpPcs, H(mix)!Go(r, pc)
  PROVE  HttpMoved(mix, r, pc, th[r].status)
  BY DEF HttpTyped, H!Go, HttpMoved, HttpThreads

LEMMA HttpAnswerMoves ==
  ASSUME NEW mix \in Mix, HttpTyped(mix), NEW r \in Request, NEW pc \in HttpPcs,
         NEW code \in H(mix)!Statuses,
         H(mix)!AnswerThen(r, code, pc)
  PROVE  HttpMoved(mix, r, pc, code)
  BY DEF HttpTyped, H!AnswerThen, HttpMoved, HttpThreads

LEMMA HttpAnswerEnds ==
  ASSUME NEW mix \in Mix, HttpTyped(mix), NEW r \in Request,
         NEW code \in H(mix)!Statuses, H(mix)!Answer(r, code)
  PROVE  HttpMoved(mix, r, "done", code)
  BY DEF HttpTyped, H!Answer, HttpMoved, HttpThreads, HttpPcs

\* A thread that changes no record and is not about to: nothing of the audit
\* depends on it.
HttpBefore == {"idle", "auth", "form", "role", "fail", "count", "reset"}
LEMMA HttpAside ==
  ASSUME NEW mix \in Mix, HttpInv(mix), NEW r \in Request, NEW pc \in HttpPcs,
         NEW s \in H(mix)!Statuses, HttpMoved(mix, r, pc, s),
         th[r].pc \in HttpBefore \/ (th[r].pc = "run" /\ Verb[mix][r] = "get"),
         pc \in HttpBefore \cup {"done"} \/ (pc = "run" /\ Verb[mix][r] = "get"),
         UNCHANGED <<effects, audit>>, \A q \in Request \ {r} : actor'[q] = actor[q]
  PROVE  HttpNamed(mix)' /\ HttpSettled(mix)'
<1>1. HttpNamed(mix)'
  BY DEF HttpInv, HttpNamed, HttpMoved, H!At, HttpBefore, H!Permitted, H!Sender
<1>2. HttpSettled(mix)'
  BY DEF HttpInv, HttpSettled, HttpMoved, HttpBefore, H!Permitted, H!Sender
<1> QED
  BY <1>1, <1>2

LEMMA HttpNextInv ==
  ASSUME NEW mix \in Mix, HttpSized, HttpInv(mix), [H(mix)!Next]_httpVars
  PROVE  HttpInv(mix)'
<1> USE DEF HttpSized
<1>0. /\ HttpTyped(mix) /\ HttpNamed(mix) /\ HttpSettled(mix)
      /\ \A r \in Request : th[r].pc \in HttpPcs /\ th[r].status \in H(mix)!Statuses
  BY DEF HttpInv, HttpTyped, HttpThreads
<1>1. ASSUME NEW r \in Request, NEW pc \in HttpPcs, NEW s \in H(mix)!Statuses, HttpMoved(mix, r, pc, s),
             th[r].pc \in HttpBefore, pc \in HttpBefore \cup {"done"} \/ (pc = "run" /\ Verb[mix][r] = "get"),
             UNCHANGED H(mix)!work,
             fails' \in [H(mix)!Ips -> 0 .. MaxFails], seen' \in [Request -> 0 .. MaxFails],
             block' \subseteq H(mix)!Ips
      PROVE  HttpInv(mix)'
  <2>1. HttpNamed(mix)' /\ HttpSettled(mix)'
    BY <1>1, HttpAside DEF H!work
  <2>2. HttpTyped(mix)'
    BY <1>0, <1>1 DEF HttpTyped, HttpMoved, H!work
  <2> QED
    BY <2>1, <2>2 DEF HttpInv
<1>2. ASSUME NEW r \in Request, H(mix)!Arrive(r) PROVE HttpInv(mix)'
  <2>1. CASE H(mix)!Go(r, "auth")
    BY <1>0, <1>1, <1>2, <2>1, HttpGoMoves DEF H!Arrive, H!At, HttpPcs, HttpBefore,
       H!tables, HttpTyped
  <2>2. ASSUME NEW code \in {403, 429}, H(mix)!Answer(r, code) PROVE HttpInv(mix)'
    <3>1. HttpMoved(mix, r, "done", code)
      BY <1>0, <2>2, HttpAnswerEnds DEF H!Statuses
    <3> QED
      BY <1>0, <1>1, <1>2, <3>1 DEF H!Arrive, H!At, HttpPcs, H!Statuses, HttpBefore,
         H!tables, HttpTyped
  <2> QED
    BY <1>2, <2>1, <2>2 DEF H!Arrive
<1>3. ASSUME NEW r \in Request, H(mix)!Authenticate(r) PROVE HttpInv(mix)'
  <2>1. ASSUME NEW pc \in {"form", "fail"}, H(mix)!Go(r, pc) PROVE HttpInv(mix)'
    <3>1. HttpMoved(mix, r, pc, th[r].status)
      BY <1>0, <2>1, HttpGoMoves DEF HttpPcs
    <3> QED
      BY <1>0, <1>1, <1>3, <3>1 DEF H!Authenticate, H!At, HttpPcs, HttpBefore, H!tables,
         HttpTyped
  <2>2. CASE H(mix)!Answer(r, 401)
    <3>1. HttpMoved(mix, r, "done", 401)
      BY <1>0, <2>2, HttpAnswerEnds DEF H!Statuses
    <3> QED
      BY <1>0, <1>1, <1>3, <3>1 DEF H!Authenticate, H!At, HttpPcs, H!Statuses, HttpBefore,
         H!tables, HttpTyped
  <2> QED
    BY <1>3, <2>1, <2>2 DEF H!Authenticate
<1>4. ASSUME NEW r \in Request, H(mix)!BadForm(r) PROVE HttpInv(mix)'
  <2>1. PICK code \in {400, 403, 408, 413, 415} : H(mix)!Answer(r, code)
    BY <1>4 DEF H!BadForm
  <2>2. HttpMoved(mix, r, "done", code)
    BY <1>0, <2>1, HttpAnswerEnds DEF H!Statuses
  <2> QED
    BY <1>0, <1>1, <1>4, <2>2 DEF H!BadForm, H!At, HttpPcs, H!Statuses, HttpBefore,
       H!tables, HttpTyped
<1>5. ASSUME NEW r \in Request, H(mix)!BodyRead(r) PROVE HttpInv(mix)'
  <2>1. ASSUME NEW pc \in {"run", "role"}, H(mix)!Go(r, pc), pc = "run" => Verb[mix][r] = "get"
        PROVE  HttpInv(mix)'
    <3>1. HttpMoved(mix, r, pc, th[r].status)
      BY <1>0, <2>1, HttpGoMoves DEF HttpPcs
    <3> QED
      BY <1>0, <1>1, <1>5, <2>1, <3>1 DEF H!BodyRead, H!At, HttpPcs, HttpBefore, H!tables,
         HttpTyped
  <2>2. ASSUME NEW pc \in {"fail", "reset"}, NEW code \in {200, 401}, H(mix)!AnswerThen(r, code, pc)
        PROVE  HttpInv(mix)'
    <3>1. HttpMoved(mix, r, pc, code)
      BY <1>0, <2>2, HttpAnswerMoves DEF HttpPcs, H!Statuses
    <3> QED
      BY <1>0, <1>1, <1>5, <3>1 DEF H!BodyRead, H!At, HttpPcs, H!Statuses, HttpBefore,
         H!tables, HttpTyped
  <2> QED
    BY <1>5, <2>1, <2>2 DEF H!BodyRead
<1>6. ASSUME NEW r \in Request, H(mix)!LoginResets(r) PROVE HttpInv(mix)'
  <2>1. HttpMoved(mix, r, "done", th[r].status)
    <3>1. th[r].status \in H(mix)!Statuses /\ "done" \in HttpPcs /\ H(mix)!Go(r, "done")
      BY <1>0, <1>6 DEF H!LoginResets, HttpPcs
    <3> QED
      BY <1>0, <3>1, HttpGoMoves
  <2>2. fails' \in [H(mix)!Ips -> 0 .. MaxFails] /\ block' \subseteq H(mix)!Ips /\ seen' = seen
    <3>1. fails \in [H(mix)!Ips -> 0 .. MaxFails] /\ block \subseteq H(mix)!Ips /\ 0 \in 0 .. MaxFails
      BY <1>0 DEF HttpTyped
    <3>2. /\ fails' = [fails EXCEPT ![Ip[r]] = 0] /\ block' = block \ {Ip[r]}
          /\ seen' = seen
      BY <1>6 DEF H!LoginResets
    <3> QED
      BY <3>1, <3>2
  <2> QED
    <3>1. th[r].pc \in HttpBefore /\ UNCHANGED H(mix)!work /\ "done" \in HttpPcs /\ th[r].status \in H(mix)!Statuses
      BY <1>0, <1>6 DEF H!LoginResets, H!At, HttpBefore, HttpPcs
    <3>2. seen' \in [Request -> 0 .. MaxFails]
      BY <1>0, <2>2 DEF HttpTyped
    <3> QED
      BY <1>1, <2>1, <2>2, <3>1, <3>2
<1>7. ASSUME NEW r \in Request, H(mix)!FailRead(r) PROVE HttpInv(mix)'
  <2>1. HttpMoved(mix, r, "count", th[r].status)
    BY <1>0, <1>7, HttpGoMoves DEF H!FailRead, HttpPcs
  <2>2. Ip[r] \in H(mix)!Ips
    BY DEF H!Ips
  <2>3. seen' \in [Request -> 0 .. MaxFails] /\ UNCHANGED <<fails, block>>
    BY <1>0, <1>7, <2>2 DEF H!FailRead, HttpTyped
  <2> QED
    BY <1>0, <1>1, <1>7, <2>1, <2>3 DEF H!FailRead, H!At, HttpPcs, HttpBefore, HttpTyped
<1>8. ASSUME NEW r \in Request, H(mix)!FailWrite(r) PROVE HttpInv(mix)'
  <2>1. HttpMoved(mix, r, "done", 401)
    BY <1>0, <1>8, HttpAnswerEnds DEF H!FailWrite, H!Statuses
  <2>2. Ip[r] \in H(mix)!Ips /\ seen[r] \in 0 .. MaxFails
    BY <1>0 DEF H!Ips, HttpTyped
  <2>3. fails' \in [H(mix)!Ips -> 0 .. MaxFails] /\ block' \subseteq H(mix)!Ips /\ seen' = seen
    BY <1>0, <1>8, <2>2 DEF H!FailWrite, HttpTyped
  <2> QED
    BY <1>0, <1>1, <1>8, <2>1, <2>3 DEF H!FailWrite, H!At, HttpPcs, H!Statuses, HttpBefore,
       HttpTyped
<1>9. ASSUME NEW r \in Request, H(mix)!Admit(r) PROVE HttpInv(mix)'
  <2>1. ASSUME NEW code \in {403, 404}, H(mix)!Answer(r, code), UNCHANGED actor PROVE HttpInv(mix)'
    <3>1. HttpMoved(mix, r, "done", code)
      BY <1>0, <2>1, HttpAnswerEnds DEF H!Statuses
    <3> QED
      BY <1>0, <1>1, <1>9, <2>1, <3>1
      DEF H!Admit, H!At, HttpPcs, H!Statuses, HttpBefore, H!tables, H!work, HttpTyped
  <2>2. CASE H(mix)!Permitted(r) /\ H(mix)!Go(r, "run") /\ actor' = H(mix)!Remember(r)
    <3>1. HttpMoved(mix, r, "run", th[r].status)
      BY <1>0, <2>2, HttpGoMoves DEF HttpPcs
    <3>2. /\ actor'[r] = H(mix)!Sender(r) /\ \A q \in Request \ {r} : actor'[q] = actor[q]
          /\ actor' = [q \in Request |-> actor'[q]]
      BY <1>0, <2>2 DEF H!Remember, HttpTyped
    <3>3. UNCHANGED <<effects, audit, fails, block, seen>> /\ H(mix)!At(r, "role")
      BY <1>9 DEF H!Admit, H!tables
    <3>4. HttpTyped(mix)'
      BY <1>0, <3>1, <3>2, <3>3 DEF HttpTyped, HttpMoved
    <3>5. HttpNamed(mix)'
      BY <1>0, <2>2, <3>1, <3>2, <3>3 DEF HttpNamed, HttpMoved, H!At, H!Permitted, H!Sender
    <3>6. HttpSettled(mix)'
      BY <1>0, <3>1, <3>3 DEF HttpSettled, HttpMoved, H!At, H!Permitted, H!Sender
    <3> QED
      BY <3>4, <3>5, <3>6 DEF HttpInv
  <2> QED
    BY <1>9, <2>1, <2>2 DEF H!Admit
<1>10. ASSUME NEW r \in Request, H(mix)!Read(r) PROVE HttpInv(mix)'
  <2>1. PICK code \in {200, 400, 404, 500} : H(mix)!Answer(r, code)
    BY <1>10 DEF H!Read
  <2>2. HttpMoved(mix, r, "done", code)
    BY <1>0, <2>1, HttpAnswerEnds DEF H!Statuses
  <2>3. /\ \A q \in Request \ {r} : actor'[q] = actor[q]
        /\ actor' = [q \in Request |-> actor'[q]]
    BY <1>0, <1>10 DEF H!Read, H!Remember, HttpTyped
  <2>4. UNCHANGED <<effects, audit, fails, block, seen>> /\ H(mix)!At(r, "run") /\ Verb[mix][r] = "get"
    BY <1>10 DEF H!Read, H!tables
  <2>5. HttpTyped(mix)'
    BY <1>0, <2>2, <2>3, <2>4 DEF HttpTyped, HttpMoved
  <2>6. code \in H(mix)!Statuses /\ "done" \in HttpPcs
    BY DEF H!Statuses, HttpPcs
  <2>7. HttpNamed(mix)' /\ HttpSettled(mix)'
    BY <2>2, <2>3, <2>4, <2>6, HttpAside DEF H!At
  <2> QED
    BY <2>5, <2>7 DEF HttpInv
<1>11. ASSUME NEW r \in Request, H(mix)!Handle(r) PROVE HttpInv(mix)'
  <2>1. PICK code \in {200, 400, 500, 503} : H(mix)!AnswerThen(r, code, "audit")
    BY <1>11 DEF H!Handle
  <2>2. HttpMoved(mix, r, "audit", code)
    BY <1>0, <2>1, HttpAnswerMoves DEF HttpPcs, H!Statuses
  <2>3. /\ UNCHANGED <<actor, audit, fails, block, seen>> /\ effects' = effects \cup {r}
        /\ H(mix)!At(r, "run") /\ Verb[mix][r] # "get"
    BY <1>11 DEF H!Handle, H!tables
  <2>4. HttpTyped(mix)'
    BY <1>0, <2>2, <2>3 DEF HttpTyped, HttpMoved
  <2>5. HttpNamed(mix)'
    BY <1>0, <2>2, <2>3 DEF HttpNamed, HttpMoved, H!At, H!Permitted, H!Sender
  <2>6. HttpSettled(mix)'
    BY <1>0, <2>2, <2>3 DEF HttpNamed, HttpSettled, HttpMoved, H!At, H!Permitted, H!Sender
  <2> QED
    BY <2>4, <2>5, <2>6 DEF HttpInv
<1>12. ASSUME NEW r \in Request, H(mix)!Audit(r) PROVE HttpInv(mix)'
  <2>1. HttpMoved(mix, r, "reply", th[r].status)
    BY <1>0, <1>12, HttpGoMoves DEF H!Audit, HttpPcs
  <2>2. /\ UNCHANGED <<actor, effects, fails, block, seen>> /\ H(mix)!At(r, "audit")
        /\ audit' \subseteq audit \cup {[of |-> r, user |-> actor[r], status |-> th[r].status]}
    BY <1>12 DEF H!Audit, H!tables
  <2>3. HttpTyped(mix)'
    BY <1>0, <2>1, <2>2 DEF HttpTyped, HttpMoved
  <2>4. HttpNamed(mix)'
    BY <1>0, <2>1, <2>2 DEF HttpNamed, HttpMoved, H!At, H!Permitted, H!Sender
  <2>5. HttpSettled(mix)'
    BY <1>0, <2>1, <2>2 DEF HttpNamed, HttpSettled, HttpMoved, H!At, H!Permitted, H!Sender
  <2> QED
    BY <2>3, <2>4, <2>5 DEF HttpInv
<1>13. ASSUME NEW r \in Request, H(mix)!Reply(r) PROVE HttpInv(mix)'
  <2>1. HttpMoved(mix, r, "done", th[r].status)
    BY <1>0, <1>13, HttpGoMoves DEF H!Reply, HttpPcs
  <2>2. UNCHANGED <<actor, effects, audit, fails, block, seen>> /\ H(mix)!At(r, "reply")
    BY <1>13 DEF H!Reply, H!tables, H!work
  <2>3. HttpTyped(mix)'
    BY <1>0, <2>1, <2>2 DEF HttpTyped, HttpMoved
  <2>4. HttpNamed(mix)'
    BY <1>0, <2>1, <2>2 DEF HttpNamed, HttpMoved, H!At, H!Permitted, H!Sender
  <2>5. HttpSettled(mix)'
    BY <1>0, <2>1, <2>2 DEF HttpSettled, HttpMoved, H!At, H!Permitted, H!Sender
  <2> QED
    BY <2>3, <2>4, <2>5 DEF HttpInv
<1>14. ASSUME NEW i \in H(mix)!Ips, H(mix)!Forget(i) PROVE HttpInv(mix)'
  <2>1. fails' \in [H(mix)!Ips -> 0 .. MaxFails] /\ block' \subseteq H(mix)!Ips
    BY <1>0, <1>14 DEF H!Forget, HttpTyped
  <2>2. UNCHANGED <<th, seen, actor, effects, audit>>
    BY <1>14 DEF H!Forget, H!work
  <2> QED
    BY <1>0, <2>1, <2>2 DEF HttpInv, HttpTyped, HttpNamed, HttpSettled, H!At, H!Permitted,
       H!Sender
<1>15. CASE UNCHANGED httpVars
  BY <1>0, <1>15 DEF httpVars, HttpInv, HttpTyped, HttpNamed, HttpSettled, H!At,
     H!Permitted, H!Sender
<1> QED
  BY <1>2, <1>3, <1>4, <1>5, <1>6, <1>7, <1>8, <1>9, <1>10, <1>11, <1>12, <1>13, <1>14,
     <1>15
  DEF H!Next, H!Step

LEMMA HttpTells ==
  ASSUME NEW mix \in Mix, HttpInv(mix) PROVE H(mix)!AuditTrue
  BY DEF HttpInv, HttpSettled, H!AuditTrue

-----------------------------------------------------------------------------
(* The settings: a copy made under the lock holds all that was acknowledged.*)

SettingsLocking(c) == (S!At(c, "save") /\ Writer[c] # "rule") \/ S!At(c, "update")
SettingsQuiet == \A c \in S!Rules : S!At(c, "idle")
SettingsLocked == S!Acked({"settings", "device"})

\* Whoever has copied the settings under the lock still holds it, and a request
\* that is not over has no result.
SettingsLockHeld ==
    \A c \in Request : /\ SettingsLocking(c) => lock = c
                       /\ S!At(c, "update") => Writer[c] # "rule"
                       /\ job[c].pc # "done" => job[c].result = "none"

\* A copy holds its own change and those that were acknowledged.
SettingsCopiesOK ==
    /\ \A c \in Request : SettingsLocking(c) => c \in job[c].copy
    /\ ~reset /\ (SettingsQuiet \/ bad = 0) =>
         SettingsLocked \subseteq live /\ \A c \in Request : SettingsLocking(c) => SettingsLocked \subseteq job[c].copy
    /\ ~reset /\ SettingsQuiet => SettingsLocked \subseteq file
    /\ SettingsQuiet => \A c \in Request : S!At(c, "update") => file = job[c].copy

\* A change that has not been put in place yet, or never will be, is nowhere.
SettingsAbsent(c) == /\ c \notin live /\ c \notin file
                     /\ \A d \in Request \ {c} : job[d].pc \in {"save", "update"} => c \notin job[d].copy
SettingsRefusedOK ==
    \A c \in Request :
        S!At(c, "idle") \/ job[c].result = "error" \/ (S!At(c, "save") /\ Writer[c] # "rule")
              => SettingsAbsent(c)

SettingsJobs == [pc : {"idle", "save", "update", "done"}, copy : SUBSET Request,
                 result : {"none", "ok", "error", "lost"}]
SettingsIsJob == job \in [Request -> SettingsJobs]
SettingsOthers(c) == \A d \in Request \ {c} : job'[d] = job[d]

SettingsInv == S!TypeOK /\ SettingsLockHeld /\ SettingsCopiesOK /\ SettingsRefusedOK

LEMMA SettingsInitInv == SaveFaults \in Nat /\ S!Init => SettingsInv
  <1> SUFFICES ASSUME SaveFaults \in Nat, S!Init PROVE SettingsInv
    OBVIOUS
  <1>1. job \in [Request -> SettingsJobs] /\ \A c \in Request : job[c].pc = "idle" /\ job[c].result = "none"
    BY DEF S!Init, S!Idle, SettingsJobs
  <1>2. S!TypeOK
    <2>1. live = {} /\ file = {} /\ lock = S!Free /\ reset = FALSE /\ bad = 0
      BY DEF S!Init
    <2>2. live \subseteq Request /\ file \subseteq Request /\ lock \in Request \cup {S!Free}
      BY <2>1
    <2>3. reset \in BOOLEAN
      BY <2>1
    <2>4. bad \in 0 .. SaveFaults
      BY <2>1
    <2>5. QED
      BY <1>1, <2>2, <2>3, <2>4 DEF S!TypeOK, SettingsJobs
  <1>3. SettingsLockHeld /\ SettingsCopiesOK /\ SettingsRefusedOK
    BY <1>1 DEF S!Init, SettingsLockHeld, SettingsCopiesOK, SettingsRefusedOK,
       SettingsAbsent, SettingsLocking, SettingsQuiet, S!Rules, SettingsLocked,
                S!Acked, S!At
  <1>4. QED
    BY <1>2, <1>3 DEF SettingsInv

\* What each step does to the requests.
LEMMA SettingsAnswered ==
  ASSUME SettingsIsJob, NEW c \in Request, NEW r \in {"ok", "error"}, S!Answer(c, r)
  PROVE  SettingsIsJob' /\ SettingsOthers(c) /\ job'[c].pc = "done" /\ job'[c].result = r
  <1> USE DEF SettingsIsJob
  <1>1. SettingsIsJob'
    BY DEF S!Answer, SettingsJobs
  <1>2. SettingsOthers(c) /\ job'[c].pc = "done" /\ job'[c].result = r
    BY DEF S!Answer, SettingsJobs, SettingsOthers
  <1>3. QED
    BY <1>1, <1>2

LEMMA SettingsCopied ==
  ASSUME SettingsIsJob, NEW c \in Request, NEW U \in SUBSET Request,
         job' = [job EXCEPT ![c] = [S!Idle EXCEPT !.pc = "save", !.copy = U]]
  PROVE  /\ SettingsIsJob' /\ SettingsOthers(c)
         /\ job'[c].pc = "save" /\ job'[c].copy = U /\ job'[c].result = "none"
  <1> USE DEF SettingsIsJob, SettingsJobs, S!Idle
  <1>1. SettingsIsJob'
    OBVIOUS
  <1>2. SettingsOthers(c) /\ job'[c].pc = "save" /\ job'[c].copy = U /\ job'[c].result = "none"
    BY DEF SettingsOthers
  <1>3. QED
    BY <1>1, <1>2

LEMMA SettingsSaved ==
  ASSUME SettingsIsJob, NEW c \in Request, job' = [job EXCEPT ![c].pc = "update"]
  PROVE  /\ SettingsIsJob' /\ SettingsOthers(c)
         /\ job'[c].pc = "update" /\ job'[c].copy = job[c].copy
         /\ job'[c].result = job[c].result
  <1> USE DEF SettingsIsJob, SettingsJobs
  <1>1. SettingsIsJob'
    OBVIOUS
  <1>2. /\ SettingsOthers(c) /\ job'[c].pc = "update" /\ job'[c].copy = job[c].copy
        /\ job'[c].result = job[c].result
    BY DEF SettingsOthers
  <1>3. QED
    BY <1>1, <1>2

SettingsSame(c) == job'[c] = job[c] /\ job[c].pc \in {"idle", "done"}
SettingsLost(c) == job'[c].pc = "done" /\ job'[c].result = "lost"

LEMMA SettingsRestarted ==
  ASSUME SettingsIsJob, S!Restart
  PROVE  SettingsIsJob' /\ \A c \in Request : SettingsSame(c) \/ SettingsLost(c)
  <1>1. job' = [c \in Request |-> IF S!At(c, "idle") \/ S!At(c, "done") THEN job[c]
                                ELSE [job[c] EXCEPT !.pc = "done", !.result = "lost"]]
    BY DEF S!Restart
  <1>2. ASSUME NEW c \in Request PROVE job'[c] \in SettingsJobs /\ (SettingsSame(c) \/ SettingsLost(c))
    <2>1. CASE S!At(c, "idle") \/ S!At(c, "done")
      BY <1>1, <2>1 DEF SettingsIsJob, SettingsSame, S!At
    <2>2. CASE ~(S!At(c, "idle") \/ S!At(c, "done"))
      <3>1. job'[c] = [job[c] EXCEPT !.pc = "done", !.result = "lost"] /\ job[c] \in SettingsJobs
        BY <1>1, <2>2 DEF SettingsIsJob
      <3>2. QED
        BY <3>1 DEF SettingsJobs, SettingsLost
    <2>3. QED
      BY <2>1, <2>2
  <1>3. QED
    BY <1>1, <1>2 DEF SettingsIsJob

LEMMA SettingsIsJobs == S!TypeOK => SettingsIsJob
  BY DEF S!TypeOK, SettingsIsJob, SettingsJobs

LEMMA SettingsNextInv ==
  ASSUME S!Free \notin Request, SaveFaults \in Nat, SettingsInv, [S!Next]_cfgVars
  PROVE  SettingsInv'
  <1> USE DEF SettingsInv
  <1>0. SettingsIsJob
    BY SettingsIsJobs
  <1>1. ASSUME NEW c \in Request, S!Begin(c) PROVE SettingsInv'
    <2>1. CASE S!Answer(c, "error") /\ UNCHANGED <<live, file, lock, reset, bad>>
      <3>1. SettingsIsJob' /\ SettingsOthers(c) /\ job'[c].pc = "done" /\ job'[c].result = "error"
        BY <1>0, <2>1, SettingsAnswered
      <3>2. S!At(c, "idle") /\ Writer[c] # "rule"
        BY <1>1 DEF S!Begin
      <3>3. S!TypeOK'
        BY <2>1, <3>1, <3>2 DEF S!TypeOK, SettingsIsJob, SettingsJobs
      <3>4. SettingsLockHeld'
        BY <2>1, <3>1, <3>2 DEF SettingsOthers, SettingsLockHeld, SettingsLocking, S!At
      <3>5. SettingsCopiesOK'
        BY <2>1, <3>1, <3>2 DEF SettingsOthers, SettingsLockHeld, SettingsCopiesOK,
           SettingsLocking, SettingsQuiet, S!Rules, SettingsLocked,
           S!Acked, S!At
      <3>6. SettingsRefusedOK'
        BY <2>1, <3>1, <3>2 DEF SettingsOthers, SettingsLockHeld, SettingsRefusedOK,
           SettingsAbsent, SettingsLocking, S!At
      <3>7. QED
        BY <3>3, <3>4, <3>5, <3>6
    <2>2. CASE /\ lock = S!Free /\ lock' = c /\ UNCHANGED <<live, file, reset, bad>>
               /\ job' = [job EXCEPT ![c] = [S!Idle EXCEPT !.pc = "save", !.copy = live \cup {c}]]
      <3>1. live \cup {c} \in SUBSET Request
        BY DEF S!TypeOK
      <3>2. /\ SettingsIsJob' /\ SettingsOthers(c)
            /\ job'[c].pc = "save" /\ job'[c].copy = live \cup {c} /\ job'[c].result = "none"
        BY <1>0, <2>2, <3>1, SettingsCopied
      <3>3. S!At(c, "idle") /\ Writer[c] # "rule"
        BY <1>1 DEF S!Begin
      <3>4. S!TypeOK'
        BY <2>2, <3>2, <3>3 DEF S!TypeOK, SettingsIsJob, SettingsJobs
      <3>5. SettingsLockHeld'
        BY <2>2, <3>2, <3>3 DEF SettingsOthers, SettingsLockHeld, SettingsLocking, S!At
      <3>6. SettingsCopiesOK'
        BY <2>2, <3>2, <3>3 DEF SettingsOthers, SettingsLockHeld, SettingsCopiesOK,
           SettingsLocking, SettingsQuiet, S!Rules, SettingsLocked,
           S!Acked, S!At
      <3>7. SettingsRefusedOK'
        BY <2>2, <3>2, <3>3 DEF SettingsOthers, SettingsLockHeld, SettingsRefusedOK,
           SettingsAbsent, SettingsLocking, S!At
      <3>8. QED
        BY <3>4, <3>5, <3>6, <3>7
    <2>3. QED
      BY <1>1, <2>1, <2>2 DEF S!Begin, S!CanLock
  <1>2. ASSUME NEW c \in Request, S!Save(c) PROVE SettingsInv'
    <2>1. /\ SettingsIsJob' /\ SettingsOthers(c)
          /\ job'[c].pc = "update" /\ job'[c].copy = job[c].copy
          /\ job'[c].result = job[c].result
      BY <1>0, <1>2, SettingsSaved DEF S!Save
    <2>2. S!At(c, "save") /\ Writer[c] # "rule" /\ file' = job[c].copy /\ UNCHANGED <<live, lock, reset, bad>>
      BY <1>2 DEF S!Save
    <2>3. job[c].copy \subseteq Request
      BY <1>0 DEF SettingsIsJob, SettingsJobs
    <2>4. S!TypeOK'
      BY <2>1, <2>2, <2>3 DEF S!TypeOK, SettingsIsJob, SettingsJobs
    <2>5. SettingsLockHeld'
      BY <2>1, <2>2, <2>3 DEF SettingsOthers, SettingsLockHeld, SettingsLocking, S!At
    <2>6. SettingsCopiesOK'
      BY <2>1, <2>2, <2>3 DEF SettingsOthers, SettingsLockHeld, SettingsCopiesOK,
         SettingsLocking, SettingsQuiet, S!Rules, SettingsLocked,
         S!Acked, S!At
    <2>7. SettingsRefusedOK'
      BY <2>1, <2>2, <2>3 DEF SettingsOthers, SettingsLockHeld, SettingsRefusedOK,
         SettingsAbsent, SettingsLocking, S!At
    <2>8. QED
      BY <2>4, <2>5, <2>6, <2>7
  <1>3. ASSUME NEW c \in Request, S!SaveFails(c) PROVE SettingsInv'
    <2>1. SettingsIsJob' /\ SettingsOthers(c) /\ job'[c].pc = "done" /\ job'[c].result = "error"
      BY <1>0, <1>3, SettingsAnswered DEF S!SaveFails
    <2>2. /\ S!At(c, "save") /\ Writer[c] # "rule" /\ lock' = S!Free /\ UNCHANGED <<live, file, reset>>
          /\ bad < SaveFaults /\ bad' = bad + 1
      BY <1>3 DEF S!SaveFails, S!Fault
    <2>3. bad \in 0 .. SaveFaults
      BY DEF S!TypeOK
    <2>4. S!TypeOK'
      BY <2>1, <2>2, <2>3 DEF S!TypeOK, SettingsIsJob, SettingsJobs
    <2>5. SettingsLockHeld'
      BY <2>1, <2>2, <2>3 DEF SettingsOthers, SettingsLockHeld, SettingsLocking, S!At
    <2>6. SettingsCopiesOK'
      BY <2>1, <2>2, <2>3 DEF SettingsOthers, SettingsLockHeld, SettingsCopiesOK,
         SettingsLocking, SettingsQuiet, S!Rules, SettingsLocked,
         S!Acked, S!At
    <2>7. SettingsRefusedOK'
      BY <2>1, <2>2, <2>3 DEF SettingsOthers, SettingsLockHeld, SettingsRefusedOK,
         SettingsAbsent, SettingsLocking, S!At
    <2>8. QED
      BY <2>4, <2>5, <2>6, <2>7
  <1>4. ASSUME NEW c \in Request, S!Update(c) PROVE SettingsInv'
    <2>1. SettingsIsJob' /\ SettingsOthers(c) /\ job'[c].pc = "done" /\ job'[c].result = "ok"
      BY <1>0, <1>4, SettingsAnswered DEF S!Update
    <2>2. /\ S!At(c, "update") /\ lock' = S!Free /\ UNCHANGED <<file, reset, bad>>
          /\ live' = IF Writer[c] = "settings" THEN job[c].copy ELSE live \cup {c}
      BY <1>4 DEF S!Update
    <2>3. job[c].copy \subseteq Request /\ live' \subseteq Request
      BY <1>0, <2>2 DEF SettingsIsJob, SettingsJobs, S!TypeOK
    <2>4. S!TypeOK'
      BY <2>1, <2>2, <2>3 DEF S!TypeOK, SettingsIsJob, SettingsJobs
    <2>5. SettingsLockHeld'
      BY <2>1, <2>2, <2>3 DEF SettingsOthers, SettingsLockHeld, SettingsLocking, S!At
    <2>6. SettingsCopiesOK'
      BY <2>1, <2>2, <2>3 DEF SettingsOthers, SettingsLockHeld, SettingsCopiesOK,
         SettingsLocking, SettingsQuiet, S!Rules, SettingsLocked,
         S!Acked, S!At
    <2>7. SettingsRefusedOK'
      BY <2>1, <2>2, <2>3 DEF SettingsOthers, SettingsLockHeld, SettingsRefusedOK,
         SettingsAbsent, SettingsLocking, S!At
    <2>8. QED
      BY <2>4, <2>5, <2>6, <2>7
  <1>5. ASSUME NEW c \in Request, S!AddRule(c) PROVE SettingsInv'
    <2>1. /\ S!At(c, "idle") /\ Writer[c] = "rule" /\ live' = live \cup {c}
          /\ UNCHANGED <<file, lock, reset, bad>>
      BY <1>5 DEF S!AddRule
    <2>2. live' \in SUBSET Request
      BY <2>1 DEF S!TypeOK
    <2>3. /\ SettingsIsJob' /\ SettingsOthers(c)
          /\ job'[c].pc = "save" /\ job'[c].copy = live' /\ job'[c].result = "none"
      BY <1>0, <1>5, <2>2, SettingsCopied DEF S!AddRule
    <2>4. S!TypeOK'
      BY <2>1, <2>2, <2>3 DEF S!TypeOK, SettingsIsJob, SettingsJobs
    <2>5. SettingsLockHeld'
      BY <2>1, <2>2, <2>3 DEF SettingsOthers, SettingsLockHeld, SettingsLocking, S!At
    <2>6. SettingsCopiesOK'
      BY <2>1, <2>2, <2>3 DEF SettingsOthers, SettingsLockHeld, SettingsCopiesOK,
         SettingsLocking, SettingsQuiet, S!Rules, SettingsLocked,
         S!Acked, S!At
    <2>7. SettingsRefusedOK'
      BY <2>1, <2>2, <2>3 DEF SettingsOthers, SettingsLockHeld, SettingsRefusedOK,
         SettingsAbsent, SettingsLocking, S!At
    <2>8. QED
      BY <2>4, <2>5, <2>6, <2>7
  <1>6. ASSUME NEW c \in Request, S!SaveRule(c) PROVE SettingsInv'
    <2>1. SettingsIsJob' /\ SettingsOthers(c) /\ job'[c].pc = "done" /\ job'[c].result = "ok"
      BY <1>0, <1>6, SettingsAnswered DEF S!SaveRule
    <2>2. /\ S!At(c, "save") /\ Writer[c] = "rule" /\ UNCHANGED <<live, lock, reset>>
          /\ \/ file' = job[c].copy /\ UNCHANGED bad
             \/ bad < SaveFaults /\ bad' = bad + 1 /\ UNCHANGED file
      BY <1>6 DEF S!SaveRule, S!Fault
    <2>3. bad \in 0 .. SaveFaults /\ job[c].copy \subseteq Request
      BY <1>0 DEF S!TypeOK, SettingsIsJob, SettingsJobs
    <2>4. S!TypeOK'
      BY <2>1, <2>2, <2>3 DEF S!TypeOK, SettingsIsJob, SettingsJobs
    <2>5. SettingsLockHeld'
      BY <2>1, <2>2, <2>3 DEF SettingsOthers, SettingsLockHeld, SettingsLocking, S!At
    <2>6. SettingsCopiesOK'
      BY <2>1, <2>2, <2>3 DEF SettingsOthers, SettingsLockHeld, SettingsCopiesOK,
         SettingsLocking, SettingsQuiet, S!Rules, SettingsLocked,
         S!Acked, S!At
    <2>7. SettingsRefusedOK'
      BY <2>1, <2>2, <2>3 DEF SettingsOthers, SettingsLockHeld, SettingsRefusedOK,
         SettingsAbsent, SettingsLocking, S!At
    <2>8. QED
      BY <2>4, <2>5, <2>6, <2>7
  <1>7. CASE S!Restart
    <2>1. SettingsIsJob' /\ \A c \in Request : SettingsSame(c) \/ SettingsLost(c)
      BY <1>0, <1>7, SettingsRestarted
    <2>2. /\ lock' = S!Free /\ bad < SaveFaults /\ bad' = bad + 1
          /\ live' \in {file, {}} /\ file' \in {file, {}}
          /\ reset' \in BOOLEAN /\ (reset => reset')
          /\ ~reset' => live' = file /\ file' = file
      BY <1>7 DEF S!Restart, S!Fault, S!TypeOK
    <2>3. bad \in 0 .. SaveFaults
      BY DEF S!TypeOK
    <2>4. S!TypeOK'
      BY <2>1, <2>2, <2>3 DEF S!TypeOK, SettingsIsJob, SettingsJobs
    <2>5. SettingsLockHeld'
      BY <2>1, <2>2, <2>3 DEF SettingsSame, SettingsLost, SettingsLockHeld,
         SettingsLocking, S!At
    <2>6. SettingsCopiesOK'
      BY <2>1, <2>2, <2>3 DEF SettingsSame, SettingsLost, SettingsLockHeld,
         SettingsCopiesOK, SettingsLocking, SettingsQuiet, S!Rules, SettingsLocked,
         S!Acked, S!At
    <2>7. SettingsRefusedOK'
      BY <2>1, <2>2, <2>3 DEF SettingsSame, SettingsLost, SettingsLockHeld,
         SettingsRefusedOK, SettingsAbsent, SettingsLocking, S!At
    <2>8. QED
      BY <2>4, <2>5, <2>6, <2>7
  <1>8. CASE UNCHANGED cfgVars
    BY <1>8 DEF cfgVars, S!TypeOK, SettingsLockHeld, SettingsCopiesOK, SettingsRefusedOK,
       SettingsAbsent, SettingsLocking, SettingsQuiet, S!Rules,
                SettingsLocked, S!Acked, S!At
  <1>9. QED
    BY <1>1, <1>2, <1>3, <1>4, <1>5, <1>6, <1>7, <1>8 DEF S!Next

LEMMA SettingsSound ==
  ASSUME SettingsInv
  PROVE  S!TypeOK /\ S!LockedKept /\ S!RefusedHasNoEffect
  BY DEF SettingsInv, SettingsCopiesOK, SettingsRefusedOK, SettingsAbsent, SettingsQuiet,
         SettingsLocked, S!LockedKept, S!RefusedHasNoEffect

-----------------------------------------------------------------------------
(* The watchdog: while no two cycles overlap, its tables tell what its polls*)
(* have seen.                                                               *)

\* What a poll can find, in the order it is worked off; the plans with the
\* reset of the streak still ahead.
WatchResetting == {<<"reset">>, <<"reset", "disk">>, <<"online", "reset">>,
                   <<"online", "reset", "disk">>}
WatchPlans == WatchResetting \cup {<<"offline">>, <<"nowinrm">>, <<"disk">>}
WatchPlaces ==
    {W!Rest}
    \cup [pc : {"poll"}, left : SUBSET Target, at : {W!Nobody}, plan : {<<>>}]
    \cup [pc : {"note"}, left : SUBSET Target, at : Target, plan : WatchPlans]
    \cup [pc : {"insert"}, left : SUBSET Target, at : Target,
          plan : {p \in WatchPlans : Head(p) # "reset"}]
    \cup [pc : {"rate", "heal"}, left : SUBSET Target, at : Target,
          plan : {<<"offline">>, <<"disk">>}]

WatchTyped ==
    /\ now \in 0 .. MaxTick /\ begun \in 0 .. MaxCycles
    /\ streak \in [Target -> 0 .. W!Bound] /\ downs \in [Target -> 0 .. W!Bound]
    /\ quiet \in [Target -> 0 .. W!Bound]
    /\ online \in [Name -> BOOLEAN] /\ overlap \in BOOLEAN
    /\ last \in [W!Kinds -> [Name -> W!Never .. MaxTick]]
    /\ healed \in [W!Kinds -> [Name -> W!Never .. MaxTick]]
    /\ runs \in [W!Kinds -> [Name -> Nat]]
    /\ cycle \in [Cycle -> WatchPlaces]

\* As long as cycles do not overlap there is one at most.
WatchLone == \A c, d \in Cycle : ~W!At(c, "rest") /\ ~W!At(d, "rest") => c = d

\* What there is to say of a target when x is the cycle under way: the streak
\* counts the polls without data, but for a reset ahead; of a row that is off the
\* event is noted or about to be; and a row that was on after such polls has
\* been put on by another target, which this cycle does not poll again.
WatchBusy(x, t) == x.at = t /\ x.plan \in WatchResetting
WatchFalls(x, t) == x.at = t /\ x.plan = <<"offline">>
WatchEvent(t) == last["offline"][t] # W!Never
WatchOther(x, t) == \E u \in Target \ {t} : u \notin x.left /\ Says[u] = t /\ quiet[u] = 0
WatchTold(x, t) ==
    /\ ~WatchBusy(x, t) => streak[t] = quiet[t]
    /\ WatchBusy(x, t) => quiet[t] = 0
    /\ downs[t] <= quiet[t]
    /\ ~online[t] /\ Says[t] = t => \/ quiet[t] >= OfflineAfter
                                    \/ ~WatchEvent(t) /\ ~WatchFalls(x, t)
    /\ downs[t] >= OfflineAfter =>
         WatchEvent(t) \/ (WatchFalls(x, t) /\ x.pc \in {"note", "insert"})
    /\ downs[t] >= OfflineAfter /\ online[t] /\ t \notin x.left => WatchOther(x, t)
WatchPolledBy(x) == \A t \in Target : WatchTold(x, t)

WatchPolled == /\ W!Resting => WatchPolledBy(W!Rest)
               /\ \A c \in Cycle : ~W!At(c, "rest") => WatchPolledBy(cycle[c])

\* A rule that has started its runbook for a row in this tick does not start it
\* again.
WatchRunsOnce == \A k \in W!Kinds, n \in Name :
                    runs[k][n] = 0 \/ (runs[k][n] = 1 /\ healed[k][n] = now)
WatchMay(x) == x.pc = "heal" => healed[Head(x.plan)]
                                  [IF Head(x.plan) = "offline" THEN x.at ELSE Says[x.at]] # now
WatchHealedOnce == WatchRunsOnce /\ \A c \in Cycle : WatchMay(cycle[c])

WatchInv == WatchTyped /\ (~overlap => WatchLone /\ WatchPolled /\ WatchHealedOnce)

LEMMA WatchPlanFacts ==
  /\ \A p \in WatchPlans : Head(p) \in W!Steps /\ \A i \in DOMAIN p : p[i] \in W!Steps
  /\ \A p \in WatchPlans : Tail(p) \in WatchPlans \cup {<<>>}
  /\ \A p \in WatchPlans \ WatchResetting : Tail(p) = <<>> /\ Head(p) \in W!Kinds
  /\ \A p \in WatchResetting : Head(p) # "reset" => Tail(p) \in WatchResetting
  /\ \A p \in WatchPlans : Head(p) = "reset" => Tail(p) \in {<<>>, <<"disk">>}
  /\ \A p \in WatchPlans : Tail(p) # <<"offline">>
  /\ \A p \in WatchPlans : Head(p) \in W!Severe => p \in {<<"offline">>, <<"disk">>}
  /\ \A p \in WatchPlans : Head(p) = "offline" => p = <<"offline">>
  /\ <<"disk">> \notin WatchResetting /\ <<"offline">> \notin WatchResetting
  /\ <<>> \notin WatchResetting /\ <<"nowinrm">> \notin WatchResetting
  /\ <<>> # <<"offline">> /\ <<"nowinrm">> # <<"offline">> /\ <<"disk">> # <<"offline">>
  /\ <<>> \notin WatchPlans
  BY DEF WatchPlans, WatchResetting, W!Steps, W!Kinds, W!Severe

LEMMA WatchPlaceFacts ==
  ASSUME NEW x \in WatchPlaces
  PROVE  /\ x.pc \in {"rest", "poll", "note", "insert", "rate", "heal"}
         /\ x.plan = <<>> \/ x.plan \in WatchPlans
         /\ x.pc \in {"rest", "poll"} => x.plan = <<>>
         /\ x.pc \notin {"rest", "poll"} => x.plan \in WatchPlans /\ x.at \in Target
         /\ x.pc = "rest" <=> x = W!Rest
         /\ x.left \in SUBSET Target /\ x.at \in Target \cup {W!Nobody}
         /\ x.pc = "insert" => Head(x.plan) # "reset"
         /\ x.pc \in {"rate", "heal"} => x.plan \in {<<"offline">>, <<"disk">>}
         /\ x = [pc |-> x.pc, left |-> x.left, at |-> x.at, plan |-> x.plan]
  BY DEF WatchPlaces, WatchPlans, WatchResetting, W!Rest

\* Where a cycle is when it has to do what is in the plan p.
LEMMA WatchThenPlaces ==
  ASSUME NEW left \in SUBSET Target, NEW t,
         NEW p \in WatchPlans \cup {<<>>}, p # <<>> => t \in Target
  PROVE  LET x == W!Then(left, t, p)
         IN  /\ x \in WatchPlaces /\ x.left = left /\ x.plan = p
             /\ x.pc \in {"rest", "poll", "note"}
             /\ p # <<>> => x.pc = "note" /\ x.at = t
<1>1. CASE p # <<>>
  BY <1>1, WatchPlanFacts DEF W!Then, WatchPlaces
<1>2. CASE p = <<>> /\ left # {}
  BY <1>2 DEF W!Then, WatchPlaces
<1>3. CASE p = <<>> /\ left = {}
  BY <1>3 DEF W!Then, WatchPlaces, W!Rest
<1> QED
  BY <1>1, <1>2, <1>3

\* A cycle that has nothing to do for a target says as much as one at rest.
LEMMA WatchNothingSaid ==
  ASSUME NEW x \in WatchPlaces, x.plan = <<>>
  PROVE  \A t : ~WatchBusy(x, t) /\ ~WatchFalls(x, t)
  BY WatchPlanFacts DEF WatchBusy, WatchFalls

LEMMA WatchInitInv == ASSUME WatchSized, W!Init PROVE WatchInv
<1> USE DEF WatchSized
<1>1. W!Rest \in WatchPlaces /\ W!Rest.plan = <<>> /\ W!Rest.pc = "rest"
  BY DEF WatchPlaces, W!Rest
<1>2. WatchTyped
  <2>1. /\ W!Bound \in Nat /\ 0 \in 0 .. W!Bound /\ W!Never \in W!Never .. MaxTick
        /\ 0 \in 0 .. MaxTick /\ 0 \in 0 .. MaxCycles
    BY DEF W!Bound, W!Never
  <2> QED
    BY <1>1, <2>1 DEF W!Init, WatchTyped
<1>3. \A c \in Cycle : cycle[c] = W!Rest
  BY DEF W!Init
<1>4. \A c \in Cycle : W!At(c, "rest") /\ cycle[c].pc # "heal"
  BY <1>1, <1>3 DEF W!At
<1>5. WatchLone /\ WatchHealedOnce
  BY <1>4 DEF W!Init, WatchLone, WatchHealedOnce, WatchRunsOnce, WatchMay
<1>6. \A t \in Target : /\ streak[t] = 0 /\ quiet[t] = 0 /\ downs[t] = 0
                        /\ last["offline"][t] = W!Never
  BY DEF W!Init, W!Kinds
<1>7. WatchPolledBy(W!Rest)
  BY <1>1, <1>6, WatchNothingSaid DEF WatchPolledBy, WatchTold, WatchEvent
<1>8. WatchPolled
  BY <1>4, <1>7 DEF WatchPolled
<1> QED
  BY <1>2, <1>5, <1>8 DEF WatchInv

\* Where c is when the first thing of its plan is done.
LEMMA WatchDoneMoves ==
  ASSUME WatchTyped, NEW c \in Cycle, W!Done(c), cycle[c].plan \in WatchPlans
  PROVE  /\ cycle' = [cycle EXCEPT ![c] = cycle'[c]] /\ cycle'[c] \in WatchPlaces
         /\ cycle'[c].pc \in {"rest", "poll", "note"}
         /\ cycle'[c].left = cycle[c].left /\ cycle'[c].plan = Tail(cycle[c].plan)
         /\ cycle'[c].plan # <<>> => cycle'[c].at = cycle[c].at
<1> DEFINE left == cycle[c].left
           t == cycle[c].at
           p == Tail(cycle[c].plan)
           y == W!Then(left, t, p)
<1>1. cycle \in [Cycle -> WatchPlaces] /\ cycle' = [cycle EXCEPT ![c] = y]
  BY DEF WatchTyped, W!Done
<1>2. left \in SUBSET Target /\ t \in Target
  BY <1>1, WatchPlaceFacts, WatchPlanFacts
<1>3. p \in WatchPlans \cup {<<>>}
  BY WatchPlanFacts
<1> HIDE DEF left, t, p
<1>4. /\ y \in WatchPlaces /\ y.left = left /\ y.plan = p
      /\ y.pc \in {"rest", "poll", "note"}
      /\ p # <<>> => y.at = t
  BY <1>2, <1>3, WatchThenPlaces
<1>5. cycle'[c] = y
  BY <1>1
<1> HIDE DEF y
<1> QED
  BY <1>1, <1>4, <1>5 DEF left, t, p

\* Where c is when only its program counter moves.
LEMMA WatchGoMoves ==
  ASSUME WatchTyped, NEW c \in Cycle, NEW pc, W!Go(c, pc),
         [pc |-> pc, left |-> cycle[c].left, at |-> cycle[c].at, plan |-> cycle[c].plan]
            \in WatchPlaces
  PROVE  /\ cycle' = [cycle EXCEPT ![c] = cycle'[c]] /\ cycle'[c] \in WatchPlaces
         /\ cycle'[c].pc = pc /\ cycle'[c].left = cycle[c].left
         /\ cycle'[c].at = cycle[c].at /\ cycle'[c].plan = cycle[c].plan
<1> DEFINE y == [pc |-> pc, left |-> cycle[c].left, at |-> cycle[c].at,
                 plan |-> cycle[c].plan]
<1>1. cycle \in [Cycle -> WatchPlaces] /\ cycle' = [cycle EXCEPT ![c].pc = pc]
  BY DEF WatchTyped, W!Go
<1>2. cycle[c] = [pc |-> cycle[c].pc, left |-> cycle[c].left, at |-> cycle[c].at,
                  plan |-> cycle[c].plan]
  BY <1>1, WatchPlaceFacts
<1>3. [cycle[c] EXCEPT !.pc = pc] = y
  BY <1>2
<1>4. cycle' = [cycle EXCEPT ![c] = y]
  BY <1>1, <1>3
<1>5. cycle'[c] = y
  BY <1>1, <1>4
<1>6. y.pc = pc /\ y.left = cycle[c].left /\ y.at = cycle[c].at /\ y.plan = cycle[c].plan
  OBVIOUS
<1>7. y \in WatchPlaces
  OBVIOUS
<1> HIDE DEF y
<1> QED
  BY <1>4, <1>5, <1>6, <1>7

\* Where c is when it has polled t.
LEMMA WatchPlanMoves ==
  ASSUME WatchTyped, NEW c \in Cycle, NEW t \in Target, NEW p \in WatchPlans \cup {<<>>},
         W!Plan(c, t, p)
  PROVE  /\ cycle' = [cycle EXCEPT ![c] = cycle'[c]] /\ cycle'[c] \in WatchPlaces
         /\ cycle'[c].left = cycle[c].left \ {t} /\ cycle'[c].plan = p
         /\ cycle'[c].pc \in {"rest", "poll", "note"}
         /\ p # <<>> => cycle'[c].pc = "note" /\ cycle'[c].at = t
<1> DEFINE y == W!Then(cycle[c].left \ {t}, t, p)
<1>1. cycle \in [Cycle -> WatchPlaces] /\ cycle' = [cycle EXCEPT ![c] = y]
  BY DEF WatchTyped, W!Plan
<1>2. cycle[c].left \ {t} \in SUBSET Target
  BY <1>1, WatchPlaceFacts
<1>3. /\ y \in WatchPlaces /\ y.left = cycle[c].left \ {t} /\ y.plan = p
      /\ y.pc \in {"rest", "poll", "note"}
      /\ p # <<>> => y.pc = "note" /\ y.at = t
  BY <1>2, WatchThenPlaces
<1>4. cycle'[c] = y
  BY <1>1
<1> HIDE DEF y
<1> QED
  BY <1>1, <1>3, <1>4

LEMMA WatchMoved ==
  ASSUME WatchTyped, NEW c \in Cycle, cycle' = [cycle EXCEPT ![c] = cycle'[c]],
         cycle'[c] \in WatchPlaces
  PROVE  cycle' \in [Cycle -> WatchPlaces]
  BY DEF WatchTyped

\* A step of c: what is left to show when the cycles do not overlap.
LEMMA WatchStepped ==
  ASSUME WatchInv, NEW c \in Cycle, ~W!At(c, "rest"), overlap' = overlap,
         cycle' = [cycle EXCEPT ![c] = cycle'[c]], cycle'[c] \in WatchPlaces, WatchTyped',
         ~overlap /\ WatchLone /\ WatchPolledBy(cycle[c]) /\ WatchRunsOnce /\ WatchMay(cycle[c])
           => WatchPolledBy(cycle[c])' /\ WatchRunsOnce' /\ WatchMay(cycle[c])'
  PROVE  WatchInv'
<1>1. ASSUME ~overlap
      PROVE  WatchLone' /\ WatchPolled' /\ WatchHealedOnce'
  <2>1. WatchLone /\ WatchPolled /\ WatchHealedOnce /\ WatchTyped
    BY <1>1 DEF WatchInv
  <2>2. \A d \in Cycle \ {c} : cycle'[d] = cycle[d] /\ cycle[d].pc = "rest"
    BY <2>1 DEF WatchTyped, WatchLone, W!At
  <2>3. WatchLone'
    BY <2>2 DEF WatchLone, W!At
  <2>4. WatchPolledBy(cycle[c]) /\ WatchRunsOnce /\ WatchMay(cycle[c])
    BY <2>1 DEF WatchPolled, WatchHealedOnce
  <2>5. WatchPolledBy(cycle[c])' /\ WatchRunsOnce' /\ WatchMay(cycle[c])'
    BY <1>1, <2>1, <2>4
  <2>6. W!Resting' => cycle'[c] = W!Rest
    BY WatchPlaceFacts DEF W!Resting, W!At
  <2>7. W!Resting' => WatchPolledBy(W!Rest)'
    <3> SUFFICES ASSUME W!Resting' PROVE WatchPolledBy(W!Rest)'
      OBVIOUS
    <3>1. W!Rest = cycle'[c] /\ W!Rest' = W!Rest
      BY <2>6 DEF W!Rest, W!Nobody
    <3> QED
      BY <2>5, <3>1 DEF WatchPolledBy, WatchTold, WatchBusy, WatchFalls, WatchOther, WatchEvent
  <2>8. WatchPolled'
    BY <2>2, <2>5, <2>7 DEF WatchPolled, W!At
  <2>9. WatchHealedOnce'
    BY <2>2, <2>5 DEF WatchHealedOnce, WatchMay
  <2> QED
    BY <2>3, <2>8, <2>9
<1> QED
  BY <1>1 DEF WatchInv

LEMMA WatchAppended1 ==
  ASSUME NEW U, NEW a \in U, NEW b \in U
  PROVE  Append(<<a>>, b) = <<a, b>>
<1>1. <<a, b>> \in Seq(U) /\ Len(<<a, b>>) = 2
  OBVIOUS
<1>2. /\ Append(<<a>>, b) \in Seq(U) /\ Len(Append(<<a>>, b)) = 2
      /\ \A i \in 1 .. 2 : Append(<<a>>, b)[i] = <<a, b>>[i]
  OBVIOUS
<1> QED
  BY <1>1, <1>2, SeqEqual

LEMMA WatchAppended2 ==
  ASSUME NEW U, NEW a \in U, NEW b \in U, NEW c \in U
  PROVE  Append(<<a, b>>, c) = <<a, b, c>>
<1>1. <<a, b, c>> \in Seq(U) /\ Len(<<a, b, c>>) = 3
  OBVIOUS
<1>2. /\ Append(<<a, b>>, c) \in Seq(U) /\ Len(Append(<<a, b>>, c)) = 3
      /\ \A i \in 1 .. 3 : Append(<<a, b>>, c)[i] = <<a, b, c>>[i]
  OBVIOUS
<1> QED
  BY <1>1, <1>2, SeqEqual

LEMMA WatchJoined ==
  /\ (<<"online">> \o <<"reset">>) \o <<"disk">> = <<"online", "reset", "disk">>
  /\ (<<"online">> \o <<"reset">>) \o <<>> = <<"online", "reset">>
  /\ (<<>> \o <<"reset">>) \o <<"disk">> = <<"reset", "disk">>
  /\ (<<>> \o <<"reset">>) \o <<>> = <<"reset">>
<1>1. /\ \A s \in Seq(W!Steps), e \in W!Steps : s \o <<e>> = Append(s, e)
      /\ \A s \in Seq(W!Steps) : s \o <<>> = s /\ <<>> \o s = s
  BY AppendIsConcat, ConcatEmptySeq
<1>2. "online" \in W!Steps /\ "reset" \in W!Steps /\ "disk" \in W!Steps
  BY DEF W!Steps, W!Kinds
<1>3. /\ <<"online">> \in Seq(W!Steps) /\ <<"reset">> \in Seq(W!Steps)
      /\ <<"online", "reset">> \in Seq(W!Steps)
  BY <1>2
<1>4. /\ Append(<<"online">>, "reset") = <<"online", "reset">>
      /\ Append(<<"online", "reset">>, "disk") = <<"online", "reset", "disk">>
      /\ Append(<<"reset">>, "disk") = <<"reset", "disk">>
  BY <1>2, WatchAppended1, WatchAppended2
<1> QED
  BY <1>1, <1>2, <1>3, <1>4, Zenon

\* A poll of t: what is left to show of t, and of the targets whose row it may
\* have put on or left.
LEMMA WatchPollSteps ==
  ASSUME WatchSized, WatchInv, NEW c \in Cycle, NEW t \in Target, W!Polls(c, t),
         NEW p \in WatchPlans \cup {<<>>}, W!Plan(c, t, p),
         UNCHANGED <<now, begun, last, healed, runs, overlap>>, WatchTyped',
         NEW n \in Name, NEW on \in BOOLEAN,
         online' = [online EXCEPT ![n] = on] \/ online' = online,
         \A u \in Target \ {t} : streak'[u] = streak[u] /\ downs'[u] = downs[u] /\ quiet'[u] = quiet[u],
         on => n = t \/ (n = Says[t] /\ quiet'[t] = 0),
         ~on => n = t,
         WatchTold(cycle[c], t) /\ ~WatchBusy(cycle[c], t) /\ ~WatchFalls(cycle[c], t)
           => WatchTold(cycle[c], t)'
  PROVE  WatchInv'
<1> DEFINE x == cycle[c]
           y == cycle'[c]
<1>1. /\ cycle' = [cycle EXCEPT ![c] = y] /\ y \in WatchPlaces
      /\ y.left = x.left \ {t} /\ y.plan = p /\ y.pc \in {"rest", "poll", "note"}
      /\ p # <<>> => y.pc = "note" /\ y.at = t
  BY WatchPlanMoves DEF WatchInv
<1>2. x \in WatchPlaces /\ x.pc = "poll" /\ t \in x.left
  BY DEF WatchInv, WatchTyped, W!Polls, W!At
<1>3. x.plan = <<>> /\ ~W!At(c, "rest")
  BY <1>2, WatchPlaceFacts DEF W!At
<1> HIDE DEF x, y
<1>4. \A u : ~WatchBusy(x, u) /\ ~WatchFalls(x, u)
  BY <1>2, <1>3, WatchNothingSaid
<1>5. ASSUME NEW u \in Target \ {t} PROVE ~WatchBusy(y, u) /\ ~WatchFalls(y, u)
  <2>1. CASE p = <<>>
    BY <1>1, <2>1, WatchNothingSaid
  <2>2. CASE p # <<>>
    BY <1>1, <2>2 DEF WatchBusy, WatchFalls
  <2> QED
    BY <2>1, <2>2
<1>6. ASSUME WatchPolledBy(x) PROVE WatchPolledBy(cycle[c])'
  <2>1. ASSUME NEW u \in Target \ {t} PROVE WatchTold(cycle[c], u)'
    <3>1. WatchTold(x, u) /\ u \in Target /\ u \in Name
      BY <1>6, <2>1 DEF WatchPolledBy, WatchSized
    <3>2. streak'[u] = streak[u] /\ downs'[u] = downs[u] /\ quiet'[u] = quiet[u]
      BY <2>1
    <3>3. ~WatchBusy(x, u) /\ ~WatchFalls(x, u) /\ ~WatchBusy(y, u) /\ ~WatchFalls(y, u)
      BY <1>4, <1>5
    <3>4. WatchEvent(u)' = WatchEvent(u)
      BY DEF WatchEvent, W!Never
    <3>5. ~online'[u] => ~online[u]
      BY <3>1 DEF WatchInv, WatchTyped
    <3>6. downs[u] >= OfflineAfter /\ online'[u] /\ u \notin y.left => WatchOther(cycle[c], u)'
      <4> SUFFICES ASSUME downs[u] >= OfflineAfter, online'[u], u \notin y.left
                   PROVE  \E v \in Target \ {u} : v \notin y.left /\ Says[v] = u /\ quiet'[v] = 0
        BY DEF WatchOther, y
      <4>1. CASE online[u]
        <5>1. u \notin x.left
          BY <1>1
        <5>2. PICK v \in Target \ {u} : v \notin x.left /\ Says[v] = u /\ quiet[v] = 0
          BY <3>1, <4>1, <5>1 DEF WatchTold, WatchOther
        <5>3. v # t /\ quiet'[v] = quiet[v] /\ v \notin y.left
          BY <1>1, <1>2, <5>2
        <5> QED
          BY <5>2, <5>3
      <4>2. CASE ~online[u]
        <5>1. on /\ n = u
          BY <3>1, <4>2 DEF WatchInv, WatchTyped
        <5>2. Says[t] = u /\ quiet'[t] = 0 /\ t \in Target \ {u} /\ t \notin y.left
          BY <1>1, <5>1
        <5> QED
          BY <5>2
      <4> QED
        BY <4>1, <4>2 DEF WatchInv, WatchTyped
    <3>7. /\ ~WatchBusy(cycle[c], u)' /\ ~WatchFalls(cycle[c], u)'
      BY <3>3 DEF WatchBusy, WatchFalls, y
    <3>8. u \notin cycle'[c].left <=> u \notin y.left
      BY DEF y
    <3> HIDE DEF WatchBusy, WatchFalls, WatchEvent, WatchOther
    <3> QED
      BY <3>1, <3>2, <3>3, <3>4, <3>5, <3>6, <3>7, <3>8 DEF WatchTold
  <2>2. WatchTold(cycle[c], t)'
    <3>1. WatchTold(x, t) /\ ~WatchBusy(x, t) /\ ~WatchFalls(x, t)
      BY <1>4, <1>6 DEF WatchPolledBy
    <3> QED
      BY <3>1 DEF x
  <2> QED
    BY <2>1, <2>2 DEF WatchPolledBy
<1>7. WatchRunsOnce => WatchRunsOnce'
  BY DEF WatchRunsOnce
<1>8. WatchMay(cycle[c])'
  BY <1>1 DEF WatchMay, y
<1>9. /\ cycle' = [cycle EXCEPT ![c] = cycle'[c]] /\ cycle'[c] \in WatchPlaces
      /\ overlap' = overlap
  BY <1>1 DEF y
<1>10. WatchPolledBy(cycle[c]) => WatchPolledBy(cycle[c])'
  BY <1>6 DEF x
<1> QED
  BY <1>3, <1>7, <1>8, <1>9, <1>10, WatchStepped

\* A step of c that leaves the counts and the rows of the hosts as they are: what
\* is told stays true when an event is noted of a target that has fallen.
LEMMA WatchToldStays ==
  ASSUME NEW c \in Cycle, WatchPolledBy(cycle[c]), cycle'[c].left = cycle[c].left,
         UNCHANGED <<streak, downs, quiet, online>>,
         \A t \in Target :
           /\ WatchBusy(cycle[c], t)' <=> WatchBusy(cycle[c], t)
           /\ WatchFalls(cycle[c], t)' => WatchFalls(cycle[c], t)
           /\ WatchEvent(t) => WatchEvent(t)'
           /\ ~WatchEvent(t) /\ WatchEvent(t)' => WatchFalls(cycle[c], t)
           /\ WatchFalls(cycle[c], t) /\ cycle[c].pc \in {"note", "insert"} =>
                WatchEvent(t)' \/ (WatchFalls(cycle[c], t)' /\ cycle'[c].pc \in {"note", "insert"})
  PROVE  WatchPolledBy(cycle[c])'
<1>1. ASSUME NEW t \in Target PROVE WatchTold(cycle[c], t)'
  <2>1. WatchTold(cycle[c], t)
    BY DEF WatchPolledBy
  <2>2. WatchOther(cycle[c], t) => WatchOther(cycle[c], t)'
    BY DEF WatchOther
  <2>3. /\ WatchBusy(cycle[c], t)' <=> WatchBusy(cycle[c], t)
        /\ WatchFalls(cycle[c], t)' => WatchFalls(cycle[c], t)
        /\ WatchEvent(t) => WatchEvent(t)'
        /\ ~WatchEvent(t) /\ WatchEvent(t)' => WatchFalls(cycle[c], t)
        /\ WatchFalls(cycle[c], t) /\ cycle[c].pc \in {"note", "insert"} =>
             WatchEvent(t)' \/ (WatchFalls(cycle[c], t)' /\ cycle'[c].pc \in {"note", "insert"})
    OBVIOUS
  <2> QED
    BY <2>1, <2>2, <2>3 DEF WatchTold
<1> QED
  BY <1>1 DEF WatchPolledBy

LEMMA WatchBeginInv ==
  ASSUME WatchSized, WatchInv, NEW c \in Cycle, W!Begin(c)
  PROVE  WatchInv'
<1> DEFINE y == W!Then(Target, W!Nobody, <<>>)
<1>1. /\ W!At(c, "rest") /\ begun < MaxCycles /\ begun' = begun + 1
      /\ cycle' = [cycle EXCEPT ![c] = y] /\ overlap' = (overlap \/ ~W!Resting)
      /\ UNCHANGED <<now, streak, downs, quiet, online, last, healed, runs>>
  BY DEF W!Begin, W!counts
<1>2. /\ y \in WatchPlaces /\ y.left = Target /\ y.plan = <<>> /\ y.pc \in {"rest", "poll", "note"}
  BY WatchThenPlaces
<1> HIDE DEF y
<1>3. WatchTyped /\ cycle'[c] = y /\ \A d \in Cycle \ {c} : cycle'[d] = cycle[d]
  BY <1>1 DEF WatchInv, WatchTyped
<1>4. WatchTyped'
  <2>1. begun' \in 0 .. MaxCycles
    BY <1>1 DEF WatchInv, WatchTyped, WatchSized
  <2> QED
    BY <1>1, <1>2, <1>3, <2>1 DEF WatchTyped
<1>5. ASSUME ~overlap' PROVE WatchLone' /\ WatchPolled' /\ WatchHealedOnce'
  <2>1. W!Resting /\ WatchPolled /\ WatchHealedOnce /\ WatchPolledBy(W!Rest)
    BY <1>1, <1>5 DEF WatchInv, WatchPolled
  <2>2. WatchLone'
    BY <1>3, <2>1 DEF W!Resting, WatchLone, W!At
  <2>3. \A t \in Target : /\ ~WatchBusy(W!Rest, t) /\ ~WatchFalls(W!Rest, t)
                          /\ ~WatchBusy(y, t) /\ ~WatchFalls(y, t)
    <3>1. W!Rest \in WatchPlaces /\ W!Rest.plan = <<>>
      BY DEF WatchPlaces, W!Rest
    <3> QED
      BY <1>2, <3>1, WatchNothingSaid
  <2>4. ASSUME NEW t \in Target PROVE WatchTold(y, t)'
    <3>1. WatchTold(W!Rest, t)
      BY <2>1 DEF WatchPolledBy
    <3>2. ~WatchBusy(y, t)' /\ ~WatchFalls(y, t)' /\ (WatchEvent(t)' <=> WatchEvent(t))
      BY <1>1, <2>3, <1>3 DEF WatchBusy, WatchFalls, WatchEvent, W!Never
    <3>3. streak'[t] = streak[t] /\ quiet'[t] = quiet[t] /\ downs'[t] = downs[t]
          /\ online'[t] = online[t]
      BY <1>1
    <3>4. y' = y /\ t \in y'.left
      BY <1>2, <1>3 DEF y, W!Then, W!Rest, W!Nobody
    <3> HIDE DEF WatchBusy, WatchFalls, WatchEvent, WatchOther
    <3> QED
      BY <2>3, <3>1, <3>2, <3>3, <3>4 DEF WatchTold
  <2>5. WatchPolled'
    <3>1. WatchPolledBy(y)' /\ y' = y
      BY <2>4 DEF WatchPolledBy, y, W!Then, W!Rest, W!Nobody
    <3>2. W!Resting' => y = W!Rest
      BY <1>2, <1>3, WatchPlaceFacts DEF W!Resting, W!At
    <3>3. W!Rest' = W!Rest
      BY DEF W!Rest, W!Nobody
    <3>4. \A d \in Cycle : ~W!At(d, "rest")' => d = c
      BY <1>3, <2>1 DEF W!Resting, W!At
    <3>5. WatchPolledBy(cycle[c])'
      BY <1>3, <3>1 DEF WatchPolledBy, WatchTold, WatchBusy, WatchFalls, WatchOther
    <3>6. W!Resting' => WatchPolledBy(W!Rest)'
      BY <3>1, <3>2, <3>3 DEF WatchPolledBy, WatchTold, WatchBusy, WatchFalls, WatchOther
    <3> QED
      BY <3>4, <3>5, <3>6 DEF WatchPolled
  <2>6. WatchHealedOnce'
    BY <1>1, <1>2, <1>3, <2>1 DEF WatchHealedOnce, WatchRunsOnce, WatchMay
  <2> QED
    BY <2>2, <2>5, <2>6
<1> QED
  BY <1>4, <1>5 DEF WatchInv

LEMMA WatchAnswersInv ==
  ASSUME WatchSized, WatchInv, NEW c \in Cycle, NEW t \in Target, W!Answers(c, t)
  PROVE  WatchInv'
<1>1. /\ W!Polls(c, t) /\ online' = [online EXCEPT ![Says[t]] = TRUE]
      /\ downs' = [downs EXCEPT ![t] = 0] /\ quiet' = [quiet EXCEPT ![t] = 0]
      /\ UNCHANGED <<now, begun, streak, last, healed, runs, overlap>>
  BY DEF W!Answers, W!Marks, W!Resets
<1>2. PICK p \in WatchResetting : W!Plan(c, t, p)
  <2>1. \A full \in BOOLEAN :
          (IF streak[t] > 0 THEN <<"online">> ELSE <<>>) \o <<"reset">>
            \o (IF full THEN <<"disk">> ELSE <<>>) \in WatchResetting
    <3>1. TAKE full \in BOOLEAN
    <3> DEFINE first == IF streak[t] > 0 THEN <<"online">> ELSE <<>>
               third == IF full THEN <<"disk">> ELSE <<>>
    <3>2. first \in {<<"online">>, <<>>} /\ third \in {<<"disk">>, <<>>}
      OBVIOUS
    <3> HIDE DEF first, third
    <3>3. first \o <<"reset">> \o third \in WatchResetting
      BY <3>2, WatchJoined, Zenon DEF WatchResetting
    <3> QED
      BY <3>3 DEF first, third
  <2> QED
    BY <2>1 DEF W!Answers
<1>3. p \in WatchPlans /\ p # <<>> /\ p # <<"offline">>
  BY <1>2, WatchPlanFacts DEF WatchPlans
<1>4. /\ cycle' = [cycle EXCEPT ![c] = cycle'[c]] /\ cycle'[c] \in WatchPlaces
      /\ cycle'[c].plan = p /\ cycle'[c].at = t
  BY <1>2, <1>3, WatchPlanMoves DEF WatchInv
<1>5. WatchTyped'
  <2>1. 0 \in 0 .. W!Bound
    BY DEF W!Bound, WatchSized
  <2>2. Says[t] \in Name
    BY DEF WatchSized
  <2> QED
    BY <1>1, <1>4, <2>1, <2>2 DEF WatchInv, WatchTyped
<1>6. WatchTold(cycle[c], t)'
  <2>1. WatchBusy(cycle[c], t)'
    BY <1>2, <1>4 DEF WatchBusy
  <2>2. downs'[t] = 0 /\ quiet'[t] = 0 /\ ~(0 >= OfflineAfter) /\ 0 <= 0
    BY <1>1 DEF WatchInv, WatchTyped, WatchSized
  <2>3. Says[t] = t => online'[t]
    BY <1>1 DEF WatchInv, WatchTyped, WatchSized
  <2> QED
    BY <2>1, <2>2, <2>3 DEF WatchTold
<1>7. Says[t] \in Name /\ quiet'[t] = 0
  BY <1>1 DEF WatchSized, WatchInv, WatchTyped
<1>8. \A u \in Target \ {t} : streak'[u] = streak[u] /\ downs'[u] = downs[u] /\ quiet'[u] = quiet[u]
  BY <1>1 DEF WatchInv, WatchTyped
<1> QED
  BY <1>1, <1>2, <1>3, <1>5, <1>6, <1>7, <1>8, WatchPollSteps

\* No data: the streak and the polls without data go up together.
LEMMA WatchCounted ==
  ASSUME WatchSized, WatchInv, NEW t \in Target,
         streak' = W!Counts(streak, t), quiet' = W!Counts(quiet, t)
  PROVE  /\ streak' \in [Target -> 0 .. W!Bound] /\ quiet' \in [Target -> 0 .. W!Bound]
         /\ streak[t] = quiet[t] => streak'[t] = quiet'[t]
         /\ quiet'[t] \in Nat /\ quiet[t] \in Nat /\ quiet'[t] >= quiet[t]
         /\ \A u \in Target \ {t} : streak'[u] = streak[u] /\ quiet'[u] = quiet[u]
<1>1. /\ streak \in [Target -> 0 .. W!Bound] /\ quiet \in [Target -> 0 .. W!Bound]
      /\ W!Bound \in Nat
  BY DEF WatchInv, WatchTyped, W!Bound, WatchSized
<1>2. \A n \in 0 .. W!Bound : W!Counted(n) \in 0 .. W!Bound /\ W!Counted(n) >= n
  BY <1>1 DEF W!Counted
<1>3. /\ streak' = [streak EXCEPT ![t] = W!Counted(streak[t])]
      /\ quiet' = [quiet EXCEPT ![t] = W!Counted(quiet[t])]
  BY DEF W!Counts
<1> QED
  BY <1>1, <1>2, <1>3

LEMMA WatchPingsInv ==
  ASSUME WatchSized, WatchInv, NEW c \in Cycle, NEW t \in Target, W!Pings(c, t)
  PROVE  WatchInv'
<1>1. /\ W!Polls(c, t) /\ online' = [online EXCEPT ![t] = TRUE]
      /\ streak' = W!Counts(streak, t) /\ quiet' = W!Counts(quiet, t)
      /\ downs' = [downs EXCEPT ![t] = 0]
      /\ UNCHANGED <<now, begun, last, healed, runs, overlap>>
  BY DEF W!Pings, W!Marks, W!Resets
<1>2. PICK p \in {<<>>, <<"nowinrm">>} : W!Plan(c, t, p)
  BY DEF W!Pings
<1>3. p \in WatchPlans \cup {<<>>} /\ p \notin WatchResetting
  BY <1>2, WatchPlanFacts DEF WatchPlans
<1>4. /\ cycle' = [cycle EXCEPT ![c] = cycle'[c]] /\ cycle'[c] \in WatchPlaces
      /\ cycle'[c].plan = p
  BY <1>2, <1>3, WatchPlanMoves DEF WatchInv
<1>5. t \in Name
  BY DEF WatchSized
<1>6. /\ streak' \in [Target -> 0 .. W!Bound] /\ quiet' \in [Target -> 0 .. W!Bound]
      /\ streak[t] = quiet[t] => streak'[t] = quiet'[t]
      /\ quiet'[t] \in Nat
      /\ \A u \in Target \ {t} : streak'[u] = streak[u] /\ quiet'[u] = quiet[u]
  BY <1>1, WatchCounted
<1>7. WatchTyped'
  <2>1. 0 \in 0 .. W!Bound
    BY DEF W!Bound, WatchSized
  <2> QED
    BY <1>1, <1>4, <1>5, <1>6, <2>1 DEF WatchInv, WatchTyped
<1>8. WatchTold(cycle[c], t) /\ ~WatchBusy(cycle[c], t) => WatchTold(cycle[c], t)'
  <2> SUFFICES ASSUME streak[t] = quiet[t] PROVE WatchTold(cycle[c], t)'
    BY DEF WatchTold
  <2>1. ~WatchBusy(cycle[c], t)'
    BY <1>3, <1>4 DEF WatchBusy
  <2>2. downs'[t] = 0 /\ 0 <= quiet'[t] /\ ~(0 >= OfflineAfter) /\ online'[t]
    BY <1>1, <1>5, <1>6 DEF WatchInv, WatchTyped, WatchSized
  <2> QED
    BY <1>6, <2>1, <2>2 DEF WatchTold
<1>9. \A u \in Target \ {t} : downs'[u] = downs[u]
  BY <1>1 DEF WatchInv, WatchTyped
<1> QED
  BY <1>1, <1>2, <1>3, <1>5, <1>6, <1>7, <1>8, <1>9, WatchPollSteps

LEMMA WatchDownInv ==
  ASSUME WatchSized, WatchInv, NEW c \in Cycle, NEW t \in Target, W!Down(c, t)
  PROVE  WatchInv'
<1>1. /\ W!Polls(c, t)
      /\ streak' = W!Counts(streak, t) /\ quiet' = W!Counts(quiet, t)
      /\ downs' = [downs EXCEPT ![t] = W!Counted(@)]
      /\ UNCHANGED <<now, begun, last, healed, runs, overlap>>
  BY DEF W!Down, W!Counts
<1>2. PICK p \in {<<>>, <<"offline">>} :
        /\ W!Plan(c, t, p)
        /\ p = <<"offline">> => streak'[t] >= OfflineAfter /\ online' = [online EXCEPT ![t] = FALSE]
        /\ p # <<"offline">> => ~(streak'[t] >= OfflineAfter) /\ online' = online
  BY WatchPlanFacts DEF W!Down, W!Marks
<1>3. p \in WatchPlans \cup {<<>>} /\ p \notin WatchResetting
  BY <1>2, WatchPlanFacts DEF WatchPlans
<1>4. /\ cycle' = [cycle EXCEPT ![c] = cycle'[c]] /\ cycle'[c] \in WatchPlaces
      /\ cycle'[c].plan = p
      /\ p # <<>> => cycle'[c].pc = "note" /\ cycle'[c].at = t
  BY <1>2, <1>3, WatchPlanMoves DEF WatchInv
<1>5. t \in Name
  BY DEF WatchSized
<1>6. /\ streak' \in [Target -> 0 .. W!Bound] /\ quiet' \in [Target -> 0 .. W!Bound]
      /\ streak[t] = quiet[t] => streak'[t] = quiet'[t]
      /\ quiet'[t] \in Nat /\ quiet[t] \in Nat /\ quiet'[t] >= quiet[t]
      /\ \A u \in Target \ {t} : streak'[u] = streak[u] /\ quiet'[u] = quiet[u]
  BY <1>1, WatchCounted
<1>7. /\ downs' \in [Target -> 0 .. W!Bound]
      /\ downs[t] <= quiet[t] => downs'[t] <= quiet'[t]
      /\ \A u \in Target \ {t} : downs'[u] = downs[u]
  <2>1. /\ downs \in [Target -> 0 .. W!Bound] /\ quiet \in [Target -> 0 .. W!Bound]
        /\ W!Bound \in Nat
    BY DEF WatchInv, WatchTyped, W!Bound, WatchSized
  <2>2. \A n \in 0 .. W!Bound : W!Counted(n) \in 0 .. W!Bound
    BY <2>1 DEF W!Counted
  <2>3. \A n, m \in 0 .. W!Bound : n <= m => W!Counted(n) <= W!Counted(m)
    BY <2>1 DEF W!Counted
  <2>4. quiet'[t] = W!Counted(quiet[t]) /\ downs'[t] = W!Counted(downs[t])
    BY <1>1, <2>1 DEF W!Counts
  <2> QED
    BY <1>1, <2>1, <2>2, <2>3, <2>4
<1>8. online' \in [Name -> BOOLEAN]
  BY <1>2, <1>5 DEF WatchInv, WatchTyped
<1>9. WatchTyped'
  BY <1>1, <1>4, <1>6, <1>7, <1>8 DEF WatchInv, WatchTyped
<1>10. WatchTold(cycle[c], t) /\ ~WatchBusy(cycle[c], t) /\ ~WatchFalls(cycle[c], t)
         => WatchTold(cycle[c], t)'
  <2> SUFFICES ASSUME WatchTold(cycle[c], t), ~WatchBusy(cycle[c], t), ~WatchFalls(cycle[c], t)
               PROVE  WatchTold(cycle[c], t)'
    OBVIOUS
  <2>1. streak'[t] = quiet'[t] /\ downs'[t] <= quiet'[t] /\ downs'[t] \in Nat
    BY <1>6, <1>7 DEF WatchTold
  <2>2. ~WatchBusy(cycle[c], t)'
    BY <1>3, <1>4 DEF WatchBusy
  <2>3. CASE p = <<"offline">>
    <3>1. WatchFalls(cycle[c], t)' /\ cycle'[c].pc = "note"
      BY <1>4, <2>3, WatchPlanFacts DEF WatchFalls
    <3>2. ~online'[t] /\ quiet'[t] >= OfflineAfter
      BY <1>2, <1>5, <2>1, <2>3 DEF WatchInv, WatchTyped
    <3> QED
      BY <2>1, <2>2, <3>1, <3>2 DEF WatchTold
  <2>4. CASE p # <<"offline">>
    <3>1. ~WatchFalls(cycle[c], t)' /\ WatchEvent(t)' = WatchEvent(t) /\ online' = online
      BY <1>1, <1>2, <1>4, <2>4 DEF WatchFalls, WatchEvent, W!Never
    <3>2. ~(downs'[t] >= OfflineAfter)
      BY <1>2, <1>6, <2>1, <2>4 DEF WatchSized
    <3>3. ~online[t] /\ Says[t] = t => quiet[t] >= OfflineAfter \/ ~WatchEvent(t)
      BY DEF WatchTold
    <3>4. quiet[t] >= OfflineAfter => quiet'[t] >= OfflineAfter
      BY <1>6 DEF WatchSized
    <3> QED
      BY <2>1, <2>2, <3>1, <3>2, <3>3, <3>4 DEF WatchTold
  <2> QED
    BY <2>3, <2>4
<1>11. online' = [online EXCEPT ![t] = FALSE] \/ online' = online
  BY <1>2
<1>12. \A u \in Target \ {t} : streak'[u] = streak[u] /\ downs'[u] = downs[u] /\ quiet'[u] = quiet[u]
  BY <1>6, <1>7
<1> QED
  BY <1>1, <1>2, <1>3, <1>5, <1>9, <1>10, <1>11, <1>12, WatchPollSteps

\* The things of a plan.
LEMMA WatchThings ==
  ASSUME WatchTyped, NEW c \in Cycle, cycle[c].pc \in {"note", "insert", "rate", "heal"}
  PROVE  /\ cycle[c].plan \in WatchPlans /\ ~W!At(c, "rest") /\ cycle[c].at \in Target
         /\ W!Head1(c) # "reset" => W!Head1(c) \in W!Kinds
         /\ cycle[c].pc # "note" => W!Head1(c) \in W!Kinds /\ W!Head1(c) # "reset"
         /\ cycle[c].pc \in {"rate", "heal"} => W!Head1(c) \in W!Severe
         /\ W!Head1(c) = "reset" => cycle[c].plan \in WatchResetting
         /\ W!Head1(c) = "offline" <=> cycle[c].plan = <<"offline">>
<1>1. cycle[c] \in WatchPlaces
  BY DEF WatchTyped
<1>2. cycle[c].plan \in WatchPlans /\ cycle[c].at \in Target
  BY <1>1, WatchPlaceFacts
<1>3. Head(cycle[c].plan) \in W!Steps /\ "reset" \notin W!Kinds
  BY <1>2, WatchPlanFacts DEF W!Kinds
<1>4. Head(<<"offline">>) = "offline" /\ Head(<<"disk">>) = "disk"
  OBVIOUS
<1>5. /\ cycle[c].pc \in {"rate", "heal"} => Head(cycle[c].plan) \in W!Severe
      /\ cycle[c].pc # "note" => Head(cycle[c].plan) # "reset"
      /\ Head(cycle[c].plan) = "offline" <=> cycle[c].plan = <<"offline">>
  BY <1>1, <1>2, <1>4, WatchPlaceFacts, WatchPlanFacts DEF W!Severe
<1>6. Head(cycle[c].plan) = "reset" => cycle[c].plan \in WatchResetting
  BY <1>2, <1>3, WatchPlanFacts
<1> QED
  BY <1>2, <1>3, <1>5, <1>6 DEF W!Head1, W!Steps, W!At

\* What is worked off without a reset leaves a plan of the same kind.
LEMMA WatchWorked ==
  ASSUME WatchTyped, NEW c \in Cycle, W!Done(c), cycle[c].pc \in {"note", "insert", "rate", "heal"},
         W!Head1(c) # "reset"
  PROVE  /\ cycle' = [cycle EXCEPT ![c] = cycle'[c]] /\ cycle'[c] \in WatchPlaces
         /\ cycle'[c].pc \in {"rest", "poll", "note"} /\ cycle'[c].left = cycle[c].left
         /\ \A t : WatchBusy(cycle[c], t)' <=> WatchBusy(cycle[c], t)
         /\ \A t : ~WatchFalls(cycle[c], t)'
<1>1. cycle[c].plan \in WatchPlans
  BY WatchThings
<1>2. /\ cycle' = [cycle EXCEPT ![c] = cycle'[c]] /\ cycle'[c] \in WatchPlaces
      /\ cycle'[c].pc \in {"rest", "poll", "note"}
      /\ cycle'[c].left = cycle[c].left /\ cycle'[c].plan = Tail(cycle[c].plan)
      /\ cycle'[c].plan # <<>> => cycle'[c].at = cycle[c].at
  BY <1>1, WatchDoneMoves
<1>3. cycle'[c].plan # <<"offline">>
  BY <1>1, <1>2, WatchPlanFacts
<1>4. CASE cycle[c].plan \in WatchResetting
  <2>1. Tail(cycle[c].plan) \in WatchResetting /\ Tail(cycle[c].plan) # <<>>
    BY <1>4, WatchPlanFacts DEF W!Head1
  <2> QED
    BY <1>2, <1>3, <1>4, <2>1 DEF WatchBusy, WatchFalls
<1>5. CASE cycle[c].plan \notin WatchResetting
  <2>1. Tail(cycle[c].plan) = <<>> /\ <<>> \notin WatchResetting
    BY <1>1, <1>5, WatchPlanFacts
  <2> QED
    BY <1>2, <1>3, <1>5, <2>1 DEF WatchBusy, WatchFalls
<1> QED
  BY <1>4, <1>5

\* The plan stays while its first thing is worked on.
LEMMA WatchWorking ==
  ASSUME WatchTyped, NEW c \in Cycle, NEW pc, W!Go(c, pc), cycle[c].pc \in {"note", "insert", "rate"},
         W!Head1(c) # "reset",
         pc = "insert" \/ (pc \in {"rate", "heal"} /\ W!Head1(c) \in W!Severe)
  PROVE  /\ cycle' = [cycle EXCEPT ![c] = cycle'[c]] /\ cycle'[c] \in WatchPlaces
         /\ cycle'[c].pc = pc /\ cycle'[c].left = cycle[c].left
         /\ cycle'[c].at = cycle[c].at /\ cycle'[c].plan = cycle[c].plan
         /\ \A t : WatchBusy(cycle[c], t)' <=> WatchBusy(cycle[c], t)
         /\ \A t : WatchFalls(cycle[c], t)' <=> WatchFalls(cycle[c], t)
<1>1. cycle[c].plan \in WatchPlans /\ cycle[c].at \in Target
  BY WatchThings
<1>2. cycle[c].left \in SUBSET Target
  BY WatchPlaceFacts DEF WatchTyped
<1>3. [pc |-> pc, left |-> cycle[c].left, at |-> cycle[c].at, plan |-> cycle[c].plan]
         \in WatchPlaces
  <2>1. CASE pc = "insert"
    BY <1>1, <1>2, <2>1 DEF WatchPlaces, W!Head1
  <2>2. CASE pc \in {"rate", "heal"} /\ W!Head1(c) \in W!Severe
    <3>1. cycle[c].plan \in {<<"offline">>, <<"disk">>}
      BY <1>1, <2>2, WatchPlanFacts DEF W!Head1
    <3> QED
      BY <1>1, <1>2, <2>2, <3>1 DEF WatchPlaces
  <2> QED
    BY <2>1, <2>2
<1>4. /\ cycle' = [cycle EXCEPT ![c] = cycle'[c]] /\ cycle'[c] \in WatchPlaces
      /\ cycle'[c].pc = pc /\ cycle'[c].left = cycle[c].left
      /\ cycle'[c].at = cycle[c].at /\ cycle'[c].plan = cycle[c].plan
  BY <1>3, WatchGoMoves
<1> QED
  BY <1>4 DEF WatchBusy, WatchFalls

LEMMA WatchResetInv ==
  ASSUME WatchSized, WatchInv, NEW c \in Cycle, W!Reset(c)
  PROVE  WatchInv'
<1> DEFINE t == cycle[c].at
<1>1. /\ W!At(c, "note") /\ W!Head1(c) = "reset" /\ streak' = [streak EXCEPT ![t] = 0]
      /\ W!Done(c)
      /\ UNCHANGED <<now, begun, online, last, healed, runs, downs, quiet, overlap>>
  BY DEF W!Reset, W!Resets
<1>2. /\ cycle[c].plan \in WatchPlans /\ cycle[c].plan \in WatchResetting /\ t \in Target
      /\ ~W!At(c, "rest")
  BY <1>1, WatchThings DEF W!At, WatchInv
<1>3. /\ cycle' = [cycle EXCEPT ![c] = cycle'[c]] /\ cycle'[c] \in WatchPlaces
      /\ cycle'[c].pc \in {"rest", "poll", "note"}
      /\ cycle'[c].left = cycle[c].left /\ cycle'[c].plan = Tail(cycle[c].plan)
  BY <1>1, <1>2, WatchDoneMoves DEF WatchInv
<1>4. cycle'[c].plan \in {<<>>, <<"disk">>}
  BY <1>1, <1>2, <1>3, WatchPlanFacts DEF W!Head1
<1> HIDE DEF t
<1>5. \A u : /\ ~WatchBusy(cycle[c], u)' /\ ~WatchFalls(cycle[c], u)'
             /\ ~WatchFalls(cycle[c], u) /\ (WatchBusy(cycle[c], u) <=> u = t)
  BY <1>2, <1>4, WatchPlanFacts DEF WatchBusy, WatchFalls, t
<1>6. WatchTyped'
  <2>1. streak' \in [Target -> 0 .. W!Bound]
    BY <1>1, <1>2 DEF W!Bound, WatchSized, WatchInv, WatchTyped
  <2>2. cycle' \in [Cycle -> WatchPlaces] /\ WatchTyped
    BY <1>3, WatchMoved DEF WatchInv
  <2> QED
    BY <1>1, <2>1, <2>2 DEF WatchTyped
<1>7. ASSUME WatchPolledBy(cycle[c]), NEW u \in Target PROVE WatchTold(cycle[c], u)'
  <2>1. WatchTold(cycle[c], u)
    BY <1>7 DEF WatchPolledBy
  <2>2. streak'[u] = quiet'[u]
    <3>1. CASE u = t
      BY <1>1, <1>2, <1>5, <2>1, <3>1 DEF WatchTold, WatchInv, WatchTyped
    <3>2. CASE u # t
      BY <1>1, <1>2, <1>5, <2>1, <3>2 DEF WatchTold, WatchInv, WatchTyped
    <3> QED
      BY <3>1, <3>2
  <2>3. /\ ~WatchBusy(cycle[c], u)' /\ ~WatchFalls(cycle[c], u)' /\ ~WatchFalls(cycle[c], u)
        /\ WatchEvent(u)' = WatchEvent(u)
    BY <1>1, <1>5 DEF WatchEvent, W!Never
  <2>4. WatchOther(cycle[c], u) => WatchOther(cycle[c], u)'
    BY <1>1, <1>3 DEF WatchOther
  <2>5. UNCHANGED <<quiet, downs, online>> /\ cycle'[c].left = cycle[c].left
    BY <1>1, <1>3
  <2> QED
    BY <2>1, <2>2, <2>3, <2>4, <2>5 DEF WatchTold
<1>8. WatchPolledBy(cycle[c]) => WatchPolledBy(cycle[c])'
  BY <1>7 DEF WatchPolledBy
<1>9. WatchRunsOnce => WatchRunsOnce'
  BY <1>1 DEF WatchRunsOnce
<1>10. WatchMay(cycle[c])'
  BY <1>3 DEF WatchMay
<1> QED
  BY <1>1, <1>2, <1>3, <1>6, <1>8, <1>9, <1>10, WatchStepped

LEMMA WatchNoteInv ==
  ASSUME WatchSized, WatchInv, NEW c \in Cycle, W!NoteEvent(c)
  PROVE  WatchInv'
<1>1. /\ W!At(c, "note") /\ cycle[c].pc = "note" /\ W!Head1(c) # "reset" /\ WatchTyped
      /\ UNCHANGED <<now, begun, streak, downs, quiet, online, last, healed, runs, overlap>>
  BY DEF W!NoteEvent, W!At, W!counts, WatchInv
<1>2. /\ cycle' = [cycle EXCEPT ![c] = cycle'[c]] /\ cycle'[c] \in WatchPlaces
      /\ cycle'[c].pc # "heal" /\ cycle'[c].left = cycle[c].left
      /\ \A t \in Target :
           /\ WatchBusy(cycle[c], t)' <=> WatchBusy(cycle[c], t)
           /\ WatchFalls(cycle[c], t)' => WatchFalls(cycle[c], t)
           /\ WatchFalls(cycle[c], t) =>
                WatchEvent(t) \/ (WatchFalls(cycle[c], t)' /\ cycle'[c].pc \in {"note", "insert"})
  <2>1. CASE W!Duplicate(W!Head1(c), cycle[c].at) /\ W!Done(c)
    <3>1. \A t \in Target : WatchFalls(cycle[c], t) => WatchEvent(t)
      BY <1>1, <2>1, WatchThings DEF WatchFalls, WatchEvent, W!Duplicate
    <3>2. /\ cycle' = [cycle EXCEPT ![c] = cycle'[c]] /\ cycle'[c] \in WatchPlaces
          /\ cycle'[c].pc \in {"rest", "poll", "note"} /\ cycle'[c].left = cycle[c].left
          /\ \A t : WatchBusy(cycle[c], t)' <=> WatchBusy(cycle[c], t)
          /\ \A t : ~WatchFalls(cycle[c], t)'
      BY <1>1, <2>1, WatchWorked
    <3> QED
      BY <3>1, <3>2
  <2>2. CASE W!Go(c, "insert")
    <3>1. /\ cycle' = [cycle EXCEPT ![c] = cycle'[c]] /\ cycle'[c] \in WatchPlaces
          /\ cycle'[c].pc = "insert" /\ cycle'[c].left = cycle[c].left
          /\ \A t : WatchBusy(cycle[c], t)' <=> WatchBusy(cycle[c], t)
          /\ \A t : WatchFalls(cycle[c], t)' <=> WatchFalls(cycle[c], t)
      BY <1>1, <2>2, WatchWorking
    <3> QED
      BY <3>1
  <2> QED
    BY <2>1, <2>2 DEF W!NoteEvent
<1>3. WatchTyped'
  <2>1. cycle' \in [Cycle -> WatchPlaces]
    BY <1>1, <1>2, WatchMoved
  <2> QED
    BY <1>1, <2>1 DEF WatchTyped
<1>4. \A t \in Target : WatchEvent(t)' <=> WatchEvent(t)
  BY <1>1 DEF WatchEvent, W!Never
<1>5. WatchPolledBy(cycle[c]) => WatchPolledBy(cycle[c])'
  BY <1>1, <1>2, <1>4, WatchToldStays
<1>6. WatchRunsOnce => WatchRunsOnce'
  BY <1>1 DEF WatchRunsOnce
<1>7. WatchMay(cycle[c])'
  BY <1>2 DEF WatchMay
<1>8. ~W!At(c, "rest")
  BY <1>1 DEF W!At
<1> QED
  BY <1>1, <1>2, <1>3, <1>5, <1>6, <1>7, <1>8, WatchStepped

LEMMA WatchInsertInv ==
  ASSUME WatchSized, WatchInv, NEW c \in Cycle, W!Insert(c)
  PROVE  WatchInv'
<1> DEFINE k == W!Head1(c)
           t == cycle[c].at
<1>1. /\ cycle[c].pc = "insert" /\ WatchTyped
      /\ last' = [last EXCEPT ![k][t] = now]
      /\ UNCHANGED <<now, begun, streak, downs, quiet, online, healed, runs, overlap>>
  BY DEF W!Insert, W!At, W!counts, WatchInv
<1>2. /\ k \in W!Kinds /\ k # "reset" /\ t \in Target /\ t \in Name
      /\ k = "offline" <=> cycle[c].plan = <<"offline">>
  BY <1>1, WatchThings DEF WatchSized
<1>3. /\ cycle' = [cycle EXCEPT ![c] = cycle'[c]] /\ cycle'[c] \in WatchPlaces
      /\ cycle'[c].pc # "heal" /\ cycle'[c].left = cycle[c].left
      /\ \A u : WatchBusy(cycle[c], u)' <=> WatchBusy(cycle[c], u)
      /\ \A u : WatchFalls(cycle[c], u)' => WatchFalls(cycle[c], u)
  <2>1. CASE W!Done(c)
    BY <1>1, <1>2, <2>1, WatchWorked
  <2>2. CASE W!Go(c, "rate") /\ k \in W!Severe
    BY <1>1, <1>2, <2>2, WatchWorking
  <2> QED
    BY <2>1, <2>2 DEF W!Insert
<1> HIDE DEF k, t
<1>4. /\ last' \in [W!Kinds -> [Name -> W!Never .. MaxTick]] /\ last'[k][t] # W!Never
      /\ \A j \in W!Kinds, n \in Name : <<j, n>> # <<k, t>> => last'[j][n] = last[j][n]
  <2>1. now \in W!Never .. MaxTick /\ now # W!Never
    BY <1>1 DEF WatchTyped, W!Never
  <2>2. last \in [W!Kinds -> [Name -> W!Never .. MaxTick]]
    BY <1>1 DEF WatchTyped
  <2> QED
    BY <1>1, <1>2, <2>1, <2>2
<1>5. WatchTyped'
  <2>1. cycle' \in [Cycle -> WatchPlaces]
    BY <1>1, <1>3, WatchMoved
  <2> QED
    BY <1>1, <1>4, <2>1 DEF WatchTyped
<1>6. \A u \in Target : /\ WatchEvent(u) => WatchEvent(u)'
                        /\ ~WatchEvent(u) /\ WatchEvent(u)' => WatchFalls(cycle[c], u)
                        /\ WatchFalls(cycle[c], u) => WatchEvent(u)'
  <2> TAKE u \in Target
  <2>1. u \in Name /\ "offline" \in W!Kinds
    BY DEF WatchSized, W!Kinds
  <2>2. WatchFalls(cycle[c], u) <=> k = "offline" /\ t = u
    BY <1>2 DEF WatchFalls, t
  <2>3. CASE k = "offline" /\ t = u
    BY <1>4, <2>2, <2>3 DEF WatchEvent, W!Never
  <2>4. CASE ~(k = "offline" /\ t = u)
    <3>1. last'["offline"][u] = last["offline"][u]
      BY <1>4, <2>1, <2>4
    <3> QED
      BY <2>2, <2>4, <3>1 DEF WatchEvent, W!Never
  <2> QED
    BY <2>3, <2>4
<1>7. WatchPolledBy(cycle[c]) => WatchPolledBy(cycle[c])'
  BY <1>1, <1>3, <1>6, WatchToldStays
<1>8. WatchRunsOnce => WatchRunsOnce'
  BY <1>1 DEF WatchRunsOnce
<1>9. WatchMay(cycle[c])'
  BY <1>3 DEF WatchMay
<1>10. ~W!At(c, "rest")
  BY <1>1 DEF W!At
<1> QED
  BY <1>1, <1>3, <1>5, <1>7, <1>8, <1>9, <1>10, WatchStepped

LEMMA WatchRateInv ==
  ASSUME WatchSized, WatchInv, NEW c \in Cycle, W!RateOk(c)
  PROVE  WatchInv'
<1>1. /\ cycle[c].pc = "rate" /\ WatchTyped
      /\ UNCHANGED <<now, begun, streak, downs, quiet, online, last, healed, runs, overlap>>
  BY DEF W!RateOk, W!At, W!counts, WatchInv
<1>2. W!Head1(c) \in W!Severe /\ W!Head1(c) # "reset"
  BY <1>1, WatchThings
<1>3. /\ cycle' = [cycle EXCEPT ![c] = cycle'[c]] /\ cycle'[c] \in WatchPlaces
      /\ cycle'[c].left = cycle[c].left
      /\ \A t : WatchBusy(cycle[c], t)' <=> WatchBusy(cycle[c], t)
      /\ \A t : WatchFalls(cycle[c], t)' => WatchFalls(cycle[c], t)
      /\ WatchMay(cycle[c])'
  <2>1. CASE W!Done(c)
    BY <1>1, <1>2, <2>1, WatchWorked DEF WatchMay
  <2>2. CASE W!Go(c, "heal") /\ healed[W!Head1(c)][W!Row(c)] # now
    <3>1. /\ cycle' = [cycle EXCEPT ![c] = cycle'[c]] /\ cycle'[c] \in WatchPlaces
          /\ cycle'[c].left = cycle[c].left
          /\ cycle'[c].at = cycle[c].at /\ cycle'[c].plan = cycle[c].plan
          /\ \A t : WatchBusy(cycle[c], t)' <=> WatchBusy(cycle[c], t)
          /\ \A t : WatchFalls(cycle[c], t)' <=> WatchFalls(cycle[c], t)
      BY <1>1, <1>2, <2>2, WatchWorking
    <3>2. WatchMay(cycle[c])'
      BY <1>1, <2>2, <3>1 DEF WatchMay, W!Head1, W!Row
    <3> QED
      BY <3>1, <3>2
  <2> QED
    BY <2>1, <2>2 DEF W!RateOk
<1>4. WatchTyped'
  <2>1. cycle' \in [Cycle -> WatchPlaces]
    BY <1>1, <1>3, WatchMoved
  <2> QED
    BY <1>1, <2>1 DEF WatchTyped
<1>5. \A t \in Target : WatchEvent(t)' <=> WatchEvent(t)
  BY <1>1 DEF WatchEvent, W!Never
<1>6. WatchPolledBy(cycle[c]) => WatchPolledBy(cycle[c])'
  BY <1>1, <1>3, <1>5, WatchToldStays
<1>7. WatchRunsOnce => WatchRunsOnce'
  BY <1>1 DEF WatchRunsOnce
<1>8. ~W!At(c, "rest")
  BY <1>1 DEF W!At
<1> QED
  BY <1>1, <1>3, <1>4, <1>6, <1>7, <1>8, WatchStepped

LEMMA WatchHealInv ==
  ASSUME WatchSized, WatchInv, NEW c \in Cycle, W!Heal(c)
  PROVE  WatchInv'
<1> DEFINE k == W!Head1(c)
           n == W!Row(c)
<1>1. /\ cycle[c].pc = "heal" /\ WatchTyped /\ W!Done(c)
      /\ healed' = [healed EXCEPT ![k][n] = now] /\ runs' = [runs EXCEPT ![k][n] = @ + 1]
      /\ last' = last \/ last' = [last EXCEPT !["runbook"][n] = now]
      /\ UNCHANGED <<now, begun, streak, downs, quiet, online, overlap>>
  BY DEF W!Heal, W!At, W!counts, WatchInv
<1>2. k \in W!Kinds /\ k # "reset" /\ n \in Name
  <2>1. cycle[c].at \in Target
    BY <1>1, WatchThings
  <2> QED
    BY <1>1, <2>1, WatchThings DEF WatchSized, W!Row
<1>3. /\ cycle' = [cycle EXCEPT ![c] = cycle'[c]] /\ cycle'[c] \in WatchPlaces
      /\ cycle'[c].pc \in {"rest", "poll", "note"} /\ cycle'[c].left = cycle[c].left
      /\ \A t : WatchBusy(cycle[c], t)' <=> WatchBusy(cycle[c], t)
      /\ \A t : ~WatchFalls(cycle[c], t)'
  BY <1>1, <1>2, WatchWorked
<1>4. WatchMay(cycle[c]) => healed[k][n] # now
  BY <1>1 DEF WatchMay, W!Head1, W!Row
<1> HIDE DEF k, n
<1>5. /\ healed' \in [W!Kinds -> [Name -> W!Never .. MaxTick]]
      /\ runs' \in [W!Kinds -> [Name -> Nat]]
      /\ healed'[k][n] = now /\ runs'[k][n] = runs[k][n] + 1
      /\ \A j \in W!Kinds, m \in Name : <<j, m>> # <<k, n>> =>
            healed'[j][m] = healed[j][m] /\ runs'[j][m] = runs[j][m]
  <2>1. now \in W!Never .. MaxTick
    BY <1>1 DEF WatchTyped, W!Never
  <2>2. /\ healed \in [W!Kinds -> [Name -> W!Never .. MaxTick]]
        /\ runs \in [W!Kinds -> [Name -> Nat]]
    BY <1>1 DEF WatchTyped
  <2> QED
    BY <1>1, <1>2, <2>1, <2>2
<1>6. /\ last' \in [W!Kinds -> [Name -> W!Never .. MaxTick]]
      /\ last'["offline"] = last["offline"]
  <2>1. now \in W!Never .. MaxTick /\ "runbook" \in W!Kinds /\ "offline" \in W!Kinds
    BY <1>1 DEF WatchTyped, W!Never, W!Kinds
  <2>2. last \in [W!Kinds -> [Name -> W!Never .. MaxTick]]
    BY <1>1 DEF WatchTyped
  <2>3. CASE last' = [last EXCEPT !["runbook"][n] = now]
    BY <1>2, <2>1, <2>2, <2>3
  <2>4. CASE last' = last
    BY <2>2, <2>4
  <2> QED
    BY <1>1, <2>3, <2>4
<1>7. WatchTyped'
  <2>1. cycle' \in [Cycle -> WatchPlaces]
    BY <1>1, <1>3, WatchMoved
  <2> QED
    BY <1>1, <1>5, <1>6, <2>1 DEF WatchTyped
<1>8. \A t \in Target : WatchEvent(t)' <=> WatchEvent(t)
  BY <1>6 DEF WatchEvent, W!Never
<1>9. WatchPolledBy(cycle[c]) => WatchPolledBy(cycle[c])'
  BY <1>1, <1>3, <1>8, WatchToldStays
<1>10. WatchRunsOnce /\ WatchMay(cycle[c]) => WatchRunsOnce'
  <2> SUFFICES ASSUME WatchRunsOnce, WatchMay(cycle[c]), NEW j \in W!Kinds, NEW m \in Name
               PROVE  runs'[j][m] = 0 \/ (runs'[j][m] = 1 /\ healed'[j][m] = now')
    BY DEF WatchRunsOnce
  <2>1. runs[j][m] = 0 \/ (runs[j][m] = 1 /\ healed[j][m] = now)
    BY DEF WatchRunsOnce
  <2>2. CASE j = k /\ m = n
    BY <1>1, <1>4, <1>5, <2>1, <2>2
  <2>3. CASE ~(j = k /\ m = n)
    BY <1>1, <1>5, <2>1, <2>3
  <2> QED
    BY <2>2, <2>3
<1>11. WatchMay(cycle[c])'
  BY <1>3 DEF WatchMay
<1>12. ~W!At(c, "rest")
  BY <1>1 DEF W!At
<1> QED
  BY <1>1, <1>3, <1>7, <1>9, <1>10, <1>11, <1>12, WatchStepped

LEMMA WatchTickInv ==
  ASSUME WatchSized, WatchInv, W!Tick
  PROVE  WatchInv'
<1>1. /\ W!Resting /\ now' = now + 1 /\ now < MaxTick
      /\ runs' = [k \in W!Kinds |-> [n \in Name |-> 0]]
      /\ UNCHANGED <<begun, streak, downs, quiet, online, last, healed, cycle, overlap>>
  BY DEF W!Tick, W!counts
<1>2. WatchTyped'
  BY <1>1 DEF WatchInv, WatchTyped, WatchSized
<1>3. WatchHealedOnce'
  BY <1>1 DEF WatchHealedOnce, WatchRunsOnce, WatchMay, W!Resting, W!At
<1>4. WatchLone => WatchLone'
  BY <1>1 DEF WatchLone, W!At
<1>5. \A t \in Target : WatchEvent(t)' <=> WatchEvent(t)
  BY <1>1 DEF WatchEvent, W!Never
<1>6. WatchPolledBy(W!Rest) => WatchPolledBy(W!Rest)'
  BY <1>1, <1>5 DEF WatchPolledBy, WatchTold, WatchOther, WatchBusy, WatchFalls, W!Rest, W!Nobody
<1>7. WatchPolled => WatchPolled'
  BY <1>1, <1>6 DEF WatchPolled, W!Resting, W!At
<1> QED
  BY <1>1, <1>2, <1>3, <1>4, <1>7 DEF WatchInv

LEMMA WatchNextInv ==
  ASSUME WatchSized, WatchInv, [W!Next]_watchVars
  PROVE  WatchInv'
<1>1. CASE UNCHANGED watchVars
  <2>1. /\ UNCHANGED <<now, begun, streak, downs, quiet, online, last, healed, runs>>
        /\ UNCHANGED <<cycle, overlap>>
    BY <1>1 DEF watchVars
  <2>2. WatchTyped' /\ (WatchLone => WatchLone') /\ (WatchHealedOnce => WatchHealedOnce')
    BY <2>1 DEF WatchInv, WatchTyped, WatchLone, WatchHealedOnce, WatchRunsOnce, WatchMay, W!At
  <2>3. WatchPolled => WatchPolled'
    BY <2>1 DEF WatchPolled, WatchPolledBy, WatchTold, WatchOther, WatchBusy, WatchFalls,
       WatchEvent, W!Resting, W!At, W!Rest, W!Nobody, W!Never
  <2> QED
    BY <2>1, <2>2, <2>3 DEF WatchInv
<1> QED
  BY <1>1, WatchBeginInv, WatchAnswersInv, WatchPingsInv, WatchDownInv, WatchResetInv,
     WatchNoteInv, WatchInsertInv, WatchRateInv, WatchHealInv, WatchTickInv DEF W!Next

LEMMA WatchSound == ASSUME WatchSized, WatchInv PROVE W!TypeOK /\ W!WatchTells
<1>1. \A c \in Cycle : cycle[c] \in WatchPlaces
  BY DEF WatchInv, WatchTyped
<1>2. \A c \in Cycle : /\ cycle[c].pc \in {"rest", "poll", "note", "insert", "rate", "heal"}
                       /\ cycle[c].left \subseteq Target
                       /\ cycle[c].at \in Target \cup {W!Nobody}
                       /\ \A i \in DOMAIN cycle[c].plan : cycle[c].plan[i] \in W!Steps
  <2>1. \A i \in DOMAIN <<>> : FALSE
    OBVIOUS
  <2> QED
    BY <1>1, <2>1, WatchPlaceFacts, WatchPlanFacts
<1>3. W!TypeOK
  BY <1>2 DEF WatchInv, WatchTyped, W!TypeOK
<1>4. ASSUME ~overlap, W!Resting, NEW t \in Target
      PROVE  /\ downs[t] >= OfflineAfter =>
                  /\ last["offline"][t] # W!Never
                  /\ online[t] => \E u \in Target \ {t} : Says[u] = t /\ quiet[u] = 0
             /\ ~online[t] /\ last["offline"][t] # W!Never =>
                  quiet[t] >= OfflineAfter \/ Says[t] # t
  <2>1. WatchTold(W!Rest, t)
    BY <1>4 DEF WatchInv, WatchPolled, WatchPolledBy
  <2>2. ~WatchFalls(W!Rest, t) /\ W!Rest.left = {}
    <3>1. W!Rest \in WatchPlaces /\ W!Rest.plan = <<>> /\ W!Rest.left = {}
      BY DEF WatchPlaces, W!Rest
    <3> QED
      BY <3>1, WatchNothingSaid
  <2> QED
    BY <2>1, <2>2 DEF WatchTold, WatchEvent, WatchOther
<1>5. ASSUME ~overlap, NEW k \in W!Kinds, NEW n \in Name PROVE runs[k][n] <= 1
  BY <1>5 DEF WatchInv, WatchHealedOnce, WatchRunsOnce
<1>6. W!WatchTells
  BY <1>4, <1>5 DEF W!WatchTells
<1> QED
  BY <1>3, <1>6

-----------------------------------------------------------------------------
(* The backups: a rotation removes the oldest bundles and only those.       *)

BackupNrs == {b.nr : b \in dir}
BackupBundles == [nr : 1 .. MaxMade, day : 1 .. MaxDay]
BackupPcs == {"rest", "ready", "stage", "bundle", "stamp", "list", "unlink"}

BackupTyped ==
    /\ day \in 1 .. MaxDay /\ stamp \in 0 .. MaxDay
    /\ mutex \in Runner \cup {B!Nobody}
    /\ run \in [Runner -> BackupPcs]
    /\ dir \subseteq BackupBundles
    /\ made \in 0 .. MaxMade
    /\ doomed \in [Runner -> SUBSET (1 .. MaxMade)]
    /\ faults \in 0 .. MaxFaults

\* The bundles that are made are numbered, the newest KeepBundles of them
\* are there.
BackupNumbered ==
    /\ \A b, c \in dir : b.nr = c.nr => b = c
    /\ \A b \in dir : b.nr <= made /\ b.day <= day
    /\ \A n \in 1 .. made : n > made - KeepBundles => n \in BackupNrs

\* What is about to be removed is old.
BackupDoomed ==
    /\ \A r \in Runner : B!At(r, "unlink") <=> doomed[r] # {}
    /\ \A r \in Runner : \A n \in doomed[r] : n <= made - KeepBundles

\* The last bundle is of the day of the stamp, or later.
BackupStamped ==
    /\ stamp <= day
    /\ stamp # 0 => \E b \in dir : b.nr = made /\ b.day >= stamp
    /\ B!At(Loop, "stamp") => \E b \in dir : b.nr = made /\ b.day = day

BackupLocked == \A r \in Runner : run[r] \in {"stage", "bundle"} => mutex = r

\* A rotation has listed everything below what it has listed; what it leaves to
\* another, which got ahead of it, the other has still to remove.
BackupRotated ==
    /\ \A p \in Runner : \A m \in doomed[p] : \A x \in BackupNrs : x < m => x \in doomed[p]
    /\ faults = 0 => \A p \in Runner : \A x \in BackupNrs \cap doomed[p] : \A m \in doomed[p] :
          m > x /\ m \notin BackupNrs =>
            \E s \in Runner : x \in doomed[s] /\ \A k \in doomed[s] : k < m
    /\ faults = 0 => \A x \in BackupNrs : x <= made - KeepBundles =>
          \/ \E r \in Runner : run[r] \in {"stamp", "list"}
          \/ \E p \in Runner : x \in doomed[p]

BackupInv == BackupTyped /\ BackupNumbered /\ BackupDoomed /\ BackupStamped /\ BackupLocked /\ BackupRotated

LEMMA BackupGreatest ==
  ASSUME NEW N \in Nat, NEW U \in SUBSET (1 .. N), U # {}
  PROVE  \E n \in U : \A m \in U : m <= n
<1> DEFINE Above(n) == {k \in U : k > n}
           V == {Above(n) : n \in U}
<1>1. IsFiniteSet(U)
  <2>1. IsFiniteSet(1 .. N)
    BY FS_Interval
  <2> QED
    BY <2>1, FS_Subset
<1>2. V \subseteq FiniteSubsetsOf(U) /\ V # {}
  <2>1. \A n \in U : Above(n) \in SUBSET U
    OBVIOUS
  <2> HIDE DEF Above
  <2>2. V \subseteq SUBSET U /\ V # {}
    BY <2>1
  <2>3. FiniteSubsetsOf(U) = SUBSET U
    BY <1>1, FS_FiniteSubsetsOfFinite
  <2> QED
    BY <2>2, <2>3
<1>3. \E x \in V : \A y \in V : ~ (<<y, x>> \in StrictSubsetOrdering(U))
  <2> HIDE DEF V
  <2> QED
    BY <1>2, WFMin, FS_StrictSubsetOrderingWellFounded
<1>4. PICK n \in U : \A y \in V : ~ (<<y, Above(n)>> \in StrictSubsetOrdering(U))
  BY <1>3
<1>5. ASSUME NEW m \in U, m > n PROVE FALSE
  <2>1. Above(m) \in V /\ Above(m) \in SUBSET U /\ Above(n) \in SUBSET U
    OBVIOUS
  <2>2. Above(m) \subseteq Above(n) /\ m \in Above(n) /\ m \notin Above(m)
    <3>1. \A k \in U : k \in Int
      OBVIOUS
    <3>2. \A k \in U : k > m => k > n
      BY <1>5, <3>1
    <3>3. ~ (m > m)
      BY <3>1
    <3> QED
      BY <1>5, <3>2, <3>3
  <2>4. ~ (<<Above(m), Above(n)>> \in StrictSubsetOrdering(U))
    BY <1>4, <2>1
  <2> HIDE DEF Above, V
  <2>3. <<Above(m), Above(n)>> \in StrictSubsetOrdering(U)
    <3>1. \A a, b \in SUBSET U : a \subseteq b /\ a # b => <<a, b>> \in StrictSubsetOrdering(U)
      BY DEF StrictSubsetOrdering
    <3> QED
      BY <2>1, <2>2, <3>1, Zenon
  <2> QED
    BY <2>3, <2>4
<1> QED
  BY <1>5

LEMMA BackupInitInv == ASSUME BackupSized, B!Init PROVE BackupInv
<1>1. BackupTyped
  BY DEF BackupSized, B!Init, BackupTyped, BackupPcs
<1>2. \A r \in Runner : run[r] = "rest" /\ doomed[r] = {}
  BY DEF B!Init
<1>3. dir = {} /\ made = 0 /\ BackupNrs = {} /\ stamp = 0 /\ day = 1
  BY DEF B!Init, BackupNrs
<1>4. BackupNumbered
  BY <1>3 DEF BackupNumbered
<1>5. BackupDoomed /\ BackupLocked /\ BackupRotated
  BY <1>2, <1>3 DEF BackupDoomed, BackupLocked, BackupRotated, B!At
<1>6. BackupStamped
  BY <1>2, <1>3 DEF BackupStamped, B!At, BackupSized
<1> QED
  BY <1>1, <1>4, <1>5, <1>6 DEF BackupInv

\* What is there, in numbers.
LEMMA BackupDir ==
  ASSUME BackupSized, BackupTyped, BackupNumbered
  PROVE  /\ \A b \in dir : b.nr \in 1 .. made /\ b.nr \in BackupNrs
         /\ BackupNrs \subseteq 1 .. made
         /\ \A n \in BackupNrs : \E b \in dir : b.nr = n
         /\ made \in Nat /\ KeepBundles \in Nat \ {0}
<1>1. \A b \in dir : b.nr \in 1 .. MaxMade /\ b.nr <= made
  BY DEF BackupTyped, BackupNumbered, BackupBundles
<1> QED
  BY <1>1 DEF BackupSized, BackupTyped, BackupNrs

\* A rotation lists what is older than the newest KeepBundles.
LEMMA BackupListed ==
  ASSUME BackupSized, BackupTyped, BackupNumbered
  PROVE  B!Oldest = {x \in BackupNrs : x <= made - KeepBundles}
<1>0. /\ \A b \in dir : b.nr \in 1 .. made /\ b.nr \in BackupNrs
      /\ \A n \in BackupNrs : \E b \in dir : b.nr = n
      /\ made \in Nat /\ KeepBundles \in Nat \ {0}
  BY BackupDir
<1> SUFFICES ASSUME NEW b \in dir
             PROVE  Cardinality({y \in dir : y.nr > b.nr}) >= KeepBundles <=> b.nr <= made - KeepBundles
  BY BackupCount DEF B!Oldest, BackupNrs
<1> DEFINE above == {y \in dir : y.nr > b.nr}
           newer == (b.nr + 1) .. made
           newest == (made - KeepBundles + 1) .. made
<1>1. b.nr \in 1 .. made
  BY <1>0
<1>2. IsFiniteSet(newer) /\ Cardinality(newer) = made - b.nr
  <2>1. \A l \in Nat : \A k \in 1 .. l :
          k + 1 \in Int /\ l \in Int /\ (IF k + 1 > l THEN 0 ELSE l - (k + 1) + 1) = l - k
    OBVIOUS
  <2> QED
    BY <1>0, <1>1, <2>1, FS_Interval
<1>3. [y \in above |-> y.nr] \in Injection(above, newer)
  <2>1. \A y \in above : y.nr \in newer
    BY <1>0, <1>1
  <2>2. \A y, z \in above : y.nr = z.nr => y = z
    BY DEF BackupNumbered
  <2> HIDE DEF above, newer
  <2> QED
    BY <2>1, <2>2 DEF Injection, IsInjective
<1>4. IsFiniteSet(above) /\ Cardinality(above) \in Nat /\ Cardinality(above) <= made - b.nr
  <2> HIDE DEF above, newer
  <2> QED
    BY <1>2, <1>3, FS_Injection, FS_CardinalityType
<1>5. ASSUME b.nr <= made - KeepBundles PROVE Cardinality(above) >= KeepBundles
  <2>1. IsFiniteSet(newest) /\ Cardinality(newest) = KeepBundles
    <3>1. \A l \in Nat : \A k \in 1 .. l :
            /\ l - k + 1 \in Int /\ l \in Int
            /\ (IF l - k + 1 > l THEN 0 ELSE l - (l - k + 1) + 1) = k
      OBVIOUS
    <3>2. KeepBundles \in 1 .. made
      BY <1>0, <1>1, <1>5
    <3> QED
      BY <1>0, <3>1, <3>2, FS_Interval
  <2>2. \A n \in newest : \E y \in above : y.nr = n
    <3>1. \A n \in newest : n \in 1 .. made /\ n > made - KeepBundles /\ n > b.nr
      BY <1>0, <1>1, <1>5
    <3>2. \A n \in newest : n \in BackupNrs
      BY <3>1 DEF BackupNumbered
    <3> QED
      BY <1>0, <3>1, <3>2
  <2> DEFINE f == [n \in newest |-> CHOOSE y \in above : y.nr = n]
  <2>3. \A n \in newest : f[n] \in above /\ f[n].nr = n
    BY <2>2
  <2>4. f \in Injection(newest, above)
    <3> HIDE DEF newest, above
    <3>1. f \in [newest -> above]
      BY <2>3
    <3> HIDE DEF f
    <3> QED
      BY <2>3, <3>1 DEF Injection, IsInjective
  <2> HIDE DEF f, newest, above
  <2> QED
    BY <1>4, <2>1, <2>4, FS_Injection DEF BackupSized
<1>6. ASSUME Cardinality(above) >= KeepBundles PROVE b.nr <= made - KeepBundles
  <2> HIDE DEF above, newer
  <2> QED
    BY <1>0, <1>1, <1>4, <1>6
<1> QED
  BY <1>5, <1>6

\* A runner moves between two steps that do not touch the files.
LEMMA BackupAside ==
  ASSUME BackupSized, BackupInv, NEW r \in Runner, NEW pc \in BackupPcs \ {"unlink", "stamp"}, B!Go(r, pc),
         run[r] \notin {"unlink", "stamp", "list"},
         UNCHANGED <<stamp, dir, made, doomed>>, day' = day,
         mutex' \in Runner \cup {B!Nobody}, faults' \in 0 .. MaxFaults,
         faults' = 0 => faults = 0,
         BackupLocked'
  PROVE  BackupInv'
<1>0. BackupTyped /\ BackupNumbered /\ BackupDoomed /\ BackupStamped /\ BackupRotated
  BY DEF BackupInv
<1>1. /\ run' \in [Runner -> BackupPcs] /\ run'[r] = pc
      /\ \A q \in Runner \ {r} : run'[q] = run[q]
  BY <1>0 DEF BackupTyped, B!Go
<1>2. BackupTyped'
  BY <1>0, <1>1 DEF BackupTyped
<1>3. BackupNrs' = BackupNrs
  BY DEF BackupNrs
<1>4. BackupNumbered'
  BY <1>0, <1>3 DEF BackupNumbered
<1>5. BackupDoomed'
  BY <1>0, <1>1 DEF BackupDoomed, B!At
<1>6. BackupStamped'
  BY <1>0, <1>1 DEF BackupStamped, B!At, BackupSized
<1>7. BackupRotated'
  <2>1. (\E q \in Runner : run[q] \in {"stamp", "list"})
          => \E q \in Runner : run'[q] \in {"stamp", "list"}
    BY <1>1
  <2> QED
    BY <1>0, <1>3, <2>1 DEF BackupRotated
<1> QED
  BY <1>2, <1>4, <1>5, <1>6, <1>7 DEF BackupInv

\* The maximum of what is listed.
LEMMA BackupNewestListed ==
  ASSUME BackupSized, BackupTyped, NEW r \in Runner, doomed[r] # {}
  PROVE  B!Newest(doomed[r]) \in doomed[r] /\ \A m \in doomed[r] : m <= B!Newest(doomed[r])
<1>1. doomed[r] \in SUBSET (1 .. MaxMade) /\ MaxMade \in Nat
  BY DEF BackupSized, BackupTyped
<1>2. \E n \in doomed[r] : \A m \in doomed[r] : m <= n
  BY <1>1, BackupGreatest
<1> QED
  BY <1>2 DEF B!Newest

LEMMA BackupBundleInv ==
  ASSUME BackupSized, BackupInv, NEW r \in Runner, B!Bundle(r)
  PROVE  BackupInv'
<1>0. /\ BackupTyped /\ BackupNumbered /\ BackupDoomed /\ BackupStamped /\ BackupLocked /\ BackupRotated
      /\ made \in Nat /\ KeepBundles \in Nat \ {0} /\ Loop \in Runner
      /\ BackupNrs \subseteq 1 .. made
  BY BackupDir DEF BackupInv, BackupSized
<1>1. /\ B!At(r, "bundle") /\ made < MaxMade /\ made' = made + 1
      /\ dir' = dir \cup {[nr |-> made + 1, day |-> day]} /\ mutex' = B!Nobody
      /\ B!Go(r, IF r = Loop THEN "stamp" ELSE "list")
      /\ UNCHANGED <<day, stamp, doomed, faults>>
  BY DEF B!Bundle
<1>2. PICK pc \in {"stamp", "list"} : B!Go(r, pc)
  BY <1>1
<1>3. /\ run' \in [Runner -> BackupPcs] /\ run'[r] = pc
      /\ \A q \in Runner \ {r} : run'[q] = run[q]
  BY <1>0, <1>2 DEF BackupTyped, B!Go, BackupPcs
<1> DEFINE b == [nr |-> made + 1, day |-> day]
<1>4. b.nr = made + 1 /\ b.day = day /\ b \in BackupBundles
  BY <1>0, <1>1 DEF BackupTyped, BackupSized, BackupBundles
<1>5. dir' = dir \cup {b} /\ b \in dir'
  BY <1>1
<1> HIDE DEF b
<1>6. BackupNrs' = BackupNrs \cup {made + 1}
  BY <1>4, <1>5 DEF BackupNrs
<1>7. BackupTyped'
  BY <1>0, <1>1, <1>3, <1>4, <1>5 DEF BackupTyped, BackupSized
<1>8. BackupNumbered'
  <2>1. \A c \in dir : c.nr <= made /\ c.nr \in Int /\ c.day <= day
    BY <1>0 DEF BackupNumbered, BackupTyped, BackupBundles
  <2>2. day \in Int
    BY <1>0 DEF BackupTyped
  <2>3. \A c, d \in dir' : c.nr = d.nr => c = d
    BY <1>0, <1>4, <1>5, <2>1 DEF BackupNumbered
  <2>4. \A c \in dir' : c.nr <= made' /\ c.day <= day'
    BY <1>0, <1>1, <1>4, <1>5, <2>1, <2>2
  <2>5. \A n \in 1 .. made' : n > made' - KeepBundles => n \in BackupNrs'
    <3>1. \A n \in 1 .. made + 1 : n = made + 1 \/ n \in 1 .. made
      BY <1>0
    <3>2. \A n \in 1 .. made : n > made + 1 - KeepBundles => n > made - KeepBundles
      BY <1>0
    <3> QED
      BY <1>0, <1>1, <1>6, <3>1, <3>2 DEF BackupNumbered
  <2> QED
    BY <2>3, <2>4, <2>5 DEF BackupNumbered
<1>9. BackupDoomed'
  <2>1. \A q \in Runner : \A n \in doomed'[q] : n <= made' - KeepBundles
    <3>1. \A q \in Runner : \A n \in doomed[q] : n \in Int /\ n <= made - KeepBundles
      BY <1>0 DEF BackupDoomed, BackupTyped
    <3> QED
      BY <1>0, <1>1, <3>1
  <2> QED
    BY <1>0, <1>1, <1>3, <2>1 DEF BackupDoomed, B!At
<1>10. BackupStamped'
  <2>1. stamp \in Int /\ day \in Int
    BY <1>0 DEF BackupTyped
  <2> QED
    BY <1>0, <1>1, <1>4, <1>5, <2>1 DEF BackupStamped
<1>11. BackupLocked'
  BY <1>0, <1>1, <1>3 DEF BackupLocked, B!At
<1>12. BackupRotated'
  <2>1. \A p \in Runner : \A m \in doomed[p] : m \in Int /\ m <= made
    BY <1>0 DEF BackupDoomed, BackupTyped
  <2>2. \A p \in Runner : \A m \in doomed'[p] : \A x \in BackupNrs' : x < m => x \in doomed'[p]
    BY <1>0, <1>1, <1>6, <2>1 DEF BackupRotated
  <2>3. faults' = 0 => \A p \in Runner : \A x \in BackupNrs' \cap doomed'[p] : \A m \in doomed'[p] :
          m > x /\ m \notin BackupNrs' =>
            \E s \in Runner : x \in doomed'[s] /\ \A k \in doomed'[s] : k < m
    <3>1. \A p \in Runner : BackupNrs' \cap doomed'[p] = BackupNrs \cap doomed[p]
      BY <1>0, <1>1, <1>6, <2>1
    <3> QED
      BY <1>0, <1>1, <1>6, <3>1 DEF BackupRotated
  <2>4. \E q \in Runner : run'[q] \in {"stamp", "list"}
    BY <1>3
  <2> QED
    BY <2>2, <2>3, <2>4 DEF BackupRotated
<1> QED
  BY <1>7, <1>8, <1>9, <1>10, <1>11, <1>12 DEF BackupInv

LEMMA BackupStampInv ==
  ASSUME BackupSized, BackupInv, B!Stamp
  PROVE  BackupInv'
<1>0. /\ BackupTyped /\ BackupNumbered /\ BackupDoomed /\ BackupStamped /\ BackupLocked /\ BackupRotated /\ Loop \in Runner
  BY DEF BackupInv, BackupSized
<1>1. /\ B!At(Loop, "stamp") /\ UNCHANGED <<day, mutex, dir, made, doomed>>
      /\ \/ stamp' = day /\ B!Go(Loop, "list") /\ UNCHANGED faults
         \/ B!Fault /\ B!Go(Loop, "rest") /\ UNCHANGED stamp
  BY DEF B!Stamp
<1>2. PICK pc \in {"list", "rest"} : B!Go(Loop, pc) /\ (pc = "rest" => B!Fault)
                                     /\ (pc = "list" => UNCHANGED faults)
  BY <1>1
<1>3. /\ run' \in [Runner -> BackupPcs] /\ run'[Loop] = pc
      /\ \A q \in Runner \ {Loop} : run'[q] = run[q]
  BY <1>0, <1>2 DEF BackupTyped, B!Go, BackupPcs
<1>4. faults' \in 0 .. MaxFaults /\ (faults' = 0 => faults = 0 /\ pc = "list")
  BY <1>0, <1>2 DEF BackupTyped, B!Fault, BackupSized
<1>5. BackupTyped'
  BY <1>0, <1>1, <1>3, <1>4 DEF BackupTyped
<1>6. BackupNrs' = BackupNrs
  BY <1>1 DEF BackupNrs
<1>7. BackupNumbered' /\ BackupDoomed' /\ BackupLocked'
  BY <1>0, <1>1, <1>3, <1>6 DEF BackupNumbered, BackupDoomed, BackupLocked, B!At
<1>8. BackupStamped'
  <2>1. day \in Int /\ stamp \in Int /\ day <= day
    BY <1>0 DEF BackupTyped
  <2>2. ~B!At(Loop, "stamp")'
    BY <1>3 DEF B!At
  <2>3. \E b \in dir : b.nr = made /\ b.day = day
    BY <1>0, <1>1 DEF BackupStamped
  <2>4. CASE stamp' = day
    BY <1>1, <2>1, <2>2, <2>3, <2>4 DEF BackupStamped
  <2>5. CASE stamp' = stamp
    BY <1>0, <1>1, <2>2, <2>5 DEF BackupStamped
  <2> QED
    BY <1>1, <2>4, <2>5
<1>9. BackupRotated'
  <2>1. faults' = 0 => \E q \in Runner : run'[q] \in {"stamp", "list"}
    BY <1>0, <1>3, <1>4
  <2>2. doomed' = doomed /\ (faults' = 0 => faults = 0)
    BY <1>1, <1>4
  <2> QED
    BY <1>0, <1>6, <2>1, <2>2 DEF BackupRotated
<1> QED
  BY <1>5, <1>7, <1>8, <1>9 DEF BackupInv

LEMMA BackupListInv ==
  ASSUME BackupSized, BackupInv, NEW r \in Runner, B!List(r)
  PROVE  BackupInv'
<1>0. /\ BackupTyped /\ BackupNumbered /\ BackupDoomed /\ BackupStamped /\ BackupLocked /\ BackupRotated
      /\ made \in Nat /\ KeepBundles \in Nat \ {0} /\ Loop \in Runner /\ MaxMade \in Nat
      /\ BackupNrs \subseteq 1 .. made /\ made \in 0 .. MaxMade
  BY BackupDir DEF BackupInv, BackupSized, BackupTyped
<1>1. /\ B!At(r, "list") /\ doomed' = [doomed EXCEPT ![r] = B!Oldest]
      /\ B!Go(r, IF B!Oldest = {} THEN "rest" ELSE "unlink")
      /\ UNCHANGED <<day, stamp, mutex, dir, made, faults>>
  BY DEF B!List
<1>2. B!Oldest = {x \in BackupNrs : x <= made - KeepBundles}
  BY <1>0, BackupListed
<1>3. /\ B!Oldest \subseteq BackupNrs /\ \A x \in B!Oldest : x <= made - KeepBundles
      /\ \A x \in BackupNrs : x <= made - KeepBundles => x \in B!Oldest
      /\ \A x \in BackupNrs : x \in Int
      /\ B!Oldest \in SUBSET (1 .. MaxMade)
  <2>1. \A n \in 1 .. made : n \in Int /\ n \in 1 .. MaxMade
    BY <1>0
  <2> HIDE DEF B!Oldest
  <2> QED
    BY <1>0, <1>2, <2>1
<1> HIDE DEF B!Oldest
<1>4. /\ doomed' \in [Runner -> SUBSET (1 .. MaxMade)] /\ doomed'[r] = B!Oldest
      /\ \A q \in Runner \ {r} : doomed'[q] = doomed[q]
  BY <1>0, <1>1, <1>3 DEF BackupTyped
<1>5. PICK pc \in {"rest", "unlink"} : B!Go(r, pc) /\ (pc = "rest" <=> B!Oldest = {})
  BY <1>1
<1>6. /\ run' \in [Runner -> BackupPcs] /\ run'[r] = pc
      /\ \A q \in Runner \ {r} : run'[q] = run[q]
  BY <1>0, <1>5 DEF BackupTyped, B!Go, BackupPcs
<1>7. BackupTyped'
  BY <1>0, <1>1, <1>4, <1>6 DEF BackupTyped
<1>8. BackupNrs' = BackupNrs
  BY <1>1 DEF BackupNrs
<1>9. BackupNumbered'
  BY <1>0, <1>1, <1>8 DEF BackupNumbered
<1>10. BackupDoomed'
  BY <1>0, <1>1, <1>3, <1>4, <1>5, <1>6 DEF BackupDoomed, B!At
<1>11. BackupStamped'
  BY <1>0, <1>1, <1>6 DEF BackupStamped, B!At
<1>12. BackupLocked'
  BY <1>0, <1>1, <1>6 DEF BackupLocked
<1>13. BackupRotated'
  <2>1. \A p \in Runner : \A m \in doomed'[p] : \A x \in BackupNrs' : x < m => x \in doomed'[p]
    <3>1. \A m \in B!Oldest : \A x \in BackupNrs : x < m => x \in B!Oldest
      BY <1>0, <1>3
    <3> QED
      BY <1>0, <1>4, <1>8, <3>1 DEF BackupRotated
  <2>2. ASSUME faults' = 0, NEW p \in Runner, NEW x \in BackupNrs' \cap doomed'[p],
               NEW m \in doomed'[p], m > x, m \notin BackupNrs'
        PROVE  \E s \in Runner : x \in doomed'[s] /\ \A k \in doomed'[s] : k < m
    <3>1. p # r
      BY <1>3, <1>4, <1>8, <2>2
    <3>2. faults = 0 /\ x \in BackupNrs \cap doomed[p] /\ m \in doomed[p] /\ m \notin BackupNrs
      BY <1>1, <1>4, <1>8, <2>2, <3>1
    <3>3. PICK s \in Runner : x \in doomed[s] /\ \A k \in doomed[s] : k < m
      BY <1>0, <2>2, <3>2 DEF BackupRotated
    <3>4. s # r
      BY <1>0, <1>1, <3>3 DEF BackupDoomed, B!At
    <3> QED
      BY <1>4, <3>3, <3>4
  <2>3. \A x \in BackupNrs' : x <= made' - KeepBundles => \E p \in Runner : x \in doomed'[p]
    BY <1>1, <1>3, <1>4, <1>8
  <2> QED
    BY <2>1, <2>2, <2>3 DEF BackupRotated
<1> QED
  BY <1>7, <1>9, <1>10, <1>11, <1>12, <1>13 DEF BackupInv

LEMMA BackupUnlinkInv ==
  ASSUME BackupSized, BackupInv, NEW r \in Runner, B!Unlink(r)
  PROVE  BackupInv'
<1> DEFINE n == B!Newest(doomed[r])
           gone == \A b \in dir : b.nr # n
           rest == doomed[r] \ {n}
<1>0. /\ BackupTyped /\ BackupNumbered /\ BackupDoomed /\ BackupStamped /\ BackupLocked /\ BackupRotated
      /\ made \in Nat /\ KeepBundles \in Nat \ {0} /\ Loop \in Runner
      /\ BackupNrs \subseteq 1 .. made /\ made \in 0 .. MaxMade /\ MaxMade \in Nat
  BY BackupDir DEF BackupInv, BackupSized, BackupTyped
<1>1. /\ B!At(r, "unlink") /\ dir' = {b \in dir : b.nr # n}
      /\ doomed' = [doomed EXCEPT ![r] = IF gone THEN {} ELSE rest]
      /\ B!Go(r, IF gone \/ rest = {} THEN "rest" ELSE "unlink")
      /\ UNCHANGED <<day, stamp, mutex, made, faults>>
  BY DEF B!Unlink
<1>2. doomed[r] # {}
  BY <1>0, <1>1 DEF BackupDoomed
<1>3. n \in doomed[r] /\ \A m \in doomed[r] : m <= n
  BY <1>0, <1>2, BackupNewestListed
<1>4. gone <=> n \notin BackupNrs
  BY DEF BackupNrs
<1> HIDE DEF n, gone
<1>5. PICK d : /\ d = (IF gone THEN {} ELSE rest)
               /\ doomed' = [doomed EXCEPT ![r] = d]
  BY <1>1
<1>6. d \subseteq doomed[r] /\ n \notin d
  BY <1>5
<1>7. PICK pc \in {"rest", "unlink"} : B!Go(r, pc) /\ (pc = "rest" <=> d = {})
  BY <1>1, <1>5
<1> HIDE DEF rest
<1>8. /\ run' \in [Runner -> BackupPcs] /\ run'[r] = pc
      /\ \A q \in Runner \ {r} : run'[q] = run[q]
  BY <1>0, <1>7 DEF BackupTyped, B!Go, BackupPcs
<1>9. /\ doomed' \in [Runner -> SUBSET (1 .. MaxMade)] /\ doomed'[r] = d
      /\ \A q \in Runner \ {r} : doomed'[q] = doomed[q]
  <2>1. doomed \in [Runner -> SUBSET (1 .. MaxMade)]
    BY <1>0 DEF BackupTyped
  <2> QED
    BY <1>5, <1>6, <2>1
<1>10. BackupTyped'
  BY <1>0, <1>1, <1>8, <1>9 DEF BackupTyped
<1>11. BackupNrs' = BackupNrs \ {n}
  BY <1>1 DEF BackupNrs
<1>12. /\ \A p \in Runner : \A m \in doomed[p] : m \in Int /\ m <= made - KeepBundles
       /\ \A x \in BackupNrs : x \in Int
  BY <1>0 DEF BackupDoomed, BackupTyped
<1>13. BackupNumbered'
  <2>1. n <= made - KeepBundles
    BY <1>3, <1>12
  <2> QED
    BY <1>0, <1>1, <1>11, <1>12, <2>1 DEF BackupNumbered
<1>14. BackupDoomed'
  BY <1>0, <1>1, <1>6, <1>7, <1>8, <1>9 DEF BackupDoomed, B!At
<1>15. BackupStamped'
  <2>1. n # made
    BY <1>0, <1>3, <1>12
  <2>2. B!At(Loop, "stamp")' => B!At(Loop, "stamp")
    BY <1>0, <1>8 DEF B!At
  <2> QED
    BY <1>0, <1>1, <2>1, <2>2 DEF BackupStamped
<1>16. BackupLocked'
  BY <1>0, <1>1, <1>8 DEF BackupLocked
<1>17. BackupRotated'
  <2>1. ASSUME NEW p \in Runner, NEW m \in doomed'[p], NEW x \in BackupNrs', x < m
        PROVE  x \in doomed'[p]
    <3>1. m \in doomed[p] /\ x \in BackupNrs /\ x # n
      BY <1>6, <1>9, <1>11, <2>1
    <3>2. x \in doomed[p]
      BY <1>0, <2>1, <3>1 DEF BackupRotated
    <3>3. CASE p = r
      <4>1. d = rest
        BY <1>5, <1>9, <2>1, <3>3
      <4> QED
        BY <1>9, <3>1, <3>2, <3>3, <4>1 DEF rest
    <3>4. CASE p # r
      BY <1>9, <3>2, <3>4
    <3> QED
      BY <3>3, <3>4
  <2>2. ASSUME faults' = 0, NEW p \in Runner, NEW x \in BackupNrs' \cap doomed'[p],
               NEW m \in doomed'[p], m > x, m \notin BackupNrs'
        PROVE  \E s \in Runner : x \in doomed'[s] /\ \A k \in doomed'[s] : k < m
    <3>1. /\ faults = 0 /\ x \in BackupNrs /\ x # n /\ x \in doomed[p] /\ m \in doomed[p]
          /\ x \in Int /\ m \in Int /\ n \in Int
      BY <1>1, <1>3, <1>6, <1>9, <1>11, <1>12, <2>2
    \* What r leaves of its list is below the one it removes.
    <3>2. ASSUME ~gone, x \in doomed[r], n <= m
          PROVE  \E s \in Runner : x \in doomed'[s] /\ \A k \in doomed'[s] : k < m
      <4>1. d = doomed[r] \ {n}
        BY <1>5, <3>2 DEF rest
      <4>2. x \in doomed'[r] /\ \A k \in doomed'[r] : k < m
        BY <1>3, <1>9, <1>12, <3>1, <3>2, <4>1
      <4> QED
        BY <4>2
    <3>3. ASSUME m \notin BackupNrs
          PROVE  \E s \in Runner : x \in doomed'[s] /\ \A k \in doomed'[s] : k < m
      <4>1. PICK s \in Runner : x \in doomed[s] /\ \A k \in doomed[s] : k < m
        BY <1>0, <2>2, <3>1, <3>3 DEF BackupRotated
      <4>2. CASE s # r
        BY <1>9, <4>1, <4>2
      <4>3. CASE s = r /\ ~gone
        <5>1. n < m
          BY <1>3, <4>1, <4>3
        <5> QED
          BY <3>1, <3>2, <4>1, <4>3, <5>1
      <4>4. CASE s = r /\ gone
        <5>1. n < m /\ n > x /\ n \notin BackupNrs
          BY <1>3, <1>4, <3>1, <4>1, <4>4
        <5>2. PICK t \in Runner : x \in doomed[t] /\ \A k \in doomed[t] : k < n
          BY <1>0, <1>3, <3>1, <4>1, <4>4, <5>1 DEF BackupRotated
        <5>3. t # r
          BY <1>3, <3>1, <5>2
        <5>4. \A k \in doomed[t] : k < m
          BY <1>12, <3>1, <5>1, <5>2
        <5> QED
          BY <1>9, <5>2, <5>3, <5>4
      <4> QED
        BY <4>2, <4>3, <4>4
    <3>4. CASE m \in BackupNrs
      <4>1. m = n /\ ~gone
        BY <1>4, <1>11, <2>2, <3>4
      <4>2. x \in doomed[r]
        BY <1>0, <1>3, <2>2, <3>1, <4>1 DEF BackupRotated
      <4> QED
        BY <3>1, <3>2, <4>1, <4>2
    <3> QED
      BY <3>3, <3>4
  <2>3. ASSUME faults' = 0, NEW x \in BackupNrs', x <= made' - KeepBundles
        PROVE  \/ \E q \in Runner : run'[q] \in {"stamp", "list"}
               \/ \E p \in Runner : x \in doomed'[p]
    <3>1. faults = 0 /\ x \in BackupNrs /\ x # n /\ x <= made - KeepBundles /\ x \in Int /\ n \in Int
      BY <1>1, <1>3, <1>11, <1>12, <2>3
    <3>2. CASE \E q \in Runner : run[q] \in {"stamp", "list"}
      BY <1>1, <1>8, <3>2 DEF B!At
    <3>3. CASE \E p \in Runner : x \in doomed[p]
      <4>1. PICK p \in Runner : x \in doomed[p]
        BY <3>3
      <4>2. CASE p # r
        BY <1>9, <4>1, <4>2
      <4>3. CASE p = r /\ ~gone
        BY <1>5, <1>9, <3>1, <4>1, <4>3 DEF rest
      <4>4. CASE p = r /\ gone
        <5>1. n > x /\ n \notin BackupNrs
          BY <1>3, <1>4, <3>1, <4>1, <4>4
        <5>2. PICK t \in Runner : x \in doomed[t] /\ \A k \in doomed[t] : k < n
          BY <1>0, <1>3, <3>1, <4>1, <4>4, <5>1 DEF BackupRotated
        <5>3. t # r
          BY <1>3, <3>1, <5>2
        <5> QED
          BY <1>9, <5>2, <5>3
      <4> QED
        BY <4>2, <4>3, <4>4
    <3> QED
      BY <1>0, <3>1, <3>2, <3>3 DEF BackupRotated
  <2> QED
    BY <2>1, <2>2, <2>3 DEF BackupRotated
<1> QED
  BY <1>10, <1>13, <1>14, <1>15, <1>16, <1>17 DEF BackupInv

LEMMA BackupNextInv ==
  ASSUME BackupSized, BackupInv, [B!Next]_backupVars
  PROVE  BackupInv'
<1>0. /\ BackupTyped /\ BackupNumbered /\ BackupDoomed /\ BackupStamped /\ BackupLocked /\ BackupRotated
      /\ MaxFaults \in Nat /\ Loop \in Runner /\ B!Nobody \notin Runner
  BY DEF BackupInv, BackupSized
<1>1. ASSUME NEW r \in Runner, NEW pc \in BackupPcs, B!Go(r, pc)
      PROVE  /\ run' \in [Runner -> BackupPcs] /\ run'[r] = pc
             /\ \A q \in Runner \ {r} : run'[q] = run[q]
  BY <1>0, <1>1 DEF BackupTyped, B!Go
<1>2. /\ mutex \in Runner \cup {B!Nobody} /\ faults \in 0 .. MaxFaults
      /\ {"rest", "ready", "stage", "bundle"} \subseteq BackupPcs \ {"unlink", "stamp"}
  BY <1>0 DEF BackupTyped, BackupPcs
<1>3. ASSUME NEW r \in Runner, B!Start(r) PROVE BackupInv'
  <2>1. /\ run[r] = "rest" /\ B!Go(r, "ready")
        /\ UNCHANGED <<day, stamp, mutex, dir, made, doomed, faults>>
    BY <1>3 DEF B!Start, B!At
  <2>2. BackupLocked'
    BY <1>0, <1>1, <1>2, <2>1 DEF BackupLocked
  <2> QED
    BY <1>2, <2>1, <2>2, BackupAside
<1>4. ASSUME NEW r \in Runner, B!Create(r) PROVE BackupInv'
  <2>1. /\ run[r] = "ready" /\ UNCHANGED <<day, stamp, dir, made, doomed, faults>>
    BY <1>4 DEF B!Create, B!At
  <2>2. CASE mutex = B!Nobody /\ mutex' = r /\ B!Go(r, "stage")
    <3>1. BackupLocked'
      BY <1>0, <1>1, <1>2, <2>2 DEF BackupLocked
    <3> QED
      BY <1>2, <2>1, <2>2, <3>1, BackupAside
  <2>3. CASE mutex' = mutex /\ B!Go(r, "rest")
    <3>1. BackupLocked'
      BY <1>0, <1>1, <1>2, <2>3 DEF BackupLocked
    <3> QED
      BY <1>2, <2>1, <2>3, <3>1, BackupAside
  <2> QED
    BY <1>4, <2>2, <2>3 DEF B!Create
<1>5. ASSUME NEW r \in Runner, B!Stage(r) PROVE BackupInv'
  <2>1. /\ run[r] = "stage" /\ B!Go(r, "bundle")
        /\ UNCHANGED <<day, stamp, mutex, dir, made, doomed, faults>>
    BY <1>5 DEF B!Stage, B!At
  <2>2. BackupLocked'
    BY <1>0, <1>1, <1>2, <2>1 DEF BackupLocked
  <2> QED
    BY <1>2, <2>1, <2>2, BackupAside
<1>6. ASSUME NEW r \in Runner, B!StageFails(r) PROVE BackupInv'
  <2>1. /\ run[r] \in {"stage", "bundle"} /\ B!Go(r, "rest") /\ mutex' = B!Nobody /\ B!Fault
        /\ UNCHANGED <<day, stamp, dir, made, doomed>>
    BY <1>6 DEF B!StageFails
  <2>2. faults' \in 0 .. MaxFaults /\ faults' # 0
    BY <1>0, <1>2, <2>1 DEF B!Fault
  <2>3. BackupLocked'
    BY <1>0, <1>1, <1>2, <2>1 DEF BackupLocked
  <2> QED
    BY <1>2, <2>1, <2>2, <2>3, BackupAside
<1>7. ASSUME B!Restart PROVE BackupInv'
  <2>1. /\ run' = [r \in Runner |-> "rest"] /\ mutex' = B!Nobody
        /\ doomed' = [r \in Runner |-> {}] /\ B!Fault
        /\ UNCHANGED <<day, stamp, dir, made>>
    BY <1>7 DEF B!Restart
  <2>2. faults' \in 0 .. MaxFaults /\ faults' # 0
    BY <1>0, <1>2, <2>1 DEF B!Fault
  <2>3. BackupNrs' = BackupNrs
    BY <2>1 DEF BackupNrs
  <2>4. BackupTyped'
    BY <1>0, <2>1, <2>2 DEF BackupTyped, BackupPcs
  <2>5. BackupNumbered' /\ BackupStamped'
    BY <1>0, <2>1, <2>3 DEF BackupNumbered, BackupStamped, B!At
  <2>6. BackupDoomed' /\ BackupLocked' /\ BackupRotated'
    BY <2>1, <2>2 DEF BackupDoomed, BackupLocked, BackupRotated, B!At
  <2> QED
    BY <2>4, <2>5, <2>6 DEF BackupInv
<1>8. ASSUME B!NextDay PROVE BackupInv'
  <2>1. /\ run[Loop] = "rest" /\ day' = day + 1 /\ day < MaxDay
        /\ UNCHANGED <<stamp, mutex, run, dir, made, doomed, faults>>
    BY <1>8 DEF B!NextDay
  <2>2. day \in 1 .. MaxDay /\ stamp \in Int /\ \A b \in dir : b.day \in Int
    BY <1>0 DEF BackupTyped, BackupBundles
  <2>3. BackupNrs' = BackupNrs
    BY <2>1 DEF BackupNrs
  <2>4. BackupTyped'
    BY <1>0, <2>1, <2>2 DEF BackupTyped, BackupSized
  <2>5. BackupNumbered'
    BY <1>0, <2>1, <2>2, <2>3 DEF BackupNumbered
  <2>6. BackupStamped'
    BY <1>0, <2>1, <2>2 DEF BackupStamped, B!At
  <2>7. BackupDoomed' /\ BackupLocked' /\ BackupRotated'
    BY <1>0, <2>1, <2>3 DEF BackupDoomed, BackupLocked, BackupRotated, B!At
  <2> QED
    BY <2>4, <2>5, <2>6, <2>7 DEF BackupInv
<1>9. CASE UNCHANGED backupVars
  BY <1>0, <1>9 DEF backupVars, BackupInv, BackupTyped, BackupNumbered, BackupDoomed,
     BackupStamped, BackupLocked, BackupRotated, BackupNrs, B!At
<1> QED
  BY <1>3, <1>4, <1>5, <1>6, <1>7, <1>8, <1>9, BackupBundleInv, BackupStampInv,
     BackupListInv, BackupUnlinkInv
     DEF B!Next, B!RunStep

LEMMA BackupSound == ASSUME BackupSized, BackupInv PROVE B!TypeOK /\ B!BundlesKept
<1>0. /\ BackupTyped /\ BackupNumbered /\ BackupDoomed /\ BackupStamped /\ BackupLocked /\ BackupRotated
      /\ made \in Nat /\ KeepBundles \in Nat \ {0} /\ Loop \in Runner
      /\ BackupNrs \subseteq 1 .. made /\ \A b \in dir : b.nr \in 1 .. made /\ b.nr \in BackupNrs
  BY BackupDir DEF BackupInv, BackupSized
<1>1. B!TypeOK
  BY <1>0 DEF BackupTyped, B!TypeOK, BackupBundles, BackupPcs
<1>2. \A n \in 1 .. made : n > made - KeepBundles => \E b \in dir : b.nr = n
  BY <1>0 DEF BackupNumbered, BackupNrs
<1>3. stamp # 0 => \E b \in dir : b.day >= stamp
  BY <1>0 DEF BackupStamped
<1>4. \A r, q \in Runner : run[r] \in {"stage", "bundle"}
                           /\ run[q] \in {"stage", "bundle"} => r = q
  BY <1>0 DEF BackupLocked
<1>5. ASSUME \A r \in Runner : B!At(r, "rest"), faults = 0
      PROVE  Cardinality(dir) <= KeepBundles
  <2>1. \A p \in Runner : doomed[p] = {}
    BY <1>0, <1>5 DEF BackupDoomed, B!At
  <2>2. \A x \in BackupNrs : ~(x <= made - KeepBundles)
    BY <1>0, <1>5, <2>1 DEF BackupRotated, B!At
  <2> DEFINE newest == (made - KeepBundles + 1) .. made
  <2>3. \A b \in dir : b.nr \in newest
    BY <1>0, <2>2
  <2>4. IsFiniteSet(newest) /\ Cardinality(newest) = KeepBundles
    <3>1. \A l \in Nat : \A k \in Nat \ {0} :
            /\ l - k + 1 \in Int /\ l \in Int
            /\ (IF l - k + 1 > l THEN 0 ELSE l - (l - k + 1) + 1) = k
      OBVIOUS
    <3> QED
      BY <1>0, <3>1, FS_Interval
  <2> HIDE DEF newest
  <2>5. [b \in dir |-> b.nr] \in Injection(dir, newest)
    BY <1>0, <2>3 DEF BackupNumbered, Injection, IsInjective
  <2> QED
    BY <2>4, <2>5, FS_Injection
<1> QED
  BY <1>1, <1>2, <1>3, <1>4, <1>5, BackupCount DEF B!BundlesKept

-----------------------------------------------------------------------------
(* The connections to the database: each is in the pool or with one thread. *)

PoolPcs == {"idle", "get", "check", "run", "back", "retry", "done"}
PoolUsers == [pc : PoolPcs, tries : 0 .. Retries, result : {"none", "ok", "failed"}]
PoolIsUser == user \in [Thread -> PoolUsers]
PoolOthers(t) == \A u \in Thread \ {t} : user'[u] = user[u]
PoolHolding == {"check", "run", "back"}

\* The pool holds open connections that nobody has, and is empty after close().
PoolOK ==
    /\ free \subseteq open /\ IsFiniteSet(free) /\ Cardinality(free) <= PoolSize
    /\ closing => closed
    /\ closed /\ ~closing => free = {}

\* What is open is in the pool or with the one thread that borrowed it.
PoolBusyOK ==
    /\ \A c \in open : c \in free \/ \E t \in Thread : busy[t] = c
    /\ \A t, u \in Thread : busy[t] = busy[u] /\ t # u => busy[t] = 0
    /\ \A t \in Thread : busy[t] \notin free
    /\ \A t \in Thread : user[t].pc \notin PoolHolding => busy[t] = 0

\* A statement has a result when it is over, and one that may be tried again
\* has none and an attempt left.
PoolUserOK ==
    \A t \in Thread :
        /\ user[t].pc \in {"back", "done"} =>
             applied[t] = IF user[t].result = "ok" THEN 1 ELSE 0
        /\ user[t].pc \notin {"back", "done"} => applied[t] = 0 /\ user[t].result = "none"
        /\ user[t].pc = "back" /\ user[t].result = "none" => user[t].tries < Retries
        /\ user[t].pc = "retry" => user[t].tries < Retries
        /\ user[t].pc = "idle" => user[t].tries = 0
        /\ user[t].pc = "done" => user[t].result # "none"

PoolInv == D!TypeOK /\ PoolOK /\ PoolBusyOK /\ PoolUserOK

LEMMA PoolMoved ==
  ASSUME PoolIsUser, NEW t \in Thread, NEW p \in PoolPcs, user' = [user EXCEPT ![t].pc = p]
  PROVE  /\ PoolIsUser' /\ PoolOthers(t)
         /\ user'[t].pc = p /\ user'[t].tries = user[t].tries
         /\ user'[t].result = user[t].result
  <1> USE DEF PoolIsUser, PoolUsers
  <1>1. PoolIsUser'
    OBVIOUS
  <1>2. /\ PoolOthers(t) /\ user'[t].pc = p /\ user'[t].tries = user[t].tries
        /\ user'[t].result = user[t].result
    BY DEF PoolOthers
  <1>3. QED
    BY <1>1, <1>2

LEMMA PoolResulted ==
  ASSUME PoolIsUser, NEW t \in Thread, NEW p \in PoolPcs, NEW r \in {"none", "ok", "failed"},
         user' = [user EXCEPT ![t].pc = p, ![t].result = r]
  PROVE  /\ PoolIsUser' /\ PoolOthers(t)
         /\ user'[t].pc = p /\ user'[t].tries = user[t].tries /\ user'[t].result = r
  <1> USE DEF PoolIsUser, PoolUsers
  <1>1. PoolIsUser'
    OBVIOUS
  <1>2. PoolOthers(t) /\ user'[t].pc = p /\ user'[t].tries = user[t].tries /\ user'[t].result = r
    BY DEF PoolOthers
  <1>3. QED
    BY <1>1, <1>2

LEMMA PoolTried ==
  ASSUME PoolIsUser, Retries \in Nat, NEW t \in Thread, user[t].tries < Retries,
         user' = [user EXCEPT ![t].pc = "get", ![t].tries = @ + 1]
  PROVE  /\ PoolIsUser' /\ PoolOthers(t)
         /\ user'[t].pc = "get" /\ user'[t].result = user[t].result
  <1> USE DEF PoolIsUser, PoolUsers, PoolPcs
  <1>1. user[t].tries + 1 \in 0 .. Retries
    OBVIOUS
  <1>2. PoolIsUser'
    BY <1>1
  <1>3. PoolOthers(t) /\ user'[t].pc = "get" /\ user'[t].result = user[t].result
    BY DEF PoolOthers
  <1>4. QED
    BY <1>2, <1>3

\* A pool of at most n connections that loses one, or gets one while it is not full.
LEMMA PoolFewer ==
  ASSUME NEW U, IsFiniteSet(U), NEW n \in Nat, Cardinality(U) <= n, NEW c \in U
  PROVE  IsFiniteSet(U \ {c}) /\ Cardinality(U \ {c}) <= n
  <1>1. IsFiniteSet(U \ {c}) /\ Cardinality(U \ {c}) = Cardinality(U) - 1
    BY FS_RemoveElement
  <1>2. Cardinality(U) \in Nat
    BY FS_CardinalityType
  <1>3. QED
    BY <1>1, <1>2

LEMMA PoolOneMore ==
  ASSUME NEW U, IsFiniteSet(U), NEW n \in Nat, Cardinality(U) <= n, Cardinality(U) # n, NEW c
  PROVE  IsFiniteSet(U \cup {c}) /\ Cardinality(U \cup {c}) <= n
  <1>1. /\ IsFiniteSet(U \cup {c})
        /\ Cardinality(U \cup {c}) = IF c \in U THEN Cardinality(U) ELSE Cardinality(U) + 1
    BY FS_AddElement
  <1>2. Cardinality(U) \in Nat
    BY FS_CardinalityType
  <1>3. QED
    BY <1>1, <1>2

LEMMA PoolIsUsers == D!TypeOK => PoolIsUser
  BY DEF D!TypeOK, PoolIsUser, PoolUsers, PoolPcs

LEMMA PoolInitInv == PoolSized /\ D!Init => PoolInv
  <1> SUFFICES ASSUME PoolSized, D!Init PROVE PoolInv
    OBVIOUS
  <1> USE DEF PoolSized
  <1>1. /\ open = 1 .. PoolSize /\ free = open /\ closed = FALSE /\ closing = FALSE /\ dead = 0
        /\ busy = [t \in Thread |-> 0] /\ applied = [t \in Thread |-> 0]
    BY DEF D!Init
  <1>2. /\ user \in [Thread -> PoolUsers]
        /\ \A t \in Thread : user[t].pc = "idle" /\ user[t].tries = 0 /\ user[t].result = "none"
    BY DEF D!Init, PoolUsers, PoolPcs
  <1>3. D!TypeOK
    <2>1. Cardinality(Thread) \in Nat
      BY FS_CardinalityType
    <2>2. open \subseteq D!Conn /\ free \subseteq open
      BY <1>1, <2>1, PoolCount DEF D!Conn
    <2>3. busy \in [Thread -> D!Conn \cup {0}] /\ applied \in [Thread -> 0 .. Retries]
      BY <1>1
    <2>4. closed \in BOOLEAN /\ closing \in BOOLEAN
      BY <1>1
    <2>5. dead \in 0 .. MaxFaults
      BY <1>1
    <2>6. QED
      BY <1>2, <2>2, <2>3, <2>4, <2>5 DEF D!TypeOK, PoolUsers, PoolPcs
  <1>4. PoolOK
    <2>1. IsFiniteSet(1 .. PoolSize) /\ Cardinality(1 .. PoolSize) = PoolSize
      <3>1. IsFiniteSet(1 .. PoolSize)
        BY FS_Interval
      <3>2. Cardinality(1 .. PoolSize) = IF 1 > PoolSize THEN 0 ELSE PoolSize - 1 + 1
        BY FS_Interval
      <3>3. QED
        BY <3>1, <3>2
    <2>2. QED
      BY <1>1, <2>1 DEF PoolOK
  <1>5. PoolBusyOK
    BY <1>1, <1>2 DEF PoolBusyOK, PoolHolding
  <1>6. PoolUserOK
    BY <1>1, <1>2 DEF PoolUserOK
  <1>7. QED
    BY <1>3, <1>4, <1>5, <1>6 DEF PoolInv

LEMMA PoolNextInv ==
  ASSUME PoolSized, PoolInv, [D!Next]_dbVars
  PROVE  PoolInv'
  <1> USE DEF PoolInv, PoolSized
  <1>0. PoolIsUser
    BY PoolIsUsers
  <1>1. ASSUME NEW t \in Thread, D!Enter(t) PROVE PoolInv'
    <2>1. user[t].pc \in {"idle", "retry"} /\ UNCHANGED <<open, free, busy, applied, closed, closing, dead>>
      BY <1>1 DEF D!Enter
    <2>2. CASE user' = [user EXCEPT ![t].pc = "done", ![t].result = "failed"]
      <3>1. /\ PoolIsUser' /\ PoolOthers(t)
            /\ user'[t].pc = "done" /\ user'[t].tries = user[t].tries /\ user'[t].result = "failed"
        BY <1>0, <2>2, PoolResulted DEF PoolPcs
      <3>2. D!TypeOK'
        BY <2>1, <3>1 DEF D!TypeOK, PoolIsUser, PoolUsers, PoolPcs
      <3>3. PoolOK'
        BY <2>1, <3>1 DEF PoolOK
      <3>4. PoolBusyOK'
        BY <2>1, <3>1 DEF PoolOthers, PoolOK, PoolBusyOK, PoolHolding, D!TypeOK, D!Conn
      <3>5. PoolUserOK'
        BY <2>1, <3>1 DEF PoolOthers, PoolUserOK
      <3>6. QED
        BY <3>2, <3>3, <3>4, <3>5
    <2>3. CASE user' = [user EXCEPT ![t].pc = "get", ![t].tries = @ + 1]
      <3>1. user[t].tries < Retries
        BY <2>1 DEF PoolUserOK
      <3>2. /\ PoolIsUser' /\ PoolOthers(t)
            /\ user'[t].pc = "get" /\ user'[t].result = user[t].result
        BY <1>0, <2>3, <3>1, PoolTried
      <3>3. D!TypeOK'
        BY <2>1, <3>2 DEF D!TypeOK, PoolIsUser, PoolUsers, PoolPcs
      <3>4. PoolOK'
        BY <2>1, <3>2 DEF PoolOK
      <3>5. PoolBusyOK'
        BY <2>1, <3>2 DEF PoolOthers, PoolOK, PoolBusyOK, PoolHolding, D!TypeOK, D!Conn
      <3>6. PoolUserOK'
        BY <2>1, <3>2 DEF PoolOthers, PoolUserOK
      <3>7. QED
        BY <3>3, <3>4, <3>5, <3>6
    <2>4. QED
      BY <1>1, <2>2, <2>3 DEF D!Enter
  <1>2. ASSUME NEW t \in Thread, D!Get(t) PROVE PoolInv'
    <2>1. /\ PoolIsUser' /\ PoolOthers(t)
          /\ user'[t].pc = "check" /\ user'[t].tries = user[t].tries
          /\ user'[t].result = user[t].result
      BY <1>0, <1>2, PoolMoved DEF D!Get, D!Go, PoolPcs
    <2>2. user[t].pc = "get" /\ busy[t] = 0 /\ UNCHANGED <<applied, closed, closing, dead>>
      BY <1>2 DEF D!Get, D!At, PoolBusyOK, PoolHolding
    <2>3. ASSUME NEW c \in free, busy' = [busy EXCEPT ![t] = c], free' = free \ {c}, open' = open
          PROVE  PoolInv'
      <3>1. c \in D!Conn /\ c # 0 /\ busy' \in [Thread -> D!Conn \cup {0}]
            /\ busy'[t] = c /\ \A u \in Thread \ {t} : busy'[u] = busy[u]
        BY <2>3 DEF D!TypeOK, PoolOK, D!Conn
      <3>2. IsFiniteSet(free') /\ Cardinality(free') <= PoolSize
        BY <2>3, PoolFewer DEF PoolOK
      <3>3. D!TypeOK'
        BY <2>1, <2>2, <2>3, <3>1, <3>2 DEF D!TypeOK, PoolIsUser, PoolUsers, PoolPcs
      <3>4. PoolOK'
        BY <2>1, <2>2, <2>3, <3>1, <3>2 DEF PoolOK
      <3>5. PoolBusyOK'
        BY <2>1, <2>2, <2>3, <3>1, <3>2 DEF PoolOthers, PoolOK, PoolBusyOK, PoolHolding,
           D!TypeOK, D!Conn
      <3>6. PoolUserOK'
        BY <2>1, <2>2, <2>3, <3>1, <3>2 DEF PoolOthers, PoolUserOK
      <3>7. QED
        BY <3>3, <3>4, <3>5, <3>6
    <2>4. ASSUME NEW c \in D!Conn, D!Created(c), open' = open \cup {c},
                 busy' = [busy EXCEPT ![t] = c], free' = free
          PROVE  PoolInv'
      <3>1. /\ c \notin open /\ (\A u \in Thread : busy[u] # c) /\ c # 0
            /\ busy' \in [Thread -> D!Conn \cup {0}]
            /\ busy'[t] = c /\ \A u \in Thread \ {t} : busy'[u] = busy[u]
        BY <2>4 DEF D!Created, D!Unused, D!TypeOK, D!Conn
      <3>2. D!TypeOK'
        BY <2>1, <2>2, <2>4, <3>1 DEF D!TypeOK, PoolIsUser, PoolUsers, PoolPcs
      <3>3. PoolOK'
        BY <2>1, <2>2, <2>4, <3>1 DEF PoolOK
      <3>4. PoolBusyOK'
        BY <2>1, <2>2, <2>4, <3>1 DEF PoolOthers, PoolOK, PoolBusyOK, PoolHolding,
           D!TypeOK, D!Conn
      <3>5. PoolUserOK'
        BY <2>1, <2>2, <2>4, <3>1 DEF PoolOthers, PoolUserOK
      <3>6. QED
        BY <3>2, <3>3, <3>4, <3>5
    <2>5. QED
      BY <1>2, <2>3, <2>4 DEF D!Get
  <1>3. ASSUME NEW t \in Thread, D!Check(t) PROVE PoolInv'
    <2>1. user[t].pc = "check" /\ busy[t] \notin free /\ UNCHANGED <<free, applied, closed, closing>>
      BY <1>3 DEF D!Check, D!At, PoolBusyOK
    <2>2. CASE D!Go(t, "run") /\ UNCHANGED <<open, busy, dead>>
      <3>1. /\ PoolIsUser' /\ PoolOthers(t)
            /\ user'[t].pc = "run" /\ user'[t].tries = user[t].tries
            /\ user'[t].result = user[t].result
        BY <1>0, <2>2, PoolMoved DEF D!Go, PoolPcs
      <3>2. D!TypeOK'
        BY <2>1, <2>2, <3>1 DEF D!TypeOK, PoolIsUser, PoolUsers, PoolPcs
      <3>3. PoolOK'
        BY <2>1, <2>2, <3>1 DEF PoolOK
      <3>4. PoolBusyOK'
        BY <2>1, <2>2, <3>1 DEF PoolOthers, PoolOK, PoolBusyOK, PoolHolding, D!TypeOK,
           D!Conn
      <3>5. PoolUserOK'
        BY <2>1, <2>2, <3>1 DEF PoolOthers, PoolUserOK
      <3>6. QED
        BY <3>2, <3>3, <3>4, <3>5
    <2>3. ASSUME NEW c \in D!Conn, D!Created(c), open' = (open \ {busy[t]}) \cup {c},
                 busy' = [busy EXCEPT ![t] = c], D!Go(t, "run"), D!Fault
          PROVE  PoolInv'
      <3>1. /\ PoolIsUser' /\ PoolOthers(t)
            /\ user'[t].pc = "run" /\ user'[t].tries = user[t].tries
            /\ user'[t].result = user[t].result
        BY <1>0, <2>3, PoolMoved DEF D!Go, PoolPcs
      <3>2. /\ c \notin open /\ (\A u \in Thread : busy[u] # c) /\ c # 0
            /\ busy' \in [Thread -> D!Conn \cup {0}]
            /\ busy'[t] = c /\ \A u \in Thread \ {t} : busy'[u] = busy[u]
        BY <2>3 DEF D!Created, D!Unused, D!TypeOK, D!Conn
      <3>3. dead' \in 0 .. MaxFaults
        BY <2>3 DEF D!Fault, D!TypeOK
      <3>4. D!TypeOK'
        BY <2>1, <2>3, <3>1, <3>2, <3>3 DEF D!TypeOK, PoolIsUser, PoolUsers, PoolPcs
      <3>5. PoolOK'
        BY <2>1, <2>3, <3>1, <3>2, <3>3 DEF PoolOK
      <3>6. PoolBusyOK'
        BY <2>1, <2>3, <3>1, <3>2, <3>3 DEF PoolOthers, PoolOK, PoolBusyOK, PoolHolding,
           D!TypeOK, D!Conn
      <3>7. PoolUserOK'
        BY <2>1, <2>3, <3>1, <3>2, <3>3 DEF PoolOthers, PoolUserOK
      <3>8. QED
        BY <3>4, <3>5, <3>6, <3>7
    <2>4. CASE /\ D!Fault /\ open' = open \ {busy[t]} /\ UNCHANGED busy
               /\ user' = [user EXCEPT ![t].pc = "back", ![t].result = "failed"]
      <3>1. /\ PoolIsUser' /\ PoolOthers(t)
            /\ user'[t].pc = "back" /\ user'[t].tries = user[t].tries /\ user'[t].result = "failed"
        BY <1>0, <2>4, PoolResulted DEF PoolPcs
      <3>2. dead' \in 0 .. MaxFaults
        BY <2>4 DEF D!Fault, D!TypeOK
      <3>3. D!TypeOK'
        BY <2>1, <2>4, <3>1, <3>2 DEF D!TypeOK, PoolIsUser, PoolUsers, PoolPcs
      <3>4. PoolOK'
        BY <2>1, <2>4, <3>1, <3>2 DEF PoolOK
      <3>5. PoolBusyOK'
        BY <2>1, <2>4, <3>1, <3>2 DEF PoolOthers, PoolOK, PoolBusyOK, PoolHolding,
           D!TypeOK, D!Conn
      <3>6. PoolUserOK'
        BY <2>1, <2>4, <3>1, <3>2 DEF PoolOthers, PoolUserOK
      <3>7. QED
        BY <3>3, <3>4, <3>5, <3>6
    <2>5. QED
      BY <1>3, <2>2, <2>3, <2>4 DEF D!Check
  <1>4. ASSUME NEW t \in Thread, D!Run(t) PROVE PoolInv'
    <2>1. user[t].pc = "run" /\ UNCHANGED <<open, free, busy, closed, closing, dead>>
      BY <1>4 DEF D!Run, D!At
    <2>2. CASE /\ applied' = [applied EXCEPT ![t] = @ + 1]
               /\ user' = [user EXCEPT ![t].pc = "back", ![t].result = "ok"]
      <3>1. /\ PoolIsUser' /\ PoolOthers(t)
            /\ user'[t].pc = "back" /\ user'[t].tries = user[t].tries /\ user'[t].result = "ok"
        BY <1>0, <2>2, PoolResulted DEF PoolPcs
      <3>2. applied[t] = 0
        BY <2>1 DEF PoolUserOK
      <3>3. /\ applied' \in [Thread -> 0 .. Retries] /\ applied'[t] = 1
            /\ \A u \in Thread \ {t} : applied'[u] = applied[u]
        BY <2>2, <3>2 DEF D!TypeOK
      <3>4. D!TypeOK'
        BY <2>1, <3>1, <3>3 DEF D!TypeOK, PoolIsUser, PoolUsers, PoolPcs
      <3>5. PoolOK'
        BY <2>1, <3>1, <3>3 DEF PoolOK
      <3>6. PoolBusyOK'
        BY <2>1, <3>1, <3>3 DEF PoolOthers, PoolOK, PoolBusyOK, PoolHolding, D!TypeOK,
           D!Conn
      <3>7. PoolUserOK'
        BY <2>1, <3>1, <3>3 DEF PoolOthers, PoolUserOK
      <3>8. QED
        BY <3>4, <3>5, <3>6, <3>7
    <2>3. CASE /\ user' = [user EXCEPT ![t].pc = "back",
                                       ![t].result = IF user[t].tries < Retries
                                                       THEN "none" ELSE "failed"]
               /\ UNCHANGED applied
      <3>1. /\ PoolIsUser' /\ PoolOthers(t)
            /\ user'[t].pc = "back" /\ user'[t].tries = user[t].tries
            /\ user'[t].result = (IF user[t].tries < Retries THEN "none" ELSE "failed")
        <4> DEFINE r == IF user[t].tries < Retries THEN "none" ELSE "failed"
        <4>1. r \in {"none", "ok", "failed"} /\ "back" \in PoolPcs
          BY DEF PoolPcs
        <4>2. user' = [user EXCEPT ![t].pc = "back", ![t].result = r]
          BY <2>3
        <4> HIDE DEF r
        <4>3. PoolIsUser' /\ PoolOthers(t) /\ user'[t].pc = "back" /\ user'[t].tries = user[t].tries
              /\ user'[t].result = r
          BY <1>0, <4>1, <4>2, PoolResulted
        <4>4. QED
          BY <4>3 DEF r
      <3>2. applied' = applied /\ applied[t] = 0
        BY <2>1, <2>3 DEF PoolUserOK
      <3>3. D!TypeOK'
        BY <2>1, <3>1, <3>2 DEF D!TypeOK, PoolIsUser, PoolUsers, PoolPcs
      <3>4. PoolOK'
        BY <2>1 DEF PoolOK
      <3>5. PoolBusyOK'
        BY <2>1, <3>1 DEF PoolOthers, PoolBusyOK, PoolHolding
      <3>6. PoolUserOK'
        BY <3>1, <3>2 DEF PoolOthers, PoolUserOK
      <3>7. QED
        BY <3>3, <3>4, <3>5, <3>6
    <2>4. CASE /\ user' = [user EXCEPT ![t].pc = "back", ![t].result = "failed"]
               /\ UNCHANGED applied
      <3>1. /\ PoolIsUser' /\ PoolOthers(t)
            /\ user'[t].pc = "back" /\ user'[t].tries = user[t].tries /\ user'[t].result = "failed"
        BY <1>0, <2>4, PoolResulted DEF PoolPcs
      <3>2. D!TypeOK'
        BY <2>1, <2>4, <3>1 DEF D!TypeOK, PoolIsUser, PoolUsers, PoolPcs
      <3>3. PoolOK'
        BY <2>1, <2>4, <3>1 DEF PoolOK
      <3>4. PoolBusyOK'
        BY <2>1, <2>4, <3>1 DEF PoolOthers, PoolOK, PoolBusyOK, PoolHolding, D!TypeOK,
           D!Conn
      <3>5. PoolUserOK'
        BY <2>1, <2>4, <3>1 DEF PoolOthers, PoolUserOK
      <3>6. QED
        BY <3>2, <3>3, <3>4, <3>5
    <2>5. QED
      BY <1>4, <2>2, <2>3, <2>4 DEF D!Run
  <1>5. ASSUME NEW t \in Thread, ~closing, D!Back(t) PROVE PoolInv'
    <2>1. user[t].pc = "back" /\ busy[t] \notin free /\ UNCHANGED <<applied, closed, closing, dead>>
      BY <1>5 DEF D!Back, D!At, PoolBusyOK
    <2>2. /\ PoolIsUser' /\ PoolOthers(t)
          /\ user'[t].pc = (IF user[t].result = "none" THEN "retry" ELSE "done")
          /\ user'[t].tries = user[t].tries /\ user'[t].result = user[t].result
      <3> DEFINE p == IF user[t].result = "none" THEN "retry" ELSE "done"
      <3>1. p \in PoolPcs /\ user' = [user EXCEPT ![t].pc = p]
        BY <1>5 DEF D!Back, D!Go, PoolPcs
      <3> HIDE DEF p
      <3>2. PoolIsUser' /\ PoolOthers(t) /\ user'[t].pc = p /\ user'[t].tries = user[t].tries
            /\ user'[t].result = user[t].result
        BY <1>0, <3>1, PoolMoved
      <3>3. QED
        BY <3>2 DEF p
    <2>3. /\ busy' \in [Thread -> D!Conn \cup {0}] /\ busy'[t] = 0
          /\ \A u \in Thread \ {t} : busy'[u] = busy[u]
      BY <1>5 DEF D!Back, D!TypeOK
    <2>6. 0 \notin open
      BY DEF D!TypeOK, D!Conn
    <2>4. CASE open' = open \ {busy[t]} /\ UNCHANGED free
      <3>1. D!TypeOK'
        BY <2>1, <2>2, <2>3, <2>4 DEF D!TypeOK, PoolIsUser, PoolUsers, PoolPcs
      <3>2. PoolOK'
        BY <2>1, <2>2, <2>3, <2>4 DEF PoolOK
      <3>3. PoolBusyOK'
        BY <2>1, <2>2, <2>3, <2>4, <2>6 DEF PoolOthers, PoolOK, PoolBusyOK, PoolHolding
      <3>4. PoolUserOK'
        BY <2>1, <2>2, <2>3, <2>4 DEF PoolOthers, PoolUserOK
      <3>5. QED
        BY <3>1, <3>2, <3>3, <3>4
    <2>5. CASE ~D!Surplus(t) /\ free' = free \cup {busy[t]} /\ UNCHANGED open
      <3>1. ~closed /\ busy[t] \in open /\ Cardinality(free) # PoolSize
        BY <2>5, PoolCount DEF D!Surplus
      <3>2. IsFiniteSet(free') /\ Cardinality(free') <= PoolSize
        BY <2>5, <3>1, PoolOneMore DEF PoolOK
      <3>3. D!TypeOK'
        BY <2>1, <2>2, <2>3, <2>5, <3>1, <3>2 DEF D!TypeOK, PoolIsUser, PoolUsers, PoolPcs
      <3>4. PoolOK'
        BY <2>1, <2>2, <2>3, <2>5, <3>1, <3>2 DEF PoolOK
      <3>5. PoolBusyOK'
        BY <2>1, <2>2, <2>3, <2>5, <2>6, <3>1
        DEF PoolOthers, PoolOK, PoolBusyOK, PoolHolding, D!TypeOK
      <3>6. PoolUserOK'
        BY <2>1, <2>2, <2>3, <2>5, <3>1, <3>2 DEF PoolOthers, PoolUserOK
      <3>7. QED
        BY <3>3, <3>4, <3>5, <3>6
    <2>7. QED
      BY <1>5, <2>4, <2>5 DEF D!Back
  <1>6. CASE D!Close
    BY <1>6 DEF D!Close, D!TypeOK, PoolOK, PoolBusyOK, PoolUserOK
  <1>7. CASE D!CloseOne
    <2>1. UNCHANGED <<busy, user, applied, closed, dead>> /\ closing
      BY <1>7 DEF D!CloseOne
    <2>2. CASE free = {} /\ closing' = FALSE /\ UNCHANGED <<open, free>>
      BY <2>1, <2>2 DEF D!TypeOK, PoolOK, PoolBusyOK, PoolUserOK
    <2>3. ASSUME NEW c \in free, open' = open \ {c}, free' = free \ {c}, UNCHANGED closing
          PROVE  PoolInv'
      <3>1. IsFiniteSet(free') /\ Cardinality(free') <= PoolSize
        BY <2>3, PoolFewer DEF PoolOK
      <3>2. QED
        BY <2>1, <2>3, <3>1 DEF D!TypeOK, PoolOK, PoolBusyOK, PoolUserOK
    <2>4. QED
      BY <1>7, <2>2, <2>3 DEF D!CloseOne
  <1>8. CASE UNCHANGED dbVars
    BY <1>8 DEF dbVars, D!TypeOK, PoolOK, PoolBusyOK, PoolUserOK
  <1>9. QED
    BY <1>1, <1>2, <1>3, <1>4, <1>5, <1>6, <1>7, <1>8 DEF D!Next

LEMMA PoolSound ==
  ASSUME PoolInv
  PROVE  D!TypeOK /\ D!NoneLeaks
<1> USE DEF PoolInv
<1>1. open = free \cup ({busy[t] : t \in Thread} \cap open)
  BY DEF PoolOK, PoolBusyOK
<1>2. 0 \notin open
  BY DEF D!TypeOK, D!Conn
<1>3. closed /\ ~closing /\ (\A t \in Thread : user[t].pc \in {"idle", "done"}) => open = {}
  BY <1>2 DEF PoolOK, PoolBusyOK, PoolHolding, D!TypeOK
<1> QED
  BY <1>1, <1>3, PoolCount DEF D!NoneLeaks, PoolOK, PoolBusyOK, PoolUserOK, D!At

-----------------------------------------------------------------------------
(* The tools of a node: a count is written at the end of its stream, and rows*)
(* come from what runs.                                                     *)

ToolsFlow == [pc : {"none", "begun", "open", "cut", "over"},
              made : 0 .. MaxChunks, came : 0 .. MaxChunks, closed : BOOLEAN]

\* A count is written at the end of the stream, which nothing changes after.
ToolsCounted ==
    \A t \in Test :
        /\ flow[t].came <= flow[t].made
        /\ entry[t] > 0 => flow[t].pc = "over" /\ entry[t] = flow[t].came
        /\ test[t] = "off" => flow[t].pc = "none"
        /\ test[t] = "asked" => T!Download(t)
        /\ test[t] = "asking" => ~T!Download(t)
        /\ T!Download(t) /\ test[t] \in {"asked", "waiting"} => entry[t] # T!None
        /\ test[t] = "over" /\ told[t] > 0 =>
             IF T!Download(t) THEN flow[t].pc = "over" /\ told[t] = flow[t].came
                              ELSE told[t] <= flow[t].made

\* What runs is a part of the request; what has ended has a row.
ToolsRows == \A n \in T!Member : row[n] # "none" <=> n \in targets \ going
ToolsFanned ==
    /\ ToolsRows
    /\ tool = "speed" => targets = {}
    /\ phase = "off" => targets = {} /\ going = {}
    /\ phase = "sweep" => targets = {} /\ going = {T!Sweeper}
    /\ phase = "parts" => going \subseteq targets
    /\ phase \in {"told", "failed"} => going = {}

ToolsWritten == /\ post.done <= post.tries
                /\ post.told = "ok" \/ post.at = "served" => post.done > 0

ToolsInv == T!TypeOK /\ ToolsCounted /\ ToolsFanned /\ ToolsWritten

LEMMA ToolsInitInv == ASSUME ToolsSized, T!Init PROVE ToolsInv
<1>1. T!TypeOK
  BY DEF ToolsSized, T!Init, T!TypeOK, T!Failed, T!None
<1>2. ToolsCounted
  BY DEF ToolsSized, T!Init, ToolsCounted, T!None
<1>3. ToolsFanned /\ ToolsWritten
  BY DEF ToolsSized, T!Init, ToolsFanned, ToolsRows, ToolsWritten
<1> QED
  BY <1>1, <1>2, <1>3 DEF ToolsInv

\* A step of a speed test leaves the rest alone.
ToolsRest == UNCHANGED <<tool, world, T!fanVars, post>>

LEMMA ToolsAside ==
  ASSUME ToolsInv, ToolsRest, UNCHANGED phase
  PROVE  ToolsFanned' /\ ToolsWritten'
  BY DEF ToolsInv, ToolsRest, T!fanVars, ToolsFanned, ToolsRows, ToolsWritten

\* The types of what a speed test changes.
ToolsTyped ==
    /\ test \in [Test -> {"off", "asked", "waiting", "asking", "over"}]
    /\ told \in [Test -> T!Failed .. MaxChunks]
    /\ flow \in [Test -> ToolsFlow]
    /\ entry \in [Test -> T!None .. MaxChunks]
    /\ event \in [Test -> {"none", "waiter", "stream"}]
    /\ awake \subseteq Test
    /\ slips \in 0 .. MaxFaults

LEMMA ToolsSpeeds ==
  ASSUME ToolsInv, ToolsRest, UNCHANGED phase, ToolsTyped', ToolsCounted'
  PROVE  ToolsInv'
<1>1. T!TypeOK'
  BY DEF ToolsInv, ToolsRest, T!fanVars, T!TypeOK, ToolsTyped, ToolsFlow
<1> QED
  BY <1>1, ToolsAside DEF ToolsInv

\* The stream of t goes on.
ToolsGoes(t) == /\ flow' \in [Test -> ToolsFlow]
                /\ \A s \in Test \ {t} : flow'[s] = flow[s]
                /\ flow'[t].came <= flow'[t].made /\ flow[t].made <= flow'[t].made

LEMMA ToolsFlows ==
  ASSUME ToolsTyped, ToolsCounted, NEW t \in Test, ToolsGoes(t), UNCHANGED <<test, told, entry>>,
         flow[t].pc # "over", test[t] # "off"
  PROVE  ToolsCounted'
<1>1. /\ \A s \in Test \ {t} : flow'[s] = flow[s]
      /\ flow[t] \in ToolsFlow /\ flow'[t] \in ToolsFlow /\ told[t] \in T!Failed .. MaxChunks
      /\ flow'[t].came <= flow'[t].made /\ flow[t].made <= flow'[t].made
  BY DEF ToolsTyped, ToolsGoes
<1>2. ~(entry[t] > 0) /\ ~(T!Download(t) /\ test[t] = "over" /\ told[t] > 0)
  BY DEF ToolsCounted
<1>3. ASSUME NEW s \in Test
      PROVE  /\ flow'[s].came <= flow'[s].made
             /\ entry'[s] > 0 => flow'[s].pc = "over" /\ entry'[s] = flow'[s].came
             /\ test'[s] = "off" => flow'[s].pc = "none"
             /\ test'[s] = "asked" => T!Download(s)
             /\ test'[s] = "asking" => ~T!Download(s)
             /\ T!Download(s) /\ test'[s] \in {"asked", "waiting"} => entry'[s] # T!None
             /\ test'[s] = "over" /\ told'[s] > 0 =>
                  IF T!Download(s) THEN flow'[s].pc = "over" /\ told'[s] = flow'[s].came
                                   ELSE told'[s] <= flow'[s].made
  <2>1. CASE s = t
    BY <1>1, <1>2, <2>1 DEF ToolsCounted, ToolsFlow, T!Failed
  <2>2. CASE s # t
    BY <1>1, <2>2 DEF ToolsCounted
  <2> QED
    BY <2>1, <2>2
<1> QED
  BY <1>3 DEF ToolsCounted

\* A part ends with a count that is true of its stream.
LEMMA ToolsFinishes ==
  ASSUME ToolsSized, ToolsTyped, ToolsCounted, NEW t \in Test, NEW n \in T!Failed .. MaxChunks, T!Finish(t, n),
         UNCHANGED flow,
         n > 0 => IF T!Download(t) THEN flow[t].pc = "over" /\ n = flow[t].came
                                   ELSE n <= flow[t].made
  PROVE  /\ ToolsCounted'
         /\ test' \in [Test -> {"off", "asked", "waiting", "asking", "over"}]
         /\ told' \in [Test -> T!Failed .. MaxChunks]
         /\ entry' \in [Test -> T!None .. MaxChunks]
         /\ event' \in [Test -> {"none", "waiter", "stream"}]
<1> USE DEF ToolsSized
<1>1. /\ test' = [test EXCEPT ![t] = "over"] /\ told' = [told EXCEPT ![t] = n]
      /\ entry' = entry \/ entry' = [entry EXCEPT ![t] = T!None]
      /\ event' = event \/ event' = [event EXCEPT ![t] = "none"]
  BY DEF T!Finish, T!Key
<1>2. T!None \in T!None .. MaxChunks
  BY DEF T!None
<1>3. /\ test' \in [Test -> {"off", "asked", "waiting", "asking", "over"}]
      /\ told' \in [Test -> T!Failed .. MaxChunks]
      /\ entry' \in [Test -> T!None .. MaxChunks]
      /\ event' \in [Test -> {"none", "waiter", "stream"}]
  BY <1>1, <1>2 DEF ToolsTyped
<1>4. /\ test'[t] = "over" /\ told'[t] = n /\ entry'[t] \in {entry[t], T!None}
      /\ \A s \in Test \ {t} : /\ test'[s] = test[s] /\ told'[s] = told[s]
                               /\ entry'[s] = entry[s]
  BY <1>1 DEF ToolsTyped
<1>5. ~(T!None > 0)
  BY DEF T!None
<1>6. ToolsCounted'
  BY <1>4, <1>5 DEF ToolsCounted, T!Download
<1> QED
  BY <1>3, <1>6

LEMMA ToolsSpeedInv ==
  ASSUME ToolsSized, ToolsInv, T!Speeding
  PROVE  ToolsInv'
<1> USE DEF ToolsSized
<1>1. ToolsTyped /\ ToolsCounted
  BY DEF ToolsInv, T!TypeOK, ToolsTyped, ToolsFlow
<1>2. \A t \in Test : flow[t] \in ToolsFlow /\ entry[t] \in T!None .. MaxChunks /\ flow[t].came <= flow[t].made
  BY <1>1 DEF ToolsTyped, ToolsCounted
<1>3. T!Fault => slips' \in 0 .. MaxFaults
  BY <1>1 DEF ToolsTyped, T!Fault
<1>4. ASSUME NEW t \in Test, T!Start(t) PROVE ToolsInv'
  <2>1. ToolsRest /\ UNCHANGED <<phase, told, awake, slips>> /\ test[t] = "off"
    BY <1>4 DEF T!Start, ToolsRest
  <2>2. CASE T!Download(t)
    <3>1. /\ test' = [test EXCEPT ![t] = "asked"] /\ entry' = [entry EXCEPT ![t] = 0]
          /\ event' = [event EXCEPT ![t] = "waiter"] /\ flow' = flow
      BY <1>4, <2>2 DEF T!Start, T!Key
    <3>2. 0 \in T!None .. MaxChunks /\ T!None # 0
      BY DEF T!None
    <3>3. ToolsTyped'
      BY <1>1, <2>1, <3>1, <3>2 DEF ToolsTyped
    <3>4. ToolsCounted'
      BY <1>1, <2>1, <2>2, <3>1, <3>2 DEF ToolsTyped, ToolsCounted, T!Download
    <3> QED
      BY <2>1, <3>3, <3>4, ToolsSpeeds
  <2>3. CASE ~T!Download(t)
    <3>1. /\ test' = [test EXCEPT ![t] = "waiting"]
          /\ flow' = [flow EXCEPT ![t].pc = "begun"]
          /\ entry' = entry /\ event' = event
      BY <1>4, <2>3 DEF T!Start
    <3>2. ToolsTyped'
      BY <1>1, <2>1, <3>1 DEF ToolsTyped, ToolsFlow
    <3>3. ToolsCounted'
      BY <1>1, <2>1, <2>3, <3>1 DEF ToolsTyped, ToolsFlow, ToolsCounted, T!Download
    <3> QED
      BY <2>1, <3>2, <3>3, ToolsSpeeds
  <2> QED
    BY <2>2, <2>3
\* Steps of the stream.
<1>5. ASSUME NEW t \in Test, ToolsGoes(t), ToolsRest,
             UNCHANGED <<phase, test, told, entry, event, awake>>,
             slips' \in 0 .. MaxFaults, flow[t].pc # "over", test[t] # "off"
      PROVE  ToolsInv'
  <2>1. ToolsTyped'
    BY <1>1, <1>5 DEF ToolsTyped, ToolsGoes
  <2>2. ToolsCounted'
    BY <1>1, <1>5, ToolsFlows
  <2> QED
    BY <1>5, <2>1, <2>2, ToolsSpeeds
<1>6. ASSUME NEW t \in Test, T!StartDownload(t) \/ T!Make(t) \/ T!Close(t) \/ T!Carry(t) \/ T!Cut(t)
      PROVE  ToolsInv'
  <2>1. /\ ToolsRest /\ UNCHANGED <<phase, test, told, entry, event, awake>>
        /\ slips' \in 0 .. MaxFaults /\ flow[t].pc # "over" /\ test[t] # "off"
    BY <1>1, <1>3, <1>6
    DEF T!StartDownload, T!Make, T!Close, T!Carry, T!Cut, ToolsRest, T!Making, ToolsTyped,
       ToolsCounted
  <2>2. flow \in [Test -> ToolsFlow]
    BY <1>1 DEF ToolsTyped
  <2>3. CASE T!StartDownload(t) \/ T!Cut(t)
    <3>1. PICK pc \in {"begun", "cut"} : flow' = [flow EXCEPT ![t].pc = pc]
      BY <2>3 DEF T!StartDownload, T!Cut
    <3>2. ToolsGoes(t)
      BY <1>2, <2>2, <3>1 DEF ToolsGoes, ToolsFlow
    <3> QED
      BY <1>5, <2>1, <3>2
  <2>4. CASE T!Make(t)
    <3>1. flow' = [flow EXCEPT ![t].made = @ + 1] /\ flow[t].made < MaxChunks
      BY <2>4 DEF T!Make
    <3>2. ToolsGoes(t)
      BY <1>2, <2>2, <3>1 DEF ToolsGoes, ToolsFlow
    <3> QED
      BY <1>5, <2>1, <3>2
  <2>5. CASE T!Close(t)
    <3>1. flow' = [flow EXCEPT ![t].closed = TRUE]
      BY <2>5 DEF T!Close
    <3>2. ToolsGoes(t)
      <4>1. PICK e \in ToolsFlow : flow[t] = e
        BY <1>2
      <4>2. flow' = [flow EXCEPT ![t] = [e EXCEPT !.closed = TRUE]]
        BY <3>1, <4>1
      <4>3. [e EXCEPT !.closed = TRUE] \in ToolsFlow
        BY DEF ToolsFlow
      <4>4. flow' \in [Test -> ToolsFlow]
        BY <2>2, <4>2, <4>3
      <4>5. flow'[t] = [e EXCEPT !.closed = TRUE] /\ \A s \in Test \ {t} : flow'[s] = flow[s]
        BY <2>2, <4>2
      <4>6. flow'[t].came = flow[t].came /\ flow'[t].made = flow[t].made
        BY <4>1, <4>5 DEF ToolsFlow
      <4>7. flow[t].made \in Nat /\ flow[t].came <= flow[t].made
        BY <1>2 DEF ToolsFlow
      <4> QED
        BY <4>4, <4>5, <4>6, <4>7 DEF ToolsGoes
    <3> QED
      BY <1>5, <2>1, <3>2
  <2>6. CASE T!Carry(t)
    <3>1. flow' = [flow EXCEPT ![t].came = @ + 1] /\ flow[t].came < flow[t].made
      BY <2>6 DEF T!Carry
    <3>2. ToolsGoes(t)
      BY <1>2, <2>2, <3>1 DEF ToolsGoes, ToolsFlow
    <3> QED
      BY <1>5, <2>1, <3>2
  <2> QED
    BY <1>6, <2>3, <2>4, <2>5, <2>6
<1>7. ASSUME NEW t \in Test, T!Granted(t) PROVE ToolsInv'
  <2>1. /\ ToolsRest /\ UNCHANGED <<phase, told, flow, entry, event, awake, slips>>
        /\ test[t] = "asked" /\ test' = [test EXCEPT ![t] = "waiting"]
    BY <1>7 DEF T!Granted, ToolsRest
  <2>2. ToolsTyped'
    BY <1>1, <2>1 DEF ToolsTyped
  <2>3. ToolsCounted'
    BY <1>1, <2>1 DEF ToolsTyped, ToolsCounted, T!Download
  <2> QED
    BY <2>1, <2>2, <2>3, ToolsSpeeds
<1>8. ASSUME NEW t \in Test, T!Denied(t) PROVE ToolsInv'
  <2>1. /\ ToolsRest /\ UNCHANGED <<phase, flow, awake>> /\ T!Finish(t, T!Failed)
        /\ slips' \in 0 .. MaxFaults
    BY <1>3, <1>8 DEF T!Denied, ToolsRest
  <2>2. T!Failed \in T!Failed .. MaxChunks /\ ~(T!Failed > 0)
    BY DEF T!Failed
  <2> QED
    BY <1>1, <2>1, <2>2, ToolsFinishes, ToolsSpeeds DEF ToolsTyped
<1>9. ASSUME NEW t \in Test, T!Open(t) PROVE ToolsInv'
  <2>1. /\ ToolsRest /\ UNCHANGED <<phase, test, told, awake, slips>>
        /\ flow[t].pc = "begun" /\ flow' = [flow EXCEPT ![t].pc = "open"]
        /\ entry' = [entry EXCEPT ![t] = 0]
        /\ event' = event \/ event' = [event EXCEPT ![t] = "stream"]
    BY <1>9 DEF T!Open, ToolsRest, T!Key
  <2>2. 0 \in T!None .. MaxChunks /\ T!None # 0
    BY DEF T!None
  <2>3. ToolsTyped'
    BY <1>1, <2>1, <2>2 DEF ToolsTyped, ToolsFlow
  <2>4. ToolsCounted'
    BY <1>1, <2>1, <2>2 DEF ToolsTyped, ToolsFlow, ToolsCounted, T!Download
  <2> QED
    BY <2>1, <2>3, <2>4, ToolsSpeeds
<1>10. ASSUME NEW t \in Test, T!Ended(t) PROVE ToolsInv'
  <2>1. /\ ToolsRest /\ UNCHANGED <<phase, test, told, event, slips>>
        /\ flow[t].pc = "open" /\ flow' = [flow EXCEPT ![t].pc = "over"]
        /\ entry' = [entry EXCEPT ![t] = flow[t].came]
        /\ awake' \subseteq Test
    BY <1>1, <1>10 DEF T!Ended, ToolsRest, T!Key, ToolsTyped
  <2>2. flow[t].came \in 0 .. MaxChunks /\ flow[t].came \in T!None .. MaxChunks /\ flow[t].came # T!None
    BY <1>2 DEF T!None, ToolsFlow
  <2>3. ToolsTyped'
    BY <1>1, <2>1, <2>2 DEF ToolsTyped, ToolsFlow
  <2>4. ToolsCounted'
    BY <1>1, <2>1, <2>2 DEF ToolsTyped, ToolsFlow, ToolsCounted, T!Download
  <2> QED
    BY <2>1, <2>3, <2>4, ToolsSpeeds
<1>11. ASSUME NEW t \in Test, T!Read(t) PROVE ToolsInv'
  <2>1. /\ ToolsRest /\ UNCHANGED <<phase, flow, awake>> /\ T!Finish(t, entry[t])
        /\ slips' \in 0 .. MaxFaults /\ T!Download(t)
    BY <1>1, <1>3, <1>11 DEF T!Read, ToolsRest, T!Key, T!Deadline, ToolsTyped
  <2>2. entry[t] \in T!Failed .. MaxChunks
    BY <1>2 DEF T!Failed, T!None
  <2>3. entry[t] > 0 => flow[t].pc = "over" /\ entry[t] = flow[t].came
    BY <1>1 DEF ToolsCounted
  <2> QED
    BY <1>1, <2>1, <2>2, <2>3, ToolsFinishes, ToolsSpeeds DEF ToolsTyped
<1>12. ASSUME NEW t \in Test, T!Sent(t) PROVE ToolsInv'
  <2>1. /\ ToolsRest /\ UNCHANGED <<phase, told, flow, entry, event, awake>>
        /\ test' = [test EXCEPT ![t] = "asking"] /\ slips' \in 0 .. MaxFaults
        /\ ~T!Download(t)
    BY <1>1, <1>3, <1>12 DEF T!Sent, ToolsRest, T!Deadline, ToolsTyped
  <2>2. ToolsTyped'
    BY <1>1, <2>1 DEF ToolsTyped
  <2>3. ToolsCounted'
    BY <1>1, <2>1 DEF ToolsTyped, ToolsCounted, T!Download
  <2> QED
    BY <2>1, <2>2, <2>3, ToolsSpeeds
<1>13. ASSUME NEW t \in Test, T!Result(t) PROVE ToolsInv'
  <2>0. ~T!Download(t)
    BY <1>1, <1>13 DEF T!Result, ToolsCounted
  <2>1. PICK n \in {entry[t], flow[t].made} :
          /\ ToolsRest /\ UNCHANGED <<phase, flow, awake>> /\ T!Finish(t, n)
          /\ slips' \in 0 .. MaxFaults
    BY <1>1, <1>3, <1>13 DEF T!Result, ToolsRest, T!Key, ToolsTyped
  <2>2. n \in T!Failed .. MaxChunks
    BY <1>2 DEF T!Failed, T!None, ToolsFlow
  <2>3. n > 0 => n <= flow[t].made
    BY <1>1, <1>2 DEF ToolsCounted, ToolsFlow
  <2> QED
    BY <1>1, <2>0, <2>1, <2>2, <2>3, ToolsFinishes, ToolsSpeeds DEF ToolsTyped
<1> QED
  BY <1>4, <1>6, <1>7, <1>8, <1>9, <1>10, <1>11, <1>12, <1>13 DEF T!Speeding

\* What has nothing to do with speed tests.
LEMMA ToolsOthers ==
  ASSUME ToolsInv, UNCHANGED T!speedVars, tool' = tool,
         phase' \in {"off", "sweep", "parts", "told", "failed"},
         slips' \in 0 .. MaxFaults, world' \subseteq T!Member, targets' \subseteq T!Member,
         going' \subseteq T!Member \union {T!Sweeper},
         row' \in [T!Member -> {"none", "ok", "closed", "offline", "error"}],
         post' \in [tries : 0 .. MaxPosts, done : 0 .. MaxPosts,
                    at : {"idle", "sent", "served"}, told : {"none", "ok", "offline"}],
         ToolsFanned', ToolsWritten'
  PROVE  ToolsInv'
<1>1. T!TypeOK' /\ ToolsCounted'
  BY DEF ToolsInv, T!TypeOK, ToolsCounted, T!speedVars
<1> QED
  BY <1>1 DEF ToolsInv

LEMMA ToolsFanInv ==
  ASSUME ToolsSized, ToolsInv,
         \/ T!RunTest \/ T!Summed \/ T!WorldChanges \/ T!Scan \/ T!Swept \/ T!SweepFails \/ T!Gather \/ T!Answered
         \/ \E n \in T!Member : T!PartEnds(n) \/ T!PartFails(n)
  PROVE  ToolsInv'
<1> USE DEF ToolsSized
<1>1. T!Fault => slips' \in 0 .. MaxFaults
  BY DEF ToolsInv, T!TypeOK, T!Fault
<1>2. /\ tool \in {"speed", "nmap", "bridge", "post"} /\ slips \in 0 .. MaxFaults
      /\ phase \in {"off", "sweep", "parts", "told", "failed"}
      /\ world \subseteq T!Member /\ targets \subseteq T!Member
      /\ going \subseteq T!Member \union {T!Sweeper}
      /\ row \in [T!Member -> {"none", "ok", "closed", "offline", "error"}]
      /\ post \in [tries : 0 .. MaxPosts, done : 0 .. MaxPosts,
                   at : {"idle", "sent", "served"}, told : {"none", "ok", "offline"}]
      /\ ToolsFanned /\ ToolsWritten
  BY DEF ToolsInv, T!TypeOK
<1>3. ASSUME UNCHANGED <<T!speedVars, tool, post>>, slips' \in 0 .. MaxFaults,
             phase' \in {"off", "sweep", "parts", "told", "failed"}, world' \subseteq T!Member,
             targets' \subseteq T!Member, going' \subseteq T!Member \union {T!Sweeper},
             row' \in [T!Member -> {"none", "ok", "closed", "offline", "error"}], ToolsFanned'
      PROVE  ToolsInv'
  BY <1>2, <1>3, ToolsOthers DEF ToolsWritten
<1>4. CASE T!RunTest
  BY <1>2, <1>3, <1>4 DEF T!RunTest, T!fanVars, ToolsFanned, ToolsRows
<1>5. CASE T!Summed
  BY <1>2, <1>3, <1>5 DEF T!Summed, T!fanVars, ToolsFanned, ToolsRows
<1>6. CASE T!WorldChanges
  <2>1. world' \subseteq T!Member
    BY <1>2, <1>6 DEF T!WorldChanges
  <2> QED
    BY <1>1, <1>2, <1>3, <1>6, <2>1 DEF T!WorldChanges, T!fanVars, ToolsFanned, ToolsRows
<1>7. ASSUME NEW U \in SUBSET T!Member, T!FanOut(U), tool # "speed", phase \in {"off", "sweep"},
             UNCHANGED <<T!speedVars, tool, post, world, slips>>
      PROVE  ToolsInv'
  <2>1. \A n \in T!Member : row[n] = "none"
    BY <1>2, <1>7 DEF ToolsFanned, ToolsRows
  <2>2. targets' = U /\ going' = U /\ phase' = "parts" /\ row' = row
    BY <1>7 DEF T!FanOut
  <2>3. ToolsFanned'
    BY <1>7, <2>1, <2>2 DEF ToolsFanned, ToolsRows
  <2> QED
    BY <1>2, <1>3, <1>7, <2>2, <2>3
<1>8. CASE T!Scan
  <2>1. /\ UNCHANGED <<T!speedVars, tool, post, world, slips>>
        /\ tool = "nmap" /\ phase = "off"
    BY <1>8 DEF T!Scan
  <2>2. CASE phase' = "sweep" /\ going' = {T!Sweeper} /\ UNCHANGED <<targets, row>>
    BY <1>2, <1>3, <2>1, <2>2 DEF ToolsFanned, ToolsRows
  <2>3. ASSUME NEW h \in Host, T!FanOut({h}) PROVE ToolsInv'
    BY <1>7, <2>1, <2>3 DEF T!Member
  <2>4. CASE phase' = "failed" /\ UNCHANGED T!fanVars
    BY <1>2, <1>3, <2>1, <2>4 DEF ToolsFanned, ToolsRows, T!fanVars
  <2> QED
    BY <1>8, <2>2, <2>3, <2>4 DEF T!Scan
<1>9. CASE T!Swept
  <2>1. /\ UNCHANGED <<T!speedVars, tool, post, world, slips>>
        /\ tool = "nmap" /\ phase = "sweep"
    BY <1>9 DEF T!Swept
  <2>2. CASE T!FanOut(T!Live)
    BY <1>7, <2>1, <2>2 DEF T!Live, T!Member
  <2>3. CASE phase' = "told" /\ going' = {} /\ UNCHANGED <<targets, row>>
    BY <1>2, <1>3, <2>1, <2>3 DEF ToolsFanned, ToolsRows
  <2> QED
    BY <1>9, <2>2, <2>3 DEF T!Swept
<1>10. CASE T!SweepFails
  <2>1. /\ UNCHANGED <<T!speedVars, tool, post, world, targets, row>>
        /\ tool = "nmap" /\ phase = "sweep" /\ phase' = "failed"
        /\ going' = going \ {T!Sweeper}
    BY <1>10 DEF T!SweepFails, T!Killed
  <2> QED
    BY <1>1, <1>2, <1>3, <1>10, <2>1 DEF T!SweepFails, ToolsFanned, ToolsRows
<1>11. CASE T!Gather
  BY <1>7, <1>11 DEF T!Gather, T!Member
<1>12. CASE T!Answered
  BY <1>2, <1>3, <1>12 DEF T!Answered, T!fanVars, ToolsFanned, ToolsRows
<1>13. ASSUME NEW n \in T!Member, T!PartEnds(n) \/ T!PartFails(n) PROVE ToolsInv'
  <2>1. PICK v \in {"ok", "closed", "offline", "error"} : row' = [row EXCEPT ![n] = v]
    BY <1>13 DEF T!PartEnds, T!PartFails, T!Ports, T!Monitoring
  <2>2. /\ UNCHANGED <<T!speedVars, tool, phase, post, world, targets>>
        /\ phase = "parts" /\ n \in going /\ going' = going \ {n}
        /\ slips' \in 0 .. MaxFaults
    BY <1>1, <1>2, <1>13 DEF T!PartEnds, T!PartFails, T!Killed
  <2>3. /\ row' \in [T!Member -> {"none", "ok", "closed", "offline", "error"}]
        /\ row'[n] # "none" /\ \A m \in T!Member \ {n} : row'[m] = row[m]
    BY <1>2, <2>1
  <2>4. ToolsFanned'
    BY <1>2, <2>2, <2>3 DEF ToolsFanned, ToolsRows
  <2> QED
    BY <1>2, <1>3, <2>2, <2>3, <2>4
<1> QED
  BY <1>4, <1>5, <1>6, <1>8, <1>9, <1>10, <1>11, <1>12, <1>13

LEMMA ToolsWriteInv ==
  ASSUME ToolsSized, ToolsInv, T!Post \/ T!Serve \/ T!Replied
  PROVE  ToolsInv'
<1> USE DEF ToolsSized
<1> DEFINE Posts == [tries : 0 .. MaxPosts, done : 0 .. MaxPosts,
                     at : {"idle", "sent", "served"}, told : {"none", "ok", "offline"}]
<1>1. /\ UNCHANGED <<tool, phase, T!speedVars, world, T!fanVars>> /\ slips' \in 0 .. MaxFaults
  BY DEF ToolsInv, T!TypeOK, T!Fault, T!Post, T!Serve, T!Replied
<1>2. post \in Posts /\ ToolsWritten
  BY DEF ToolsInv, T!TypeOK
<1>3. post' \in Posts /\ ToolsWritten'
  <2>1. CASE T!Post
    <3>1. post' = [post EXCEPT !.tries = @ + 1, !.at = "sent", !.told = "none"]
          /\ post.tries < MaxPosts
      BY <2>1 DEF T!Post
    <3>2. post.tries + 1 \in 0 .. MaxPosts /\ post.done <= post.tries + 1
      BY <1>2, <3>1 DEF ToolsWritten
    <3> QED
      BY <1>2, <3>1, <3>2 DEF ToolsWritten
  <2>2. CASE T!Serve
    <3>1. /\ post.done < post.tries /\ post.tries \in 0 .. MaxPosts /\ post.done \in 0 .. MaxPosts
          /\ post.at \in {"idle", "sent", "served"}
      <4>1. post.done < post.tries
        BY <2>2 DEF T!Serve
      <4> QED
        BY <1>2, <4>1
    <3>2. post.done + 1 \in 0 .. MaxPosts /\ post.done + 1 <= post.tries /\ post.done + 1 > 0
      BY <3>1
    <3>3. CASE post.at = "sent"
      <4>1. post' = [post EXCEPT !.done = @ + 1, !.at = "served"]
        BY <2>2, <3>3 DEF T!Serve
      <4> QED
        BY <1>2, <3>2, <4>1 DEF ToolsWritten
    <3>4. CASE post.at # "sent"
      <4>1. post' = [post EXCEPT !.done = @ + 1]
        BY <1>2, <2>2, <3>4 DEF T!Serve
      <4> QED
        BY <1>2, <3>2, <4>1 DEF ToolsWritten
    <3> QED
      BY <3>3, <3>4
  <2>3. CASE T!Replied
    <3>1. CASE post.at = "served" /\ post' = [post EXCEPT !.at = "idle", !.told = "ok"]
      BY <1>2, <3>1 DEF ToolsWritten
    <3>2. CASE post' = [post EXCEPT !.at = "idle", !.told = "offline"]
      BY <1>2, <3>2 DEF ToolsWritten
    <3> QED
      BY <2>3, <3>1, <3>2 DEF T!Replied
  <2> QED
    BY <2>1, <2>2, <2>3
<1>4. ToolsFanned'
  BY <1>1 DEF ToolsInv, ToolsFanned, ToolsRows, T!fanVars
<1> QED
  BY <1>1, <1>3, <1>4, ToolsOthers DEF ToolsInv, T!TypeOK, T!fanVars

LEMMA ToolsNextInv ==
  ASSUME ToolsSized, ToolsInv, [T!Next]_toolVars
  PROVE  ToolsInv'
<1>1. CASE UNCHANGED toolVars
  BY <1>1 DEF toolVars, T!speedVars, T!fanVars, ToolsInv, T!TypeOK, ToolsCounted,
     ToolsFanned, ToolsRows, ToolsWritten
<1>2. CASE T!Next
  BY <1>2, ToolsSpeedInv, ToolsFanInv, ToolsWriteInv DEF T!Next
<1> QED
  BY <1>1, <1>2

LEMMA ToolsSound == ToolsInv => T!NoneRuns /\ T!ToolsSound
<1>1. ASSUME ToolsInv PROVE T!NoneRuns
  BY <1>1 DEF ToolsInv, ToolsFanned, ToolsRows, T!NoneRuns
<1>2. ASSUME ToolsInv PROVE T!SpeedTrue /\ T!EntryKept /\ T!WriteTrue
  BY <1>2 DEF ToolsInv, ToolsCounted, ToolsWritten, T!SpeedTrue, T!EntryKept, T!WriteTrue
<1> QED
  BY <1>1, <1>2 DEF T!ToolsSound

-----------------------------------------------------------------------------
(* The hub.                                                                 *)

\* The handlers serve one mix; while another part runs, none has run yet.
HubInv ==
    /\ which \in Mix \cup Parts
    /\ JobsInv /\ SettingsInv /\ WatchInv /\ BackupInv /\ PoolInv /\ ToolsInv
    /\ \A mix \in Mix : which \in {mix} \cup Parts => HttpInv(mix)

LEMMA HubInitInv == Init => HubInv
<1> SUFFICES ASSUME Init PROVE HubInv
  OBVIOUS
<1>1. JobsInv /\ SettingsInv /\ WatchInv /\ BackupInv /\ PoolInv /\ ToolsInv
  BY Sizes, JobsInitInv, SettingsInitInv, WatchInitInv, BackupInitInv, PoolInitInv, ToolsInitInv
  DEF Init, SettingsSized
<1>2. \A mix \in Mix : HttpInv(mix)
  BY Sizes, HttpInitInv DEF Init
<1> QED
  BY <1>1, <1>2 DEF Init, HubInv

\* What runs makes a step of its own, and the others make none.
LEMMA HubSteps ==
  ASSUME [Next]_vars
  PROVE  /\ which' = which
         /\ [J!Next]_jobVars /\ [S!Next]_cfgVars /\ [W!Next]_watchVars
         /\ [B!Next]_backupVars /\ [D!Next]_dbVars /\ [T!Next]_toolVars
         /\ \/ UNCHANGED httpVars
            \/ \E mix \in Mix : which = mix /\ H(mix)!Next
<1>1. CASE Jobbing
  BY <1>1 DEF Jobbing
<1>2. CASE Serving
  BY <1>2 DEF Serving
<1>3. CASE Setting
  BY <1>3 DEF Setting
<1>4. CASE Watching
  BY <1>4 DEF Watching
<1>5. CASE BackingUp
  BY <1>5 DEF BackingUp
<1>6. CASE Storing
  BY <1>6 DEF Storing
<1>7. CASE Measuring
  BY <1>7 DEF Measuring
<1>8. CASE UNCHANGED vars
  BY <1>8 DEF vars
<1> QED
  BY <1>1, <1>2, <1>3, <1>4, <1>5, <1>6, <1>7, <1>8 DEF Next

LEMMA HubNextInv == HubInv /\ [Next]_vars => HubInv'
<1> SUFFICES ASSUME HubInv, [Next]_vars PROVE HubInv'
  OBVIOUS
<1>1. JobsInv' /\ WatchInv' /\ BackupInv' /\ PoolInv' /\ ToolsInv'
  BY Sizes, HubSteps, JobsNextInv, WatchNextInv, BackupNextInv, PoolNextInv, ToolsNextInv
  DEF HubInv
<1>2. SettingsInv'
  BY Sizes, HubSteps, SettingsNextInv DEF HubInv, SettingsSized
<1>3. ASSUME NEW mix \in Mix, which' \in {mix} \cup Parts PROVE HttpInv(mix)'
  <2>1. which \in {mix} \cup Parts /\ HttpInv(mix)
    BY <1>3, HubSteps DEF HubInv
  <2>2. [H(mix)!Next]_httpVars
    BY <2>1, HubSteps, Sizes
  <2> QED
    BY <2>1, <2>2, Sizes, HttpNextInv
<1>4. which' \in Mix \cup Parts
  BY HubSteps DEF HubInv
<1> QED
  BY <1>1, <1>2, <1>3, <1>4 DEF HubInv

\* The types of the handlers are the same for all mixes.
LEMMA HttpTypes ==
  ASSUME NEW m \in Mix, NEW n \in Mix, H(m)!TypeOK
  PROVE  H(n)!TypeOK
<1>1. H(m)!Ips = H(n)!Ips /\ H(m)!Statuses = H(n)!Statuses
  BY DEF H!Ips, H!Statuses
<1> QED
  BY <1>1, HttpCount DEF H!TypeOK

LEMMA HubInvTypes == HubInv => TypesOK
<1> SUFFICES ASSUME HubInv PROVE TypesOK
  OBVIOUS
<1>1. J!TypeOK /\ S!TypeOK /\ W!TypeOK /\ B!TypeOK /\ D!TypeOK /\ T!TypeOK
  BY Sizes, JobsSound, SettingsSound, WatchSound, BackupSound, PoolSound DEF HubInv, ToolsInv
<1>2. ASSUME NEW mix \in Mix PROVE H(mix)!TypeOK
  <2>1. CASE which \in Parts
    BY <2>1, Sizes, HttpTyping DEF HubInv
  <2>2. CASE which \in Mix
    <3>1. PICK m \in Mix : which = m
      BY <2>2
    <3>2. H(m)!TypeOK
      BY <3>1, Sizes, HttpTyping DEF HubInv
    <3> QED
      BY <3>2, HttpTypes
  <2> QED
    BY <2>1, <2>2 DEF HubInv
<1> QED
  BY <1>1, <1>2 DEF TypesOK

LEMMA HubInvSafe == HubInv => NothingLeaks /\ Reported /\ StateKept
<1> SUFFICES ASSUME HubInv PROVE NothingLeaks /\ Reported /\ StateKept
  OBVIOUS
<1>1. NothingLeaks
  BY Sizes, JobsSound, PoolSound, ToolsSound DEF HubInv, NothingLeaks
<1>2. ASSUME NEW mix \in Mix, which = mix PROVE H(mix)!AuditTrue
  BY <1>2, HttpTells DEF HubInv
<1>3. Reported
  BY <1>2, Sizes, WatchSound, ToolsSound DEF HubInv, Reported
<1>4. StateKept
  BY Sizes, SettingsSound, BackupSound DEF HubInv, StateKept
<1> QED
  BY <1>1, <1>3, <1>4

\* The variables of every part keep their types, with any number of requests,
\* threads, cycles, runners, tests and hosts: no slot is taken or given back
\* once too often, no count of failed logins passes AUTH_MAX_FAILS by more than
\* the threads that read it (server.py, core/database.py, watchdog.py).
THEOREM TypesHold == Spec => []TypesOK
<1>1. HubInv => TypesOK
  BY HubInvTypes
<1> QED
  BY <1>1, HubInitInv, HubNextInv, PTL DEF Spec

\* However jobs, polls, deadlines and failures interleave, what is taken is
\* given back: job slots and the CVE lock (_job_submit, _job_finish), the
\* connections of the pool (connection, close), the children of a scan.
THEOREM NothingEverLeaks == Spec => []NothingLeaks
<1>1. HubInv => NothingLeaks
  BY HubInvSafe
<1> QED
  BY <1>1, HubInitInv, HubNextInv, PTL DEF Spec

\* The audit names who was permitted and what was answered although the state
\* of a request is kept per thread (do_POST), the watchdog tells what its polls
\* saw, and a speed test reports the bytes that came.
THEOREM ReportsAreTrue == Spec => []Reported
<1>1. HubInv => Reported
  BY HubInvSafe
<1> QED
  BY <1>1, HubInitInv, HubNextInv, PTL DEF Spec

\* Whoever writes, in whatever order and with any crashes, what the settings
\* acknowledged under the lock stays and what they refused has no effect
\* (apply_settings, save_device); however many runs of the backup overlap, the
\* newest bundles stay and only they (backup_run).
THEOREM KeptStateStays == Spec => []StateKept
<1>1. HubInv => StateKept
  BY HubInvSafe
<1> QED
  BY <1>1, HubInitInv, HubNextInv, PTL DEF Spec

=============================================================================
