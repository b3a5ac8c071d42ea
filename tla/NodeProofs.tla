----------------------------- MODULE NodeProofs -----------------------------
(* The invariants of the parts of a node hold for all sizes that the code   *)
(* allows (Sizes).  Each part has an inductive invariant of its own, kept   *)
(* by its steps and disturbed by no other part; the last section puts them  *)
(* together.                                                                *)
EXTENDS Node, SequenceTheorems, TLAPS

-----------------------------------------------------------------------------
(* The updater: what the helper and the node still have to do can be told from*)
(* the files, so that a program to start is there at every step.            *)

\* The process runs from the program that is in place; calls are of a process
\* that is up, and of another version than its own.
UpdateNodeOK == /\ U!Running <=> node.pc # "off"
                /\ node.pc \in {"start", "up"} => exe = node.ver
                /\ node.exiting => node.pc \in {"up", "leaving"}
UpdateJobsOK == \A c \in Callers : job[c].pc # "idle" =>
             node.pc = "up" /\ job[c].v \in U!Versions /\ job[c].v # node.ver

\* The helper works while no process runs, and has a program to go back to.
UpdateHelperOK == /\ helper.mode = "none" <=> helper.pc = "off"
                  /\ helper.mode = "config" => helper.pc \in {"wait", "launch", "watch"}
                  /\ helper.mode # "none" => upd \in U!Versions
                  /\ helper.pc = "wait" => node.exiting \/ ~U!Running
                  /\ helper.pc \in {"move", "copy", "launch", "rollback"} => ~U!Running

\* An update: what is in place is another version until the copy, the one that
\* was in place is kept, and the new one is started once.
UpdateOK ==
    helper.mode = "update" =>
        /\ helper.to \in U!Versions /\ upd # helper.to
        /\ U!Unconfirmed => st.to = helper.to
        /\ helper.pc \in {"wait", "move", "copy", "launch"} => st.attempts = 0
        /\ helper.pc \in {"wait", "move"} => exe \in U!Versions \ {helper.to}
        /\ helper.pc \in {"copy", "launch"} => old \in U!Versions \ {helper.to}
        /\ helper.pc = "copy" => exe = U!None
        /\ node.pc = "start" => helper.pc = "watch" /\ st.attempts = 0
        /\ helper.pc = "watch" /\ ~helper.child => ~U!Running

\* A process that rolls back meets no helper but one that only watches it.
UpdateLeavingOK ==
    /\ node.pc \in {"moved", "leaving"} \/ relaunch =>
         helper.mode = "none" \/ (helper.mode = "config" /\ helper.pc = "watch")
    /\ relaunch => node.pc \in {"leaving", "off"}

UpdateStateOK == /\ U!Unconfirmed => st.to \in U!Versions
                 /\ U!Unconfirmed /\ ~st.rolledBack /\ exe = st.to
                     => old \in U!Versions \ {st.to}

UpdateInv == U!TypeOK /\ UpdateNodeOK /\ UpdateJobsOK /\ UpdateHelperOK /\ UpdateOK
   /\ UpdateLeavingOK /\ UpdateStateOK

UpdateNodes ==
   [ver : U!Versions \cup {U!None}, pc : {"off", "start", "moved", "leaving", "up"},
                confirm : BOOLEAN, exiting : BOOLEAN]
UpdateHelpers == [mode : {"none", "update", "config"},
                  pc : {"off", "wait", "move", "copy", "launch", "watch", "rollback", "confirm"},
                  to : U!Versions \cup {U!None}, child : BOOLEAN]
UpdateJobs ==
   [pc : {"idle", "check", "stage", "install"}, v : U!Versions \cup {U!None}, info : BOOLEAN]

LEMMA UpdateConsts ==
  ASSUME UpdateSized
  PROVE  /\ U!None \notin U!Versions /\ U!Torn \notin U!Versions /\ 1 \in U!Versions
         /\ U!NoState \in U!States /\ U!NodeOff \in UpdateNodes
         /\ U!NoHelper \in UpdateHelpers /\ U!NoJob \in UpdateJobs
         /\ \A v \in U!Versions : U!Booted(v) \in UpdateNodes /\ U!Booted(v).ver = v
             /\ U!Booted(v).pc = "start"
                                /\ ~U!Booted(v).exiting
         /\ U!NodeOff.ver = U!None /\ U!NodeOff.pc = "off" /\ ~U!NodeOff.exiting
         /\ U!NoJob.pc = "idle"
         /\ U!NoHelper.mode = "none" /\ U!NoHelper.pc = "off" /\ ~U!NoState.pending
<1>1. U!None \notin U!Versions /\ U!Torn \notin U!Versions /\ 1 \in U!Versions
  BY DEF UpdateSized, U!Versions, U!None, U!Torn
<1>2. U!NoState \in U!States
  BY DEF U!NoState, U!States, U!MaxAttempts
<1>3. U!NodeOff \in UpdateNodes /\ U!NoHelper \in UpdateHelpers /\ U!NoJob \in UpdateJobs
  BY DEF U!NodeOff, U!NoHelper, U!NoJob, UpdateNodes, UpdateHelpers, UpdateJobs
<1>4. \A v \in U!Versions : U!Booted(v) \in UpdateNodes /\ U!Booted(v).ver = v
         /\ U!Booted(v).pc = "start"
                          /\ ~U!Booted(v).exiting
  BY <1>3 DEF U!Booted, U!NodeOff, UpdateNodes
<1> QED
  BY <1>1, <1>2, <1>3, <1>4 DEF U!NodeOff, U!NoJob, U!NoHelper, U!NoState

LEMMA UpdateTyping ==
  U!TypeOK <=> /\ exe \in U!Images /\ old \in U!Images /\ upd \in U!Images
               /\ staged \in [U!Versions -> {"none", "good", "bad"}]
               /\ st \in U!States /\ known \subseteq U!Versions
               /\ node \in UpdateNodes /\ helper \in UpdateHelpers /\ relaunch \in BOOLEAN
               /\ job \in [Callers -> UpdateJobs] /\ mishaps \in 0 .. Mishaps
  BY DEF U!TypeOK, UpdateNodes, UpdateHelpers, UpdateJobs

LEMMA UpdateTypingNext ==
  U!TypeOK' <=> /\ exe' \in U!Images /\ old' \in U!Images /\ upd' \in U!Images
                /\ staged' \in [U!Versions -> {"none", "good", "bad"}]
                /\ st' \in U!States /\ known' \subseteq U!Versions
                /\ node' \in UpdateNodes /\ helper' \in UpdateHelpers
                /\ relaunch' \in BOOLEAN
                /\ job' \in [Callers -> UpdateJobs] /\ mishaps' \in 0 .. Mishaps
  BY DEF U!TypeOK, UpdateNodes, UpdateHelpers, UpdateJobs

LEMMA UpdateInitInv == ASSUME UpdateSized, U!Init PROVE UpdateInv
<1>1. U!TypeOK
  <2>1. exe \in U!Images /\ old \in U!Images /\ upd \in U!Images
    BY UpdateConsts DEF U!Init, U!Images
  <2>2. job \in [Callers -> UpdateJobs]
           /\ staged \in [U!Versions -> {"none", "good", "bad"}]
    BY UpdateConsts DEF U!Init
  <2>3. st \in U!States /\ node \in UpdateNodes /\ helper \in UpdateHelpers
           /\ known \subseteq U!Versions
    BY UpdateConsts DEF U!Init
  <2>4. relaunch \in BOOLEAN
    BY Zenon DEF U!Init
  <2>5. mishaps \in 0 .. Mishaps
    BY DEF U!Init, UpdateSized
  <2> QED
    BY <2>1, <2>2, <2>3, <2>4, <2>5, UpdateTyping
<1>2. UpdateNodeOK /\ UpdateJobsOK
  BY UpdateConsts DEF U!Init, UpdateNodeOK, UpdateJobsOK, U!Running
<1>3. UpdateHelperOK /\ UpdateOK /\ UpdateLeavingOK
  BY UpdateConsts DEF U!Init, UpdateHelperOK, UpdateOK, UpdateLeavingOK
<1>4. UpdateStateOK
  BY UpdateConsts DEF U!Init, UpdateStateOK, U!Unconfirmed
<1> QED
  BY <1>1, <1>2, <1>3, <1>4 DEF UpdateInv

LEMMA UpdateFaultFact ==
  ASSUME UpdateSized, U!TypeOK, U!Fault \/ UNCHANGED mishaps
  PROVE  mishaps' \in 0 .. Mishaps
  BY UpdateTyping DEF U!Fault, UpdateSized

-----------------------------------------------------------------------------

\* A process that ends leaves the files as they are.
LEMMA UpdateDeadInv ==
  ASSUME UpdateSized, UpdateInv, U!Dead, U!Fault \/ UNCHANGED mishaps,
         UNCHANGED <<exe, old, upd, staged, st, relaunch>>
  PROVE  UpdateInv'
<1> USE DEF UpdateInv, U!Dead
<1>1. /\ node' = U!NodeOff /\ known' = {} /\ job' = [c \in Callers |-> U!NoJob]
      /\ helper' \in UpdateHelpers /\ helper'.mode = helper.mode /\ helper'.pc = helper.pc
      /\ helper'.to = helper.to /\ helper'.child = FALSE
  BY UpdateTyping DEF UpdateHelpers
<1>2. U!TypeOK'
  BY <1>1, UpdateConsts, UpdateFaultFact, UpdateTyping, UpdateTypingNext
<1>3. UpdateNodeOK' /\ UpdateJobsOK' /\ UpdateStateOK'
  BY <1>1, UpdateConsts DEF UpdateNodeOK, UpdateJobsOK, UpdateStateOK, U!Running,
     U!Unconfirmed
<1>4. UpdateHelperOK' /\ UpdateOK' /\ UpdateLeavingOK'
  BY <1>1, UpdateConsts DEF UpdateHelperOK, UpdateOK, UpdateLeavingOK, U!Running,
     U!Unconfirmed
<1> QED
  BY <1>2, <1>3, <1>4

\* A program that starts runs from what is in place.
LEMMA UpdateBootInv ==
  ASSUME UpdateSized, UpdateInv, node' = U!Booted(exe), exe \in U!Versions, ~U!Running,
         helper.mode = "none" \/ (helper.mode = "config" /\ helper.pc = "watch"),
         relaunch' = FALSE, UNCHANGED <<exe, old, upd, staged, st, known, helper, job, mishaps>>
  PROVE  UpdateInv'
<1> USE DEF UpdateInv
<1>1. U!TypeOK'
  BY UpdateConsts, UpdateTyping, UpdateTypingNext
<1>2. UpdateNodeOK' /\ UpdateJobsOK'
  BY UpdateConsts DEF UpdateNodeOK, UpdateJobsOK, U!Running
<1>3. UpdateHelperOK' /\ UpdateOK' /\ UpdateLeavingOK' /\ UpdateStateOK'
  BY UpdateConsts DEF UpdateHelperOK, UpdateOK, UpdateLeavingOK, UpdateStateOK, U!Running,
     U!Unconfirmed
<1> QED
  BY <1>1, <1>2, <1>3

LEMMA UpdateOperatorStartInv ==
  ASSUME UpdateSized, UpdateInv, U!OperatorStart
  PROVE  UpdateInv'
<1>1. relaunch' = FALSE
  BY UpdateTyping DEF U!OperatorStart, UpdateInv
<1> QED
  BY <1>1, UpdateBootInv DEF U!OperatorStart, U!files, U!Bootable

LEMMA UpdateRelaunchInv == ASSUME UpdateSized, UpdateInv, U!Relaunch PROVE UpdateInv'
<1>1. CASE ~U!Running /\ U!Bootable
  BY <1>1, UpdateBootInv DEF U!Relaunch, U!files, U!Bootable, UpdateInv, UpdateLeavingOK
<1>2. CASE ~(~U!Running /\ U!Bootable)
  <2>1. UNCHANGED <<exe, old, upd, staged, st, known, node, helper, job, mishaps>>
           /\ relaunch' = FALSE
    BY <1>2 DEF U!Relaunch, U!files
  <2>2. U!TypeOK'
    BY <2>1, UpdateTyping, UpdateTypingNext DEF UpdateInv
  <2> QED
    BY <2>1, <2>2 DEF UpdateInv, UpdateNodeOK, UpdateJobsOK, UpdateHelperOK, UpdateOK,
       UpdateLeavingOK, UpdateStateOK, U!Running, U!Unconfirmed
<1> QED
  BY <1>1, <1>2

\* The process goes on: what it makes of itself, of the state and of the program.
LEMMA UpdateStartInv ==
  ASSUME UpdateSized, UpdateInv, U!StartPlain \/ U!StartConfirm \/ U!StartNoOld
  PROVE  UpdateInv'
<1> USE DEF UpdateInv
<1>1. /\ UNCHANGED <<exe, old, upd, staged, known, helper, relaunch, job>>
      /\ node.pc = "start"
      /\ U!Fault \/ UNCHANGED mishaps
  BY DEF U!StartPlain, U!StartConfirm, U!StartNoOld, U!files
<1>2. node' \in UpdateNodes /\ node'.pc = "up" /\ node'.ver = node.ver /\ ~node'.exiting
  BY <1>1, UpdateTyping DEF U!StartPlain, U!StartConfirm, U!StartNoOld, UpdateNodes,
     UpdateNodeOK
<1>3. /\ st' \in U!States /\ st'.to = st.to /\ st'.pending = st.pending
      /\ st'.bootOk = st.bootOk
      /\ st'.rolledBack = st.rolledBack \/ st'.rolledBack
  <2>1. CASE U!StartPlain
    BY <2>1, UpdateTyping DEF U!StartPlain
  <2>2. CASE U!StartConfirm
    <3>1. st.attempts + 1 \in 0 .. U!MaxAttempts + 1
      BY <2>2, UpdateTyping DEF U!StartConfirm, U!States, U!MaxAttempts
    <3>2. st' = [st EXCEPT !.attempts = st.attempts + 1]
      BY <2>2 DEF U!StartConfirm
    <3> QED
      BY <3>1, <3>2, UpdateTyping DEF U!States
  <2>3. CASE U!StartNoOld
    <3>1. U!MaxAttempts + 1 \in 0 .. U!MaxAttempts + 1
      BY DEF U!MaxAttempts
    <3>2. CASE st' = [st EXCEPT !.attempts = U!MaxAttempts + 1, !.rolledBack = TRUE]
      <4>1. [st EXCEPT !.attempts = U!MaxAttempts + 1] \in U!States
        BY <3>1, UpdateTyping DEF U!States
      <4> QED
        BY <3>2, <4>1, UpdateTyping DEF U!States
    <3>3. CASE st' = [st EXCEPT !.attempts = U!MaxAttempts + 1]
      BY <3>1, <3>3, UpdateTyping DEF U!States
    <3> QED
      BY <2>3, <3>2, <3>3 DEF U!StartNoOld
  <2> QED
    BY <2>1, <2>2, <2>3
<1>4. U!TypeOK'
  BY <1>1, <1>2, <1>3, UpdateFaultFact, UpdateTyping, UpdateTypingNext
<1>5. UpdateNodeOK' /\ UpdateJobsOK' /\ UpdateStateOK'
  BY <1>1, <1>2, <1>3 DEF UpdateNodeOK, UpdateJobsOK, UpdateStateOK, U!Running,
     U!Unconfirmed
<1>6. UpdateHelperOK' /\ UpdateLeavingOK'
  BY <1>1, <1>2 DEF UpdateHelperOK, UpdateLeavingOK, UpdateNodeOK, U!Running
<1>7. UpdateOK'
  BY <1>1, <1>2, <1>3 DEF UpdateOK, U!Running, U!Unconfirmed
<1> QED
  BY <1>4, <1>5, <1>6, <1>7

\* An update that is watched starts its version for the first time.
LEMMA UpdateRollbackMoveInv ==
  ASSUME UpdateSized, UpdateInv, U!RollbackMove
  PROVE  UpdateInv'
<1> USE DEF UpdateInv
<1>1. /\ UNCHANGED <<old, upd, staged, known, helper, relaunch, job, mishaps>>
      /\ exe' = U!None
      /\ node.pc = "start" /\ st.attempts >= U!MaxAttempts
      /\ st' = [st EXCEPT !.attempts = U!MaxAttempts + 1]
      /\ node' = [node EXCEPT !.pc = "moved"] /\ U!Unconfirmed
  BY DEF U!RollbackMove
<1>2. node' \in UpdateNodes /\ node'.pc = "moved" /\ node'.ver = node.ver /\ ~node'.exiting
  BY <1>1, UpdateTyping DEF UpdateNodes, UpdateNodeOK
<1>3. st' \in U!States /\ st'.to = st.to /\ st'.pending = st.pending
         /\ st'.bootOk = st.bootOk
  BY <1>1, UpdateTyping DEF U!States, U!MaxAttempts
<1>4. U!TypeOK'
  BY <1>1, <1>2, <1>3, UpdateTyping, UpdateTypingNext DEF U!Images
<1>5. UpdateNodeOK' /\ UpdateJobsOK' /\ UpdateStateOK'
  BY <1>1, <1>2, <1>3, UpdateConsts DEF UpdateNodeOK, UpdateJobsOK, UpdateStateOK,
     U!Running, U!Unconfirmed
<1>6. helper.mode # "update"
  BY <1>1 DEF UpdateOK, U!MaxAttempts
<1>7. helper.mode = "none" \/ (helper.mode = "config" /\ helper.pc = "watch")
  BY <1>1, <1>6, UpdateTyping DEF UpdateHelperOK, UpdateNodeOK, UpdateHelpers
<1>8. UpdateHelperOK' /\ UpdateLeavingOK' /\ UpdateOK'
  BY <1>1, <1>2, <1>6, <1>7 DEF UpdateHelperOK, UpdateLeavingOK, UpdateOK, U!Running
<1> QED
  BY <1>4, <1>5, <1>8

LEMMA UpdateRollbackCopyInv ==
  ASSUME UpdateSized, UpdateInv, U!RollbackCopy
  PROVE  UpdateInv'
<1> USE DEF UpdateInv
<1>1. /\ UNCHANGED <<old, upd, staged, known, helper, job, mishaps>> /\ exe' = old
      /\ relaunch' = TRUE
      /\ node.pc = "moved" /\ st' = [st EXCEPT !.rolledBack = TRUE]
      /\ node' = [node EXCEPT !.pc = "leaving", !.exiting = TRUE]
  BY DEF U!RollbackCopy
<1>2. node' \in UpdateNodes /\ node'.pc = "leaving" /\ node'.ver = node.ver /\ node'.exiting
  BY <1>1, UpdateTyping DEF UpdateNodes
<1>3. /\ st' \in U!States /\ st'.to = st.to /\ st'.pending = st.pending
      /\ st'.bootOk = st.bootOk
      /\ st'.rolledBack
  BY <1>1, UpdateTyping DEF U!States
<1>4. U!TypeOK'
  BY <1>1, <1>2, <1>3, UpdateTyping, UpdateTypingNext
<1>5. UpdateNodeOK' /\ UpdateJobsOK' /\ UpdateStateOK'
  BY <1>1, <1>2, <1>3 DEF UpdateNodeOK, UpdateJobsOK, UpdateStateOK, U!Running,
     U!Unconfirmed
<1>6. helper.mode = "none" \/ (helper.mode = "config" /\ helper.pc = "watch")
  BY <1>1 DEF UpdateLeavingOK
<1>7. UpdateHelperOK' /\ UpdateLeavingOK' /\ UpdateOK'
  BY <1>1, <1>2, <1>6 DEF UpdateHelperOK, UpdateLeavingOK, UpdateOK, U!Running
<1> QED
  BY <1>4, <1>5, <1>7

LEMMA UpdateConfirmInv == ASSUME UpdateSized, UpdateInv, U!Confirm PROVE UpdateInv'
<1> USE DEF UpdateInv
<1>1. /\ UNCHANGED <<exe, old, upd, staged, known, helper, relaunch, job, mishaps>>
      /\ node.pc = "up" /\ node' = [node EXCEPT !.confirm = FALSE]
      /\ st' = IF U!Unconfirmed THEN [st EXCEPT !.bootOk = TRUE] ELSE st
  BY DEF U!Confirm, U!files
<1>2. node' \in UpdateNodes /\ node'.pc = node.pc /\ node'.ver = node.ver
         /\ node'.exiting = node.exiting
  BY <1>1, UpdateTyping DEF UpdateNodes
<1>3. /\ st' \in U!States /\ st'.to = st.to /\ ~(st'.pending /\ ~st'.bootOk)
      /\ st'.attempts = st.attempts
  BY <1>1, UpdateTyping DEF U!States, U!Unconfirmed
<1>4. U!TypeOK'
  BY <1>1, <1>2, <1>3, UpdateTyping, UpdateTypingNext
<1> QED
  BY <1>1, <1>2, <1>3, <1>4
  DEF UpdateNodeOK, UpdateJobsOK, UpdateStateOK, UpdateHelperOK, UpdateLeavingOK, UpdateOK,
     U!Running, U!Unconfirmed

LEMMA UpdateClearStateInv == ASSUME UpdateSized, UpdateInv, U!ClearState PROVE UpdateInv'
<1> USE DEF UpdateInv
<1>1. /\ UNCHANGED <<exe, old, upd, staged, known, node, helper, relaunch, job, mishaps>>
      /\ st' = U!NoState /\ U!NoState.attempts = 0
  BY DEF U!ClearState, U!files, U!NoState
<1>2. U!TypeOK'
  BY <1>1, UpdateConsts, UpdateTyping, UpdateTypingNext
<1> QED
  BY <1>1, <1>2, UpdateConsts
  DEF UpdateNodeOK, UpdateJobsOK, UpdateStateOK, UpdateHelperOK, UpdateLeavingOK, UpdateOK,
     U!Running, U!Unconfirmed

-----------------------------------------------------------------------------

\* The calls, up to the installation.
LEMMA UpdateCallsInv ==
  ASSUME UpdateSized, UpdateInv,
         UNCHANGED <<exe, old, upd, st, node, helper, relaunch, mishaps>>,
         staged' \in [U!Versions -> {"none", "good", "bad"}], known' \subseteq U!Versions,
         job' \in [Callers -> UpdateJobs], UpdateJobsOK'
  PROVE  UpdateInv'
<1>1. U!TypeOK'
  BY UpdateTyping, UpdateTypingNext DEF UpdateInv
<1> QED
  BY <1>1 DEF UpdateInv, UpdateNodeOK, UpdateStateOK, UpdateHelperOK, UpdateLeavingOK,
     UpdateOK, U!Running, U!Unconfirmed

LEMMA UpdateApplyBeginInv ==
  ASSUME UpdateSized, UpdateInv, NEW c \in Callers, NEW v \in U!Versions,
         NEW force \in BOOLEAN,
         U!ApplyBegin(c, v, force)
  PROVE  UpdateInv'
<1>1. /\ UNCHANGED <<exe, old, upd, staged, st, known, node, helper, relaunch, mishaps>>
      /\ node.pc = "up" /\ v # node.ver
      /\ job' = [job EXCEPT ![c] = [pc |-> IF v \in known THEN "stage" ELSE "check",
                                    v |-> v, info |-> v \in known]]
  BY DEF U!ApplyBegin, U!Allowed, U!files
<1>2. [pc |-> IF v \in known THEN "stage" ELSE "check", v |-> v, info |-> v \in known] \in UpdateJobs
  BY DEF UpdateJobs
<1>3. job' \in [Callers -> UpdateJobs] /\ UpdateJobsOK'
  BY <1>1, <1>2, UpdateTyping DEF UpdateInv, UpdateJobsOK
<1> QED
  BY <1>1, <1>3, UpdateTyping, UpdateCallsInv DEF UpdateInv

LEMMA UpdateJobSteps ==
  ASSUME UpdateSized, UpdateInv, NEW c \in Callers, job[c].pc # "idle", UNCHANGED node,
         \/ job' = [job EXCEPT ![c] = U!NoJob]
         \/ \E pc \in {"check", "stage", "install"} : job' = [job EXCEPT ![c].pc = pc]
  PROVE  job' \in [Callers -> UpdateJobs] /\ UpdateJobsOK'
<1>1. CASE job' = [job EXCEPT ![c] = U!NoJob]
  BY <1>1, UpdateConsts, UpdateTyping DEF UpdateInv, UpdateJobsOK
<1>2. ASSUME NEW pc \in {"check", "stage", "install"}, job' = [job EXCEPT ![c].pc = pc]
      PROVE  job' \in [Callers -> UpdateJobs] /\ UpdateJobsOK'
  BY <1>2, UpdateTyping DEF UpdateInv, UpdateJobsOK, UpdateJobs
<1> QED
  BY <1>1, <1>2

LEMMA UpdateApplyCheckInv ==
  ASSUME UpdateSized, UpdateInv, NEW c \in Callers, U!ApplyCheck(c)
  PROVE  UpdateInv'
<1>1. /\ UNCHANGED <<exe, old, upd, staged, st, node, helper, relaunch, mishaps>>
      /\ UNCHANGED node
      /\ job[c].pc # "idle" /\ known' \in {known, U!Versions}
      /\ \/ job' = [job EXCEPT ![c] = U!NoJob]
         \/ \E pc \in {"check", "stage", "install"} : job' = [job EXCEPT ![c].pc = pc]
  BY DEF U!ApplyCheck, U!files
<1>2. job' \in [Callers -> UpdateJobs] /\ UpdateJobsOK'
  BY <1>1, UpdateJobSteps
<1> QED
  BY <1>1, <1>2, UpdateTyping, UpdateCallsInv DEF UpdateInv

LEMMA UpdateApplyDownloadInv ==
  ASSUME UpdateSized, UpdateInv, NEW c \in Callers, U!ApplyDownload(c)
  PROVE  UpdateInv'
<1>1. /\ UNCHANGED <<exe, old, upd, st, node, helper, relaunch, mishaps>> /\ UNCHANGED node
      /\ job[c].pc # "idle" /\ known' = U!Versions
      /\ \/ job' = [job EXCEPT ![c] = U!NoJob]
         \/ \E pc \in {"check", "stage", "install"} : job' = [job EXCEPT ![c].pc = pc]
      /\ \/ staged' = staged
         \/ \E k \in {"bad", "good"} : staged' = [staged EXCEPT ![job[c].v] = k]
  BY DEF U!ApplyDownload
<1>2. job' \in [Callers -> UpdateJobs] /\ UpdateJobsOK'
  BY <1>1, UpdateJobSteps
<1>3. staged' \in [U!Versions -> {"none", "good", "bad"}]
  BY <1>1, UpdateTyping DEF UpdateInv
<1> QED
  BY <1>1, <1>2, <1>3, UpdateCallsInv

LEMMA UpdateApplyInstallInv ==
  ASSUME UpdateSized, UpdateInv, NEW c \in Callers, U!ApplyInstall(c)
  PROVE  UpdateInv'
<1> USE DEF UpdateInv
<1>1. /\ UNCHANGED <<exe, old, staged, known, relaunch>> /\ job[c].pc # "idle"
      /\ job' = [job EXCEPT ![c] = U!NoJob]
      /\ U!Fault \/ UNCHANGED mishaps
  BY DEF U!ApplyInstall
<1>2. /\ node.pc = "up" /\ job[c].v \in U!Versions /\ job[c].v # node.ver /\ exe = node.ver
      /\ exe \in U!Versions /\ relaunch = FALSE
  BY <1>1, UpdateTyping DEF UpdateJobsOK, UpdateNodeOK, UpdateLeavingOK, U!Running,
     UpdateNodes, U!Images
<1>3. job' \in [Callers -> UpdateJobs]
  BY <1>1, UpdateConsts, UpdateTyping
<1>4. CASE helper.mode # "none" \/ (UNCHANGED <<upd, st, helper, node>>
         /\ UNCHANGED mishaps)
  <2>1. UNCHANGED <<upd, st, helper, node, mishaps>>
    BY <1>4 DEF U!ApplyInstall
  <2>2. UpdateJobsOK'
    BY <1>1, <2>1, UpdateJobSteps
  <2> QED
    BY <1>1, <1>3, <2>1, <2>2, UpdateTyping, UpdateCallsInv
<1>5. CASE /\ helper.mode = "none"
           /\ st' = [U!NoState EXCEPT !.to = job[c].v, !.from = node.ver, !.pending = TRUE]
  <2>1. /\ st' \in U!States /\ st'.to = job[c].v /\ st'.pending /\ ~st'.bootOk
        /\ st'.attempts = 0
    <3>1. U!NoState \in U!States /\ ~U!NoState.bootOk /\ U!NoState.attempts = 0
      BY DEF U!NoState, U!States, U!MaxAttempts
    <3>2. job[c].v \in U!Versions \cup {U!None} /\ node.ver \in U!Versions \cup {U!None}
      BY <1>2, UpdateTyping DEF UpdateNodes
    <3>3. [U!NoState EXCEPT !.to = job[c].v] \in U!States
      BY <3>1, <3>2 DEF U!States
    <3>4. [U!NoState EXCEPT !.to = job[c].v, !.from = node.ver] \in U!States
      BY <3>2, <3>3 DEF U!States
    <3> QED
      BY <1>5, <3>1, <3>4 DEF U!States
  <2>2. UpdateStateOK'
    BY <1>1, <1>2, <2>1 DEF UpdateStateOK, U!Unconfirmed
  <2>3. CASE /\ helper' = [U!NoHelper EXCEPT !.mode = "update", !.pc = "wait", !.to = job[c].v]
             /\ node' = [node EXCEPT !.exiting = TRUE] /\ UNCHANGED mishaps /\ upd' = exe
    <3>1. /\ helper' \in UpdateHelpers /\ helper'.mode = "update" /\ helper'.pc = "wait"
          /\ helper'.to = job[c].v
      BY <1>2, <2>3 DEF U!NoHelper, UpdateHelpers
    <3>2. node' \in UpdateNodes /\ node'.pc = "up" /\ node'.ver = node.ver /\ node'.exiting
      BY <1>2, <2>3, UpdateTyping DEF UpdateNodes
    <3>3. U!TypeOK'
      BY <1>1, <1>3, <2>1, <2>3, <3>1, <3>2, UpdateTyping, UpdateTypingNext
    <3>4. UpdateNodeOK' /\ UpdateJobsOK'
      BY <1>1, <1>2, <3>2, UpdateConsts, UpdateTyping DEF UpdateNodeOK, UpdateJobsOK,
         U!Running
    <3>5. UpdateHelperOK' /\ UpdateLeavingOK'
      BY <1>1, <1>2, <2>3, <3>1, <3>2 DEF UpdateHelperOK, UpdateLeavingOK, U!Running
    <3>6. UpdateOK'
      BY <1>1, <1>2, <2>1, <2>3, <3>1, <3>2 DEF UpdateOK, U!Unconfirmed
    <3> QED
      BY <2>2, <3>3, <3>4, <3>5, <3>6
  <2>4. CASE U!Fault /\ upd' = U!None /\ UNCHANGED <<helper, node>>
    <3>1. U!TypeOK'
      BY <1>1, <1>3, <2>1, <2>4, UpdateFaultFact, UpdateTyping, UpdateTypingNext
         DEF U!Images
    <3>2. UpdateNodeOK' /\ UpdateJobsOK'
      BY <1>1, <2>4, UpdateConsts, UpdateTyping DEF UpdateNodeOK, UpdateJobsOK, U!Running
    <3>3. UpdateHelperOK' /\ UpdateLeavingOK' /\ UpdateOK'
      BY <1>1, <1>5, <2>4 DEF UpdateHelperOK, UpdateLeavingOK, UpdateOK, U!Running
    <3> QED
      BY <2>2, <3>1, <3>2, <3>3
  <2> QED
    BY <1>5, <2>3, <2>4, <1>4 DEF U!ApplyInstall
<1> QED
  BY <1>4, <1>5 DEF U!ApplyInstall

LEMMA UpdateConfigRestartInv ==
  ASSUME UpdateSized, UpdateInv, U!ConfigRestart
  PROVE  UpdateInv'
<1> USE DEF UpdateInv
<1>1. /\ UNCHANGED <<exe, old, staged, st, known, relaunch, job, mishaps>> /\ node.pc = "up"
      /\ upd' = exe /\ helper.mode = "none"
      /\ helper' = [U!NoHelper EXCEPT !.mode = "config", !.pc = "wait"]
      /\ node' = [node EXCEPT !.exiting = TRUE]
  BY DEF U!ConfigRestart
<1>2. helper' \in UpdateHelpers /\ helper'.mode = "config" /\ helper'.pc = "wait"
  BY <1>1 DEF U!NoHelper, UpdateHelpers
<1>3. node' \in UpdateNodes /\ node'.pc = "up" /\ node'.ver = node.ver /\ node'.exiting
  BY <1>1, UpdateTyping DEF UpdateNodes
<1>4. exe = node.ver /\ exe \in U!Versions /\ relaunch = FALSE
  BY <1>1, UpdateTyping DEF UpdateNodeOK, UpdateLeavingOK, U!Running, UpdateNodes
<1>5. U!TypeOK'
  BY <1>1, <1>2, <1>3, UpdateTyping, UpdateTypingNext
<1>6. UpdateNodeOK' /\ UpdateJobsOK' /\ UpdateStateOK'
  BY <1>1, <1>3 DEF UpdateNodeOK, UpdateJobsOK, UpdateStateOK, U!Running, U!Unconfirmed
<1>7. UpdateHelperOK' /\ UpdateLeavingOK' /\ UpdateOK'
  BY <1>1, <1>2, <1>3, <1>4 DEF UpdateHelperOK, UpdateLeavingOK, UpdateOK, U!Running
<1> QED
  BY <1>5, <1>6, <1>7

-----------------------------------------------------------------------------

\* A step of the helper to another place, or its end.
LEMMA UpdateGoFact ==
  ASSUME UpdateSized, U!TypeOK,
         NEW pc \in {"move", "copy", "launch", "watch", "rollback", "confirm"}, U!HGo(pc)
  PROVE  /\ helper' \in UpdateHelpers /\ helper'.pc = pc /\ helper'.mode = helper.mode
         /\ helper'.to = helper.to /\ helper'.child = helper.child
  BY UpdateTyping DEF U!HGo, UpdateHelpers

\* The helper ends, and files may have changed that nobody needs.
LEMMA UpdateEndInv ==
  ASSUME UpdateSized, UpdateInv, U!HEnd, UNCHANGED <<staged, known, node, relaunch, job>>,
         U!Fault \/ UNCHANGED mishaps, exe' \in U!Images, old' \in U!Images, upd' \in U!Images,
         st' \in U!States, node.pc \in {"start", "up"} => exe' = exe, UpdateStateOK'
  PROVE  UpdateInv'
<1> USE DEF UpdateInv, U!HEnd
<1>1. U!TypeOK'
  BY UpdateConsts, UpdateFaultFact, UpdateTyping, UpdateTypingNext
<1>2. UpdateNodeOK' /\ UpdateJobsOK'
  BY DEF UpdateNodeOK, UpdateJobsOK, U!Running
<1>3. UpdateHelperOK' /\ UpdateLeavingOK' /\ UpdateOK'
  BY UpdateConsts DEF UpdateHelperOK, UpdateLeavingOK, UpdateOK
<1> QED
  BY <1>1, <1>2, <1>3

LEMMA UpdateHWaitInv == ASSUME UpdateSized, UpdateInv, U!HWait PROVE UpdateInv'
<1> USE DEF UpdateInv
<1>1. UNCHANGED <<exe, old, upd, staged, st, known, node, relaunch, job, mishaps>>
         /\ helper.pc = "wait" /\ ~node.exiting
  BY DEF U!HWait, U!HAt, U!files
<1>2. /\ helper' \in UpdateHelpers /\ helper'.mode = helper.mode /\ helper'.to = helper.to
      /\ helper'.pc = IF helper.mode = "update" THEN "move" ELSE "launch"
  BY UpdateGoFact DEF U!HWait
<1>3. U!TypeOK' /\ UpdateNodeOK' /\ UpdateJobsOK' /\ UpdateStateOK'
  BY <1>1, <1>2, UpdateTyping, UpdateTypingNext DEF UpdateNodeOK, UpdateJobsOK,
     UpdateStateOK, U!Running, U!Unconfirmed
<1>4. UpdateHelperOK' /\ UpdateLeavingOK' /\ UpdateOK'
  BY <1>1, <1>2 DEF UpdateHelperOK, UpdateLeavingOK, UpdateOK, U!Running, U!Unconfirmed
<1> QED
  BY <1>3, <1>4

\* At the places of an update the helper is one.
LEMMA UpdateUpdatePlace ==
  ASSUME UpdateInv, helper.pc \in {"move", "copy", "rollback", "confirm"}
  PROVE  helper.mode = "update"
  BY UpdateTyping DEF UpdateInv, UpdateHelperOK, UpdateHelpers

LEMMA UpdateHMoveInv == ASSUME UpdateSized, UpdateInv, U!HMove PROVE UpdateInv'
<1> USE DEF UpdateInv
<1>1. /\ UNCHANGED <<upd, st, node, staged, known, relaunch, job>> /\ helper.pc = "move"
      /\ helper.mode = "update" /\ ~U!Running /\ exe \in U!Versions \ {helper.to}
      /\ node.pc = "off" /\ exe \in U!Images /\ old \in U!Images /\ upd \in U!Images
      /\ st \in U!States
  BY UpdateUpdatePlace, UpdateTyping DEF U!HMove, U!HAt, U!keep, UpdateHelperOK, UpdateOK,
     UpdateNodeOK
<1>2. CASE old' = exe /\ exe' = U!None /\ U!HGo("copy") /\ UNCHANGED mishaps
  <2>1. /\ helper' \in UpdateHelpers /\ helper'.pc = "copy" /\ helper'.mode = helper.mode
        /\ helper'.to = helper.to
    BY <1>2, UpdateGoFact
  <2>2. U!TypeOK'
    BY <1>1, <1>2, <2>1, UpdateTyping, UpdateTypingNext DEF U!Images
  <2>3. UpdateNodeOK' /\ UpdateJobsOK' /\ UpdateStateOK'
    BY <1>1, <1>2, UpdateConsts DEF UpdateNodeOK, UpdateJobsOK, UpdateStateOK, U!Running,
       U!Unconfirmed
  <2>4. UpdateHelperOK' /\ UpdateLeavingOK' /\ UpdateOK'
    BY <1>1, <1>2, <2>1 DEF UpdateHelperOK, UpdateLeavingOK, UpdateOK, U!Running,
       U!Unconfirmed
  <2> QED
    BY <2>2, <2>3, <2>4
<1>3. CASE U!HEnd /\ UNCHANGED <<exe, old, mishaps>>
  <2>1. UpdateStateOK'
    BY <1>1, <1>3 DEF UpdateStateOK, U!Unconfirmed
  <2> QED
    BY <1>1, <1>3, <2>1, UpdateEndInv
<1>4. CASE U!Fault /\ old' = U!None /\ U!HEnd /\ UNCHANGED exe
  <2>1. UpdateStateOK'
    BY <1>1, <1>4 DEF UpdateStateOK, U!Unconfirmed, UpdateOK
  <2>2. old' \in U!Images
    BY <1>4 DEF U!Images
  <2> QED
    BY <1>1, <1>4, <2>1, <2>2, UpdateEndInv
<1> QED
  BY <1>2, <1>3, <1>4 DEF U!HMove

LEMMA UpdateHCopyInv == ASSUME UpdateSized, UpdateInv, U!HCopy PROVE UpdateInv'
<1> USE DEF UpdateInv
<1>1. /\ UNCHANGED <<upd, st, node, staged, known, relaunch, job>> /\ helper.pc = "copy"
      /\ helper.mode = "update" /\ ~U!Running /\ old \in U!Versions \ {helper.to}
      /\ helper.to \in U!Versions /\ node.pc = "off"
      /\ exe \in U!Images /\ old \in U!Images /\ upd \in U!Images /\ st \in U!States
  BY UpdateUpdatePlace, UpdateTyping DEF U!HCopy, U!HAt, U!keep, UpdateHelperOK, UpdateOK,
     UpdateNodeOK
<1>2. CASE exe' \in {helper.to, U!Torn} /\ U!HGo("launch") /\ UNCHANGED <<old, mishaps>>
  <2>1. /\ helper' \in UpdateHelpers /\ helper'.pc = "launch" /\ helper'.mode = helper.mode
        /\ helper'.to = helper.to
    BY <1>2, UpdateGoFact
  <2>2. U!TypeOK'
    BY <1>1, <1>2, <2>1, UpdateTyping, UpdateTypingNext DEF U!Images
  <2>3. UpdateNodeOK' /\ UpdateJobsOK'
    BY <1>1 DEF UpdateNodeOK, UpdateJobsOK, U!Running
  <2>4. UpdateStateOK'
    BY <1>1, <1>2 DEF UpdateStateOK, U!Unconfirmed, UpdateOK
  <2>5. UpdateHelperOK' /\ UpdateLeavingOK' /\ UpdateOK'
    BY <1>1, <1>2, <2>1 DEF UpdateHelperOK, UpdateLeavingOK, UpdateOK, U!Running,
       U!Unconfirmed
  <2> QED
    BY <2>2, <2>3, <2>4, <2>5
<1>3. CASE U!Fault /\ exe' = old /\ old' = U!None /\ U!HEnd
  <2>1. UpdateStateOK'
    BY <1>1, <1>3 DEF UpdateStateOK, U!Unconfirmed, UpdateOK
  <2>2. old' \in U!Images
    BY <1>3 DEF U!Images
  <2> QED
    BY <1>1, <1>3, <2>1, <2>2, UpdateEndInv
<1>4. CASE U!Fault /\ exe' = U!Torn /\ U!HEnd /\ UNCHANGED old
  <2>1. UpdateStateOK'
    BY <1>1, <1>4, UpdateConsts DEF UpdateStateOK, U!Unconfirmed, UpdateOK
  <2>2. exe' \in U!Images
    BY <1>4 DEF U!Images
  <2> QED
    BY <1>1, <1>4, <2>1, <2>2, UpdateEndInv
<1> QED
  BY <1>2, <1>3, <1>4 DEF U!HCopy

LEMMA UpdateHLaunchInv == ASSUME UpdateSized, UpdateInv, U!HLaunch PROVE UpdateInv'
<1> USE DEF UpdateInv
<1>1. /\ UNCHANGED <<exe, old, upd, staged, st, known, relaunch, job, mishaps>>
      /\ helper.pc = "launch"
      /\ ~U!Running /\ node.pc = "off" /\ relaunch = FALSE /\ helper.mode # "none"
  BY UpdateTyping DEF U!HLaunch, U!HAt, U!files, UpdateHelperOK, UpdateNodeOK,
     UpdateLeavingOK
<1>2. CASE U!Bootable
  <2>1. helper' = [helper EXCEPT !.pc = "watch", !.child = ~U!Running]
           /\ node' = U!Booted(exe)
    BY <1>1, <1>2 DEF U!HLaunch
  <2>2. /\ helper' \in UpdateHelpers /\ helper'.pc = "watch" /\ helper'.mode = helper.mode
        /\ helper'.to = helper.to /\ helper'.child
    BY <1>1, <2>1, UpdateTyping DEF UpdateHelpers
  <2>3. exe \in U!Versions
    BY <1>2 DEF U!Bootable
  <2>4. U!TypeOK' /\ UpdateNodeOK' /\ UpdateJobsOK' /\ UpdateStateOK'
    BY <1>1, <2>1, <2>2, <2>3, UpdateConsts, UpdateTyping, UpdateTypingNext
    DEF UpdateNodeOK, UpdateJobsOK, UpdateStateOK, U!Running, U!Unconfirmed
  <2>5. UpdateHelperOK' /\ UpdateLeavingOK' /\ UpdateOK'
    BY <1>1, <2>1, <2>2, <2>3, UpdateConsts DEF UpdateHelperOK, UpdateLeavingOK, UpdateOK,
       U!Running, U!Unconfirmed
  <2> QED
    BY <2>4, <2>5
<1>3. CASE ~U!Bootable /\ helper.mode = "update"
  <2>1. U!HGo("rollback") /\ UNCHANGED node
    BY <1>3 DEF U!HLaunch
  <2>2. /\ helper' \in UpdateHelpers /\ helper'.pc = "rollback"
        /\ helper'.mode = helper.mode
        /\ helper'.to = helper.to
    BY <2>1, UpdateGoFact
  <2>3. U!TypeOK' /\ UpdateNodeOK' /\ UpdateJobsOK' /\ UpdateStateOK'
    BY <1>1, <2>1, <2>2, UpdateTyping, UpdateTypingNext DEF UpdateNodeOK, UpdateJobsOK,
       UpdateStateOK, U!Running, U!Unconfirmed
  <2>4. UpdateHelperOK'
    BY <1>1, <1>3, <2>1, <2>2 DEF UpdateHelperOK, U!Running
  <2>5. UpdateLeavingOK'
    BY <1>1, <2>1, <2>2 DEF UpdateLeavingOK, U!Running
  <2>6. UpdateOK'
    BY <1>1, <1>3, <2>1, <2>2 DEF UpdateOK, UpdateHelperOK, U!Running, U!Unconfirmed
  <2> QED
    BY <2>3, <2>4, <2>5, <2>6
<1>4. CASE ~U!Bootable /\ helper.mode # "update"
  <2>1. U!HEnd /\ UNCHANGED node
    BY <1>4 DEF U!HLaunch
  <2>2. UpdateStateOK'
    BY <1>1 DEF UpdateStateOK, U!Unconfirmed
  <2> QED
    BY <1>1, <2>1, <2>2, UpdateTyping, UpdateEndInv
<1> QED
  BY <1>2, <1>3, <1>4

LEMMA UpdateHWatchInv ==
  ASSUME UpdateSized, UpdateInv, U!HWatchOver \/ U!HWatchDied
  PROVE  UpdateInv'
<1> USE DEF UpdateInv
<1>1. /\ UNCHANGED <<exe, old, upd, staged, st, known, node, relaunch, job, mishaps>>
      /\ helper.pc = "watch"
  BY DEF U!HWatchOver, U!HWatchDied, U!HAt, U!files
<1>2. UpdateStateOK'
  BY <1>1 DEF UpdateStateOK, U!Unconfirmed
<1>3. CASE helper.mode = "update" /\ U!HWatchOver
  <2>1. node.pc = "up" /\ U!HGo("confirm")
    BY <1>3 DEF U!HWatchOver
  <2>2. /\ helper' \in UpdateHelpers /\ helper'.pc = "confirm" /\ helper'.mode = helper.mode
        /\ helper'.to = helper.to
    BY <2>1, UpdateGoFact
  <2>3. U!TypeOK' /\ UpdateNodeOK' /\ UpdateJobsOK'
    BY <1>1, <2>1, <2>2, UpdateTyping, UpdateTypingNext DEF UpdateNodeOK, UpdateJobsOK,
       U!Running
  <2>4. UpdateHelperOK' /\ UpdateLeavingOK' /\ UpdateOK'
    BY <1>1, <1>3, <2>1, <2>2 DEF UpdateHelperOK, UpdateLeavingOK, UpdateOK, U!Running,
       U!Unconfirmed
  <2> QED
    BY <1>2, <2>3, <2>4
<1>4. CASE helper.mode = "update" /\ U!HWatchDied
  <2>1. ~helper.child /\ U!HGo("rollback") /\ ~U!Running
    BY <1>1, <1>4 DEF U!HWatchDied, UpdateOK
  <2>2. /\ helper' \in UpdateHelpers /\ helper'.pc = "rollback"
        /\ helper'.mode = helper.mode
        /\ helper'.to = helper.to
    BY <2>1, UpdateGoFact
  <2>3. U!TypeOK' /\ UpdateNodeOK' /\ UpdateJobsOK'
    BY <1>1, <2>1, <2>2, UpdateTyping, UpdateTypingNext DEF UpdateNodeOK, UpdateJobsOK,
       U!Running
  <2>4. UpdateHelperOK' /\ UpdateLeavingOK' /\ UpdateOK'
    BY <1>1, <1>4, <2>1, <2>2 DEF UpdateHelperOK, UpdateLeavingOK, UpdateOK, U!Running,
       U!Unconfirmed, UpdateNodeOK
  <2> QED
    BY <1>2, <2>3, <2>4
<1>5. CASE helper.mode # "update"
  BY <1>1, <1>2, <1>5, UpdateTyping, UpdateEndInv DEF U!HWatchOver, U!HWatchDied
<1> QED
  BY <1>3, <1>4, <1>5

LEMMA UpdateHRollbackInv == ASSUME UpdateSized, UpdateInv, U!HRollback PROVE UpdateInv'
<1> USE DEF UpdateInv
<1>1. /\ UNCHANGED <<old, upd, st, staged, known, relaunch, job, mishaps>>
      /\ helper.pc = "rollback"
      /\ helper.mode = "update" /\ ~U!Running /\ node.pc = "off" /\ U!HEnd
      /\ relaunch = FALSE
      /\ upd \in U!Versions /\ upd # helper.to
  BY UpdateUpdatePlace, UpdateTyping DEF U!HRollback, U!HAt, U!keep, UpdateHelperOK,
     UpdateOK, UpdateNodeOK, UpdateLeavingOK
<1>2. exe' = upd /\ node' = U!Booted(upd) /\ helper' = U!NoHelper
  BY <1>1 DEF U!HRollback, U!HEnd
<1>3. U!TypeOK' /\ UpdateNodeOK' /\ UpdateJobsOK'
  BY <1>1, <1>2, UpdateConsts, UpdateTyping, UpdateTypingNext DEF UpdateNodeOK,
     UpdateJobsOK, U!Running
<1>4. UpdateStateOK'
  BY <1>1, <1>2 DEF UpdateStateOK, U!Unconfirmed, UpdateOK
<1>5. UpdateHelperOK' /\ UpdateLeavingOK' /\ UpdateOK'
  BY <1>1, <1>2, UpdateConsts DEF UpdateHelperOK, UpdateLeavingOK, UpdateOK
<1> QED
  BY <1>3, <1>4, <1>5

LEMMA UpdateHConfirmInv == ASSUME UpdateSized, UpdateInv, U!HConfirm PROVE UpdateInv'
<1> USE DEF UpdateInv
<1>1. /\ UNCHANGED <<exe, old, node, staged, known, relaunch, job, mishaps>> /\ U!HEnd
      /\ upd' = U!None
      /\ st' \in U!States /\ ~(st'.pending /\ ~st'.bootOk)
  BY UpdateTyping, UpdateConsts DEF U!HConfirm, U!keep, U!States
<1>2. UpdateStateOK'
  BY <1>1 DEF UpdateStateOK, U!Unconfirmed
<1> QED
  BY <1>1, <1>2, UpdateTyping, UpdateEndInv DEF U!Images

\* A power failure ends all that runs.
LEMMA UpdatePowerFailInv == ASSUME UpdateSized, UpdateInv, U!PowerFail PROVE UpdateInv'
<1> USE DEF UpdateInv
<1>1. /\ UNCHANGED <<old, upd, staged, st>> /\ node' = U!NodeOff /\ known' = {}
      /\ relaunch' = FALSE
      /\ job' = [c \in Callers |-> U!NoJob] /\ helper' = U!NoHelper
      /\ exe' \in {exe, U!Torn} /\ U!Fault
  BY DEF U!PowerFail, U!HEnd
<1>2. U!TypeOK'
  BY <1>1, UpdateConsts, UpdateFaultFact, UpdateTyping, UpdateTypingNext DEF U!Images
<1>3. UpdateNodeOK' /\ UpdateJobsOK' /\ UpdateStateOK'
  BY <1>1, UpdateConsts DEF UpdateNodeOK, UpdateJobsOK, UpdateStateOK, U!Running,
     U!Unconfirmed
<1>4. UpdateHelperOK' /\ UpdateLeavingOK' /\ UpdateOK'
  BY <1>1, UpdateConsts DEF UpdateHelperOK, UpdateLeavingOK, UpdateOK
<1> QED
  BY <1>2, <1>3, <1>4

LEMMA UpdateNextInv == ASSUME UpdateSized, UpdateInv, [U!Next]_updateVars PROVE UpdateInv'
<1>1. CASE UNCHANGED updateVars
  <2>1. UNCHANGED <<exe, old, upd, staged, st, known, node, helper, relaunch, job, mishaps>>
    BY <1>1 DEF updateVars, U!files
  <2>2. U!TypeOK'
    BY <2>1, UpdateTyping, UpdateTypingNext DEF UpdateInv
  <2> QED
    BY <2>1, <2>2
    DEF UpdateInv, UpdateNodeOK, UpdateJobsOK, UpdateHelperOK, UpdateOK, UpdateLeavingOK,
       UpdateStateOK, U!Running, U!Unconfirmed
<1>2. CASE U!NodeExit \/ U!NodeDies
  BY <1>2, UpdateDeadInv DEF U!NodeExit, U!NodeDies, U!files
<1>3. CASE U!NodeStep
  BY <1>2, <1>3, UpdateStartInv, UpdateRollbackMoveInv, UpdateRollbackCopyInv,
     UpdateRelaunchInv, UpdateConfirmInv DEF U!NodeStep
<1>4. CASE U!HelperStep
  BY <1>4, UpdateHWaitInv, UpdateHMoveInv, UpdateHCopyInv, UpdateHLaunchInv,
     UpdateHWatchInv, UpdateHRollbackInv, UpdateHConfirmInv
  DEF U!HelperStep
<1>5. ASSUME NEW c \in Callers, NEW v \in U!Versions, NEW force \in BOOLEAN,
             U!ApplyBegin(c, v, force)
      PROVE  UpdateInv'
  BY <1>5, UpdateApplyBeginInv
<1> QED
  BY <1>1, <1>2, <1>3, <1>4, <1>5, UpdateOperatorStartInv, UpdateClearStateInv,
     UpdateConfigRestartInv, UpdateApplyCheckInv,
     UpdateApplyDownloadInv, UpdateApplyInstallInv, UpdatePowerFailInv DEF U!Next

LEMMA UpdateSound == ASSUME UpdateInv PROVE U!TypeOK /\ U!RollbackReady /\ U!NotUnderfoot
  BY DEF UpdateInv, UpdateHelperOK, UpdateStateOK, U!RollbackReady, U!NotUnderfoot

-----------------------------------------------------------------------------
(* config.yaml: a call that nothing overlaps has the newest backup and its own*)
(* temporary file, and so has a call that writes while no other one does.   *)

ConfigPcs == {"idle", "stat", "backup", "tmp", "write", "replace", "sync", "ended"}
ConfigResults == {"none", "ok", "error", "conflict"}
ConfigCalls == [pc : ConfigPcs, text : C!Valid \cup {C!Nothing}, base : 0 .. MaxTime,
                result : ConfigResults]
ConfigFiles == [text : C!Text, mtime : 1 .. MaxTime]
ConfigHolds == {"none", "tmp", "file", "lost"}

ConfigTyped ==
    /\ file \in ConfigFiles
    /\ tmp \in C!Text \cup {C!Nothing}
    /\ backups \in Seq(C!Text)
    /\ live \in C!Valid \cup {C!Nothing}
    /\ saves \in [Edit -> ConfigCalls]
    /\ hold \in [Edit -> ConfigHolds] /\ mixed \in SUBSET Edit
    /\ alone \in [Edit -> BOOLEAN] /\ clash \in BOOLEAN

\* A call that nothing has overlapped is the only one, what it replaces is the
\* newest backup, and what it writes is what it was given.
ConfigLone == \A c \in Edit : alone[c] /\ c \in C!Active => C!Active = {c}
ConfigNamed == \A c \in C!Active : saves[c].text \in C!Valid
ConfigHandles == \A c \in Edit : /\ hold[c] # "none" <=> C!At(c, "write")
                                 /\ c \in mixed => C!At(c, "write")
ConfigTold == clash => \E c \in Edit : ~alone[c]
ConfigBackedUp == \A c \in Edit : alone[c] /\ saves[c].pc \in {"tmp", "write", "replace"}
   => C!Newest = file.text /\ Len(backups) <= Keep
ConfigWriting == \A c \in Edit : alone[c] =>
   /\ C!At(c, "write") => hold[c] = "tmp" /\ c \notin mixed
   /\ C!At(c, "replace") => tmp = saves[c].text
   /\ C!At(c, "sync") => file.text = saves[c].text

\* Without a clash there is one writer, and the file that it moves is its own.
ConfigSole == ~clash =>
   /\ file.text \in C!Valid
   /\ \A c, d \in C!Writing : c = d
   /\ \A c \in Edit : /\ C!At(c, "write") => hold[c] = "tmp" /\ c \notin mixed
                      /\ C!At(c, "replace") => tmp = saves[c].text

\* Until the one that has written it goes into the node, the file is what the
\* node uses.
ConfigLively ==
    (\A c \in Edit : alone[c]) =>
        live = file.text \/ \E c \in Edit : C!At(c, "sync")

ConfigInv == /\ ConfigTyped /\ ConfigLone /\ ConfigNamed /\ ConfigHandles /\ ConfigTold
             /\ ConfigBackedUp /\ ConfigWriting /\ ConfigSole /\ ConfigLively

LEMMA ConfigTexts ==
  ASSUME ConfigSized
  PROVE  /\ C!Valid \subseteq C!Text /\ FirstText \in C!Valid
         /\ C!Torn \subseteq C!Text /\ C!Torn # {}
         /\ C!Nothing \notin C!Text
<1>1. C!Torn # {}
  <2>1. PICK b \in Partial : b \in Body
    BY DEF ConfigSized
  <2>2. [body |-> b, secret |-> C!Empty] \in C!Text
    BY <2>1 DEF C!Text
  <2> QED
    BY <2>1, <2>2 DEF C!Torn
<1>2. C!Nothing \notin C!Text
  BY DEF ConfigSized, C!Nothing, C!Text
<1> QED
  BY <1>1, <1>2 DEF ConfigSized, C!Valid, C!Torn

LEMMA ConfigInitInv == ASSUME ConfigSized, C!Init PROVE ConfigInv
<1> USE DEF ConfigSized, C!Init, C!Idle
<1>1. ConfigTyped
  <2>1. [text |-> FirstText, mtime |-> 1] \in ConfigFiles
    BY ConfigTexts DEF ConfigFiles
  <2>2. saves \in [Edit -> ConfigCalls]
    BY DEF ConfigCalls, ConfigPcs, ConfigResults
  <2>3. tmp \in C!Text \cup {C!Nothing} /\ backups \in Seq(C!Text)
        /\ live \in C!Valid \cup {C!Nothing}
    BY ConfigTexts
  <2>4. hold \in [Edit -> ConfigHolds] /\ mixed \in SUBSET Edit
        /\ alone \in [Edit -> BOOLEAN] /\ clash \in BOOLEAN
    BY DEF ConfigHolds
  <2> QED
    BY <2>1, <2>2, <2>3, <2>4 DEF ConfigTyped
<1>2. C!Active = {} /\ C!Writing = {}
  BY DEF C!Active, C!Writing
<1> QED
  BY <1>1, <1>2, ConfigTexts DEF ConfigInv, ConfigLone, ConfigNamed, ConfigHandles, ConfigTold,
     ConfigBackedUp, ConfigWriting, ConfigSole, ConfigLively, C!At

\* The rotation keeps the newest backup, and not one too many.
LEMMA ConfigRotatedKeeps ==
  ASSUME ConfigSized, NEW s \in Seq(C!Text), s # <<>>
  PROVE  /\ C!Rotated(s) \in Seq(C!Text) /\ Len(C!Rotated(s)) <= Keep
         /\ C!Rotated(s) # <<>> /\ C!Last(C!Rotated(s)) = C!Last(s)
<1>1. CASE Len(s) > Keep
  <2> DEFINE r == SubSeq(s, Len(s) - Keep + 1, Len(s))
  <2>1. C!Rotated(s) = r
    BY <1>1 DEF C!Rotated
  <2>2. r \in Seq(C!Text) /\ Len(r) = Keep
    BY <1>1 DEF ConfigSized
  <2>3. r[Keep] = s[Len(s)]
    BY <1>1 DEF ConfigSized
  <2> HIDE DEF r
  <2>4. r # <<>>
    BY <2>2 DEF ConfigSized
  <2> QED
    BY <2>1, <2>2, <2>3, <2>4 DEF C!Last, ConfigSized
<1>2. CASE ~(Len(s) > Keep)
  BY <1>2 DEF C!Rotated, ConfigSized
<1> QED
  BY <1>1, <1>2

\* What a step of one call does: the others stay where they are.
ConfigSteps(c) == C!Stat(c) \/ C!Backup(c) \/ C!OpenTmp(c) \/ C!Write(c) \/ C!Replace(c)
   \/ C!WriteFails(c) \/ C!Sync(c)

LEMMA ConfigMovesActive ==
  ASSUME ConfigTyped, NEW c \in Edit, ConfigSteps(c)
  PROVE  /\ c \in C!Active /\ C!Active' \subseteq C!Active /\ UNCHANGED alone
         /\ \A d \in Edit : d # c => saves'[d] = saves[d]
         /\ saves'[c].text = saves[c].text /\ saves'[c] \in ConfigCalls
         /\ saves' \in [Edit -> ConfigCalls]
<1>1. saves[c].pc \notin {"idle", "ended"} /\ UNCHANGED alone
  BY DEF ConfigSteps, C!At, C!Stat, C!Backup, C!OpenTmp, C!Write, C!Replace, C!WriteFails,
     C!Sync, C!handles, C!histories
<1>2. \E pc \in ConfigPcs, r \in ConfigResults :
        saves' = [saves EXCEPT ![c].pc = pc, ![c].result = r]
  <2>1. CASE \E pc \in ConfigPcs : C!Go(c, pc)
    <3>1. PICK pc \in ConfigPcs : saves' = [saves EXCEPT ![c].pc = pc]
      BY <2>1 DEF C!Go
    <3>2. saves' = [saves EXCEPT ![c].pc = pc, ![c].result = saves[c].result]
      BY <3>1 DEF ConfigTyped, ConfigCalls
    <3> QED
      BY <3>2 DEF ConfigTyped, ConfigCalls
  <2>2. CASE \E r \in ConfigResults : C!End(c, r)
    BY <2>2 DEF C!End, ConfigPcs
  <2> QED
    BY <2>1, <2>2 DEF ConfigSteps, ConfigPcs, ConfigResults, C!Stat, C!Backup, C!OpenTmp,
       C!Write, C!Replace, C!WriteFails, C!Sync
<1>3. PICK pc \in ConfigPcs, r \in ConfigResults :
        saves' = [saves EXCEPT ![c].pc = pc, ![c].result = r]
  BY <1>2
<1>4. /\ saves' \in [Edit -> ConfigCalls] /\ saves'[c].text = saves[c].text
      /\ \A d \in Edit : d # c => saves'[d] = saves[d]
  BY <1>3 DEF ConfigTyped, ConfigCalls
<1> QED
  BY <1>1, <1>4 DEF C!Active

LEMMA ConfigCommitInv ==
  ASSUME ConfigSized, ConfigInv, NEW c \in Edit,
         NEW t \in [body : Body, secret : Secret \cup {C!Empty, C!Mask}],
         NEW b \in 0 .. file.mtime, C!Commit(c, t, b)
  PROVE  ConfigInv'
<1> USE DEF ConfigInv
<1> DEFINE ok == t.body \in Good /\ ~(t.secret = C!Mask /\ live.secret = C!Empty)
<1>0. /\ UNCHANGED <<file, tmp, backups, live, hold, mixed, clash>> /\ C!At(c, "idle")
      /\ live \in C!Valid
  BY DEF C!Commit, C!handles, ConfigTyped
<1>1. CASE ok
  <2> DEFINE u == C!Unmasked(t)
  <2>0. /\ saves' = [saves EXCEPT ![c] = [C!Idle EXCEPT !.pc = "stat", !.base = b, !.text = u]]
        /\ alone' = [d \in Edit |-> IF C!Active = {} THEN alone[d]
                                    ELSE alone[d] /\ d \notin C!Active \cup {c}]
    BY <1>1 DEF C!Commit
  <2>u. u \in C!Valid
    <3>1. live.secret \in Secret \cup {C!Empty}
      BY <1>0 DEF C!Valid, C!Text
    <3>2. CASE t.secret = C!Mask
      <4>1. u = [body |-> t.body, secret |-> live.secret]
        BY <3>2 DEF C!Unmasked
      <4> QED
        BY <1>1, <3>1, <4>1 DEF C!Valid, C!Text
    <3>3. CASE t.secret # C!Mask
      BY <1>1, <3>3 DEF C!Unmasked, C!Valid, C!Text
    <3> QED
      BY <3>2, <3>3
  <2> HIDE DEF u
  <2>1. ConfigTyped'
    <3>1. [C!Idle EXCEPT !.pc = "stat", !.base = b, !.text = u] \in ConfigCalls
      <4>1. b \in 0 .. MaxTime
        BY DEF ConfigTyped, ConfigFiles, ConfigSized
      <4> QED
        BY <2>u, <4>1 DEF ConfigCalls, ConfigPcs, ConfigResults, C!Idle
    <3>2. saves' \in [Edit -> ConfigCalls] /\ alone' \in [Edit -> BOOLEAN]
      BY <2>0, <3>1 DEF ConfigTyped
    <3> QED
      BY <1>0, <3>2 DEF ConfigTyped
  <2>2. /\ \A d \in Edit : d # c => saves'[d] = saves[d]
        /\ saves'[c].pc = "stat" /\ saves'[c].text = u /\ saves[c].pc = "idle"
    BY <1>0, <2>0 DEF ConfigTyped, ConfigCalls, C!Idle, C!At
  <2>3. C!Active' = C!Active \cup {c} /\ c \notin C!Active /\ C!Writing' = C!Writing
    BY <2>2 DEF C!Active, C!Writing
  <2>4. \A d \in Edit : alone'[d] => alone[d] /\ (C!Active # {} => d \notin C!Active')
    BY <2>0, <2>3 DEF ConfigTyped
  <2>5. ConfigLone' /\ ConfigNamed'
    BY <2>2, <2>3, <2>4, <2>u DEF ConfigLone, ConfigNamed, C!Active
  <2>6. ConfigHandles'
    BY <1>0, <2>2 DEF ConfigHandles, C!At
  <2>7. ConfigTold' /\ ConfigLively'
    BY <1>0, <2>2, <2>4 DEF ConfigTold, ConfigLively, C!At
  <2>8. ConfigBackedUp' /\ ConfigWriting'
    BY <1>0, <2>2, <2>4 DEF ConfigBackedUp, ConfigWriting, C!At, C!Newest
  <2>9. ConfigSole'
    BY <1>0, <2>2, <2>3 DEF ConfigSole, C!At
  <2> QED
    BY <2>1, <2>5, <2>6, <2>7, <2>8, <2>9
<1>2. CASE ~ok
  <2>0. saves' = [saves EXCEPT ![c].pc = "ended", ![c].result = "error"] /\ UNCHANGED alone
    BY <1>2 DEF C!Commit, C!End
  <2>1. ConfigTyped'
    <3>1. [saves[c] EXCEPT !.pc = "ended", !.result = "error"] \in ConfigCalls
      <4>1. saves[c] \in ConfigCalls
        BY DEF ConfigTyped
      <4> QED
        BY <4>1 DEF ConfigCalls, ConfigPcs, ConfigResults
    <3>2. saves' \in [Edit -> ConfigCalls]
      BY <2>0, <3>1 DEF ConfigTyped
    <3> QED
      BY <1>0, <2>0, <3>2 DEF ConfigTyped
  <2>2. /\ \A d \in Edit : d # c => saves'[d] = saves[d]
        /\ saves'[c].pc = "ended" /\ saves[c].pc = "idle"
    BY <1>0, <2>0 DEF ConfigTyped, ConfigCalls, C!At
  <2>3. C!Active' = C!Active /\ C!Writing' = C!Writing
    BY <2>2 DEF C!Active, C!Writing
  <2>4. ConfigLone' /\ ConfigNamed'
    BY <2>0, <2>2, <2>3 DEF ConfigLone, ConfigNamed, C!Active
  <2>5. ConfigHandles' /\ ConfigTold' /\ ConfigLively'
    BY <1>0, <2>0, <2>2 DEF ConfigHandles, ConfigTold, ConfigLively, C!At
  <2>6. ConfigBackedUp' /\ ConfigWriting'
    BY <1>0, <2>0, <2>2 DEF ConfigBackedUp, ConfigWriting, C!At, C!Newest
  <2>7. ConfigSole'
    BY <1>0, <2>2, <2>3 DEF ConfigSole, C!At
  <2> QED
    BY <2>1, <2>4, <2>5, <2>6, <2>7
<1> QED
  BY <1>1, <1>2

\* When the call that moves is alone, nothing else is active.
LEMMA ConfigOthers ==
  ASSUME ConfigInv, NEW c \in Edit, ConfigSteps(c)
  PROVE  /\ c \in C!Active /\ C!Active' \subseteq C!Active /\ UNCHANGED alone
         /\ \A d \in Edit : d # c => saves'[d] = saves[d]
         /\ saves'[c].text = saves[c].text /\ saves[c].text \in C!Valid
         /\ saves' \in [Edit -> ConfigCalls]
         /\ \A d \in Edit : d # c /\ alone[d] =>
               ~(saves'[d].pc \in {"tmp", "write", "replace", "sync"})
         /\ ConfigLone' /\ ConfigNamed' /\ (~clash' \/ clash' = clash => ConfigTold')
<1> USE DEF ConfigInv
<1>1. /\ c \in C!Active /\ C!Active' \subseteq C!Active /\ UNCHANGED alone
      /\ \A d \in Edit : d # c => saves'[d] = saves[d]
      /\ saves'[c].text = saves[c].text /\ saves'[c] \in ConfigCalls
      /\ saves' \in [Edit -> ConfigCalls] /\ saves[c].text \in C!Valid
  BY ConfigMovesActive DEF ConfigNamed
<1>2. ConfigLone' /\ ConfigNamed'
  BY <1>1 DEF ConfigLone, ConfigNamed, C!Active
<1>3. \A d \in Edit : d # c /\ alone[d] => d \notin C!Active
  BY <1>1 DEF ConfigLone
<1> QED
  BY <1>1, <1>2, <1>3 DEF C!Active, ConfigTold

LEMMA ConfigStatInv ==
  ASSUME ConfigSized, ConfigInv, NEW c \in Edit, C!Stat(c)
  PROVE  ConfigInv'
<1> USE DEF ConfigInv
<1>0. ConfigSteps(c)
  BY DEF ConfigSteps
<1>1. UNCHANGED <<file, tmp, backups, live, hold, mixed, alone, clash>> /\ C!At(c, "stat")
  BY DEF C!Stat, C!handles, C!histories
<1>2. saves'[c].pc \in {"backup", "ended"}
  BY DEF C!Stat, C!Go, C!End, ConfigTyped, ConfigCalls
<1>3. C!Writing' = C!Writing
  BY <1>0, <1>1, <1>2, ConfigOthers DEF C!Writing, C!At
<1>4. ConfigTyped' /\ ConfigTold' /\ ConfigLone' /\ ConfigNamed'
  BY <1>0, <1>1, ConfigOthers DEF ConfigTyped
<1>5. ConfigHandles' /\ ConfigSole'
  BY <1>0, <1>1, <1>2, <1>3, ConfigOthers DEF ConfigHandles, ConfigSole, C!At
<1>6. ConfigBackedUp' /\ ConfigWriting'
  BY <1>0, <1>1, <1>2, ConfigOthers DEF ConfigBackedUp, ConfigWriting, C!At
<1>7. ConfigLively'
  BY <1>0, <1>1, ConfigOthers DEF ConfigLively, C!At
<1> QED
  BY <1>4, <1>5, <1>6, <1>7

LEMMA ConfigBackupInv ==
  ASSUME ConfigSized, ConfigInv, NEW c \in Edit, C!Backup(c)
  PROVE  ConfigInv'
<1> USE DEF ConfigInv
<1>0. ConfigSteps(c)
  BY DEF ConfigSteps
<1>1. /\ UNCHANGED <<file, tmp, live, hold, mixed, alone, clash>> /\ C!At(c, "backup")
      /\ saves' = [saves EXCEPT ![c].pc = "tmp"]
  BY DEF C!Backup, C!Go, C!handles, C!histories
<1>2. saves'[c].pc = "tmp"
  BY <1>1 DEF ConfigTyped, ConfigCalls
<1>3. C!Writing' = C!Writing
  BY <1>0, <1>1, <1>2, ConfigOthers DEF C!Writing, C!At
<1>b. backups' \in Seq(C!Text) /\ Len(backups') <= Keep /\ C!Newest' = file.text
  <2>0. file.text \in C!Text
    BY DEF ConfigTyped, ConfigFiles
  <2> DEFINE s == IF C!Newest = file.text THEN backups ELSE Append(backups, file.text)
  <2>1. s \in Seq(C!Text) /\ s # <<>> /\ C!Last(s) = file.text
    <3>1. CASE C!Newest = file.text
      <4>1. backups # <<>>
        BY <2>0, <3>1, ConfigTexts DEF C!Newest
      <4> QED
        BY <3>1, <4>1 DEF C!Newest, ConfigTyped
    <3>2. CASE C!Newest # file.text
      BY <2>0, <3>2 DEF ConfigTyped, C!Last
    <3> QED
      BY <3>1, <3>2
  <2>2. backups' = C!Rotated(s)
    BY DEF C!Backup
  <2> HIDE DEF s
  <2> QED
    BY <2>1, <2>2, ConfigRotatedKeeps DEF C!Newest
<1>4. ConfigTyped' /\ ConfigTold' /\ ConfigLone' /\ ConfigNamed'
  BY <1>0, <1>1, <1>b, ConfigOthers DEF ConfigTyped
<1>5. ConfigHandles' /\ ConfigSole'
  BY <1>0, <1>1, <1>2, <1>3, ConfigOthers DEF ConfigHandles, ConfigSole, C!At
<1>6. ConfigBackedUp' /\ ConfigWriting'
  BY <1>0, <1>1, <1>2, <1>b, ConfigOthers DEF ConfigBackedUp, ConfigWriting, C!At
<1>7. ConfigLively'
  BY <1>0, <1>1, <1>2, ConfigOthers DEF ConfigLively, C!At
<1> QED
  BY <1>4, <1>5, <1>6, <1>7

LEMMA ConfigOpenTmpInv ==
  ASSUME ConfigSized, ConfigInv, NEW c \in Edit, C!OpenTmp(c)
  PROVE  ConfigInv'
<1> USE DEF ConfigInv
<1>0. ConfigSteps(c)
  BY DEF ConfigSteps
<1>1. /\ UNCHANGED <<file, backups, live, mixed, alone>> /\ C!At(c, "tmp")
      /\ saves' = [saves EXCEPT ![c].pc = "write"] /\ tmp' \in C!Text
      /\ hold' = [hold EXCEPT ![c] = "tmp"] /\ clash' = (clash \/ C!Writing # {})
  BY ConfigTexts DEF C!OpenTmp, C!Go
<1>2. saves'[c].pc = "write" /\ hold'[c] = "tmp" /\ saves[c].pc = "tmp"
      /\ \A d \in Edit : d # c => hold'[d] = hold[d]
  BY <1>1 DEF ConfigTyped, ConfigCalls, C!At
<1>3. c \notin mixed
  BY <1>2 DEF ConfigHandles, C!At
<1>4. ConfigTyped' /\ ConfigLone' /\ ConfigNamed'
  <2>1. clash' \in BOOLEAN /\ hold' \in [Edit -> ConfigHolds]
    BY <1>1 DEF ConfigTyped, ConfigHolds
  <2> QED
    BY <1>0, <1>1, <2>1, ConfigOthers DEF ConfigTyped
<1>5. ConfigTold'
  <2>1. ASSUME NEW d \in C!Writing PROVE ~alone[d]
    BY <1>0, <1>2, ConfigOthers DEF ConfigLone, C!Writing, C!Active
  <2>2. \A d \in C!Writing : d \in Edit
    BY DEF C!Writing
  <2> QED
    BY <1>1, <2>1, <2>2 DEF ConfigTold
<1>6. ConfigHandles'
  BY <1>0, <1>1, <1>2, ConfigOthers DEF ConfigHandles, C!At
<1>7. ConfigSole'
  <2>1. CASE C!Writing = {} /\ ~clash
    <3>1. \A d \in Edit : d # c => saves'[d].pc \notin {"write", "replace"}
      BY <1>0, <2>1, ConfigOthers DEF C!Writing
    <3> QED
      BY <1>1, <1>2, <1>3, <2>1, <3>1 DEF ConfigSole, C!Writing, C!At
  <2>2. CASE clash \/ C!Writing # {}
    BY <1>1, <2>2 DEF ConfigSole
  <2> QED
    BY <2>1, <2>2
<1>8. ConfigBackedUp' /\ ConfigWriting'
  BY <1>0, <1>1, <1>2, <1>3, ConfigOthers DEF ConfigBackedUp, ConfigWriting, C!At, C!Newest
<1>9. ConfigLively'
  BY <1>0, <1>1, <1>2, ConfigOthers DEF ConfigLively, C!At
<1> QED
  BY <1>4, <1>5, <1>6, <1>7, <1>8, <1>9

\* What a handle writes to has a text then, and the handle is closed.
LEMMA ConfigPutsTypes ==
  ASSUME ConfigSized, ConfigTyped, NEW c \in Edit, NEW t \in C!Text, C!Puts(c, t)
  PROVE  /\ file' \in ConfigFiles /\ tmp' \in C!Text \cup {C!Nothing}
         /\ hold' \in [Edit -> ConfigHolds] /\ hold'[c] = "none"
         /\ \A d \in Edit : d # c => hold'[d] = hold[d]
         /\ hold[c] = "tmp" => tmp' = t /\ UNCHANGED file
<1>1. file' \in ConfigFiles
  BY DEF C!Puts, ConfigTyped, ConfigFiles, ConfigSized
<1>2. hold' = [hold EXCEPT ![c] = "none"] /\ tmp' = (IF hold[c] = "tmp" THEN t ELSE tmp)
  BY DEF C!Puts
<1>3. hold' \in [Edit -> ConfigHolds] /\ hold'[c] = "none"
      /\ \A d \in Edit : d # c => hold'[d] = hold[d]
  BY <1>2 DEF ConfigTyped, ConfigHolds
<1>4. hold[c] = "tmp" => tmp' = t /\ UNCHANGED file
  BY <1>2 DEF C!Puts
<1> QED
  BY <1>1, <1>2, <1>3, <1>4 DEF ConfigTyped

LEMMA ConfigWriteInv ==
  ASSUME ConfigSized, ConfigInv, NEW c \in Edit, C!Write(c)
  PROVE  ConfigInv'
<1> USE DEF ConfigInv
<1>0. ConfigSteps(c)
  BY DEF ConfigSteps
<1>1. /\ UNCHANGED <<backups, live, alone, clash>> /\ C!At(c, "write")
      /\ saves' = [saves EXCEPT ![c].pc = "replace"]
      /\ mixed' = (mixed \cup {d \in Edit : hold[d] = hold[c]}) \ {c}
  BY DEF C!Write, C!Go, C!histories
<1>2. saves'[c].pc = "replace" /\ saves[c].pc = "write" /\ hold[c] # "none"
  BY <1>1 DEF ConfigTyped, ConfigCalls, ConfigHandles, C!At
<1>3. PICK t \in C!Text : C!Puts(c, t) /\ (c \notin mixed => t = saves[c].text)
  BY <1>0, ConfigOthers, ConfigTexts DEF C!Write
<1>4. /\ file' \in ConfigFiles /\ tmp' \in C!Text \cup {C!Nothing}
      /\ hold' \in [Edit -> ConfigHolds] /\ hold'[c] = "none"
      /\ \A d \in Edit : d # c => hold'[d] = hold[d]
      /\ hold[c] = "tmp" => tmp' = t /\ UNCHANGED file
  BY <1>3, ConfigPutsTypes
<1>5. ConfigTyped' /\ ConfigTold' /\ ConfigLone' /\ ConfigNamed'
  BY <1>0, <1>1, <1>4, ConfigOthers DEF ConfigTyped
<1>6. ConfigHandles'
  BY <1>0, <1>1, <1>2, <1>4, ConfigOthers DEF ConfigHandles, C!At
<1>7. ConfigSole'
  <2>1. CASE ~clash
    <3>1. /\ hold[c] = "tmp" /\ c \notin mixed /\ file.text \in C!Valid
          /\ \A d \in Edit : d # c => saves[d].pc \notin {"write", "replace"}
      BY <1>2, <2>1 DEF ConfigSole, C!Writing, C!At
    <3>2. tmp' = saves[c].text /\ file' = file
      BY <1>3, <1>4, <3>1
    <3> QED
      BY <1>0, <1>1, <1>2, <3>1, <3>2, ConfigOthers DEF ConfigSole, C!Writing, C!At
  <2>2. CASE clash
    BY <1>1, <2>2 DEF ConfigSole
  <2> QED
    BY <2>1, <2>2 DEF ConfigTyped
<1>8. alone[c] => tmp' = saves[c].text /\ UNCHANGED file
  BY <1>1, <1>3, <1>4 DEF ConfigWriting
<1>9. ConfigBackedUp' /\ ConfigWriting'
  BY <1>0, <1>1, <1>2, <1>8, ConfigOthers DEF ConfigBackedUp, ConfigWriting, C!At, C!Newest
<1>10. ConfigLively'
  BY <1>0, <1>1, <1>2, <1>8, ConfigOthers DEF ConfigLively, C!At
<1> QED
  BY <1>5, <1>6, <1>7, <1>9, <1>10

LEMMA ConfigReplaceInv ==
  ASSUME ConfigSized, ConfigInv, NEW c \in Edit, C!Replace(c)
  PROVE  ConfigInv'
<1> USE DEF ConfigInv
<1>0. ConfigSteps(c)
  BY DEF ConfigSteps
<1>1. UNCHANGED <<backups, live, mixed, alone, clash>> /\ C!At(c, "replace")
  BY DEF C!Replace, C!histories
<1>2. CASE tmp = C!Nothing
  <2>0. /\ saves' = [saves EXCEPT ![c].pc = "ended", ![c].result = "error"]
        /\ UNCHANGED <<file, tmp, hold>>
    BY <1>2 DEF C!Replace, C!End
  <2>1. saves'[c].pc = "ended" /\ saves[c].pc = "replace"
    BY <1>1, <2>0 DEF ConfigTyped, ConfigCalls, C!At
  <2>2. C!Writing' \subseteq C!Writing
    BY <1>0, <2>1, ConfigOthers DEF C!Writing
  <2>3. ConfigTyped' /\ ConfigTold' /\ ConfigLone' /\ ConfigNamed'
    BY <1>0, <1>1, <2>0, ConfigOthers DEF ConfigTyped
  <2>4. ConfigHandles' /\ ConfigSole'
    BY <1>0, <1>1, <2>0, <2>1, <2>2, ConfigOthers DEF ConfigHandles, ConfigSole, C!At
  <2>5. ConfigBackedUp' /\ ConfigWriting'
    BY <1>0, <1>1, <2>0, <2>1, ConfigOthers DEF ConfigBackedUp, ConfigWriting, C!At
  <2>6. ConfigLively'
    BY <1>0, <1>1, <2>0, <2>1, ConfigOthers DEF ConfigLively, C!At
  <2> QED
    BY <2>3, <2>4, <2>5, <2>6
<1>3. CASE tmp # C!Nothing
  <2>0. /\ saves' = [saves EXCEPT ![c].pc = "sync"] /\ tmp' = C!Nothing
        /\ file.mtime < MaxTime /\ file' = [text |-> tmp, mtime |-> file.mtime + 1]
        /\ hold' = [d \in Edit |-> C!Moved[hold[d]]]
    BY <1>3 DEF C!Replace, C!Go
  <2>1. saves'[c].pc = "sync" /\ saves[c].pc = "replace"
    BY <1>1, <2>0 DEF ConfigTyped, ConfigCalls, C!At
  <2>2. /\ hold' \in [Edit -> ConfigHolds]
        /\ \A d \in Edit : hold'[d] # "none" <=> hold[d] # "none"
    BY <2>0 DEF C!Moved, ConfigTyped, ConfigHolds
  <2>3. file' \in ConfigFiles /\ file'.text = tmp
    BY <1>3, <2>0 DEF ConfigFiles, ConfigTyped, ConfigSized
  <2>4. ConfigTyped' /\ ConfigTold' /\ ConfigLone' /\ ConfigNamed'
    BY <1>0, <1>1, <2>0, <2>2, <2>3, ConfigOthers DEF ConfigTyped
  <2>5. ConfigHandles'
    BY <1>0, <1>1, <2>1, <2>2, ConfigOthers DEF ConfigHandles, C!At
  <2>6. ConfigSole'
    <3>1. CASE ~clash
      <4>1. /\ tmp = saves[c].text /\ saves[c].text \in C!Valid
            /\ \A d \in Edit : d # c => saves[d].pc \notin {"write", "replace"}
        BY <1>0, <2>1, <3>1, ConfigOthers DEF ConfigSole, C!Writing, C!At
      <4> QED
        BY <1>0, <2>1, <2>3, <4>1, ConfigOthers DEF ConfigSole, C!Writing, C!At
    <3>2. CASE clash
      BY <1>1, <3>2 DEF ConfigSole
    <3> QED
      BY <3>1, <3>2 DEF ConfigTyped
  <2>7. alone[c] => tmp = saves[c].text
    BY <1>1 DEF ConfigWriting
  <2>8. ConfigBackedUp' /\ ConfigWriting'
    BY <1>0, <1>1, <2>1, <2>3, <2>7, ConfigOthers DEF ConfigBackedUp, ConfigWriting, C!At
  <2>9. ConfigLively'
    BY <2>1 DEF ConfigLively, C!At
  <2> QED
    BY <2>4, <2>5, <2>6, <2>8, <2>9
<1> QED
  BY <1>2, <1>3

LEMMA ConfigWriteFailsInv ==
  ASSUME ConfigSized, ConfigInv, NEW c \in Edit, C!WriteFails(c)
  PROVE  ConfigInv'
<1> USE DEF ConfigInv
<1>0. ConfigSteps(c)
  BY DEF ConfigSteps
<1>1. /\ saves' = [saves EXCEPT ![c].pc = "ended", ![c].result = "error"]
      /\ UNCHANGED <<live, alone, clash>> /\ mixed' = mixed \ {c}
      /\ saves[c].pc \in {"backup", "tmp", "write", "replace"}
  BY DEF C!WriteFails, C!End, C!histories
<1>2. saves'[c].pc = "ended"
  BY <1>1 DEF ConfigTyped, ConfigCalls
<1>3. backups' \in Seq(C!Text)
  BY ConfigTexts DEF C!WriteFails, ConfigTyped
<1>4. /\ file' \in ConfigFiles /\ tmp' \in C!Text \cup {C!Nothing}
      /\ hold' \in [Edit -> ConfigHolds] /\ hold'[c] = "none"
      /\ \A d \in Edit : d # c => hold'[d] = hold[d]
      /\ ~C!At(c, "write") \/ hold[c] = "tmp" => UNCHANGED file
      /\ ~C!At(c, "write") => UNCHANGED tmp
  <2>1. CASE C!At(c, "write") /\ \E t \in C!Torn : C!Puts(c, t)
    <3>1. PICK t \in C!Text : C!Puts(c, t)
      BY <2>1, ConfigTexts
    <3> QED
      BY <2>1, <3>1, ConfigPutsTypes
  <2>2. CASE hold' = [hold EXCEPT ![c] = "none"] /\ UNCHANGED <<file, tmp>>
    BY <2>2 DEF ConfigTyped, ConfigHolds
  <2> QED
    BY <2>1, <2>2 DEF C!WriteFails
<1>5. ConfigTyped' /\ ConfigTold' /\ ConfigLone' /\ ConfigNamed'
  BY <1>0, <1>1, <1>3, <1>4, ConfigOthers DEF ConfigTyped
<1>6. ConfigHandles'
  BY <1>0, <1>1, <1>2, <1>4, ConfigOthers DEF ConfigHandles, C!At
<1>7. ConfigSole'
  <2>1. CASE ~clash
    <3>1. C!At(c, "write") => hold[c] = "tmp"
      BY <2>1 DEF ConfigSole
    <3>2. UNCHANGED file
      BY <1>4, <3>1
    <3>3. \A d \in Edit : C!At(c, "write") /\ d # c => saves[d].pc # "replace"
      BY <2>1 DEF ConfigSole, C!Writing, C!At
    <3>4. C!Writing' \subseteq C!Writing
      BY <1>0, <1>2, ConfigOthers DEF C!Writing
    <3> QED
      BY <1>0, <1>1, <1>2, <1>4, <2>1, <3>2, <3>3, <3>4, ConfigOthers DEF ConfigSole, C!At
  <2>2. CASE clash
    BY <1>1, <2>2 DEF ConfigSole
  <2> QED
    BY <2>1, <2>2 DEF ConfigTyped
<1>8. ConfigBackedUp' /\ ConfigWriting'
  BY <1>0, <1>1, <1>2, ConfigOthers DEF ConfigBackedUp, ConfigWriting, C!At
<1>9. ConfigLively'
  <2>1. SUFFICES ASSUME \A d \in Edit : alone[d]
                 PROVE  live' = file'.text
    BY <1>1 DEF ConfigLively
  <2>2. UNCHANGED file
    BY <1>4, <2>1 DEF ConfigWriting
  <2>3. ~\E d \in Edit : C!At(d, "sync")
    <3>1. \A d \in Edit : d # c => ~(saves'[d].pc \in {"tmp", "write", "replace", "sync"})
      BY <1>0, <2>1, ConfigOthers
    <3> QED
      BY <1>0, <1>1, <3>1, ConfigOthers DEF C!At
  <2> QED
    BY <1>1, <2>1, <2>2, <2>3 DEF ConfigLively
<1> QED
  BY <1>5, <1>6, <1>7, <1>8, <1>9

LEMMA ConfigSyncInv ==
  ASSUME ConfigSized, ConfigInv, NEW c \in Edit, C!Sync(c)
  PROVE  ConfigInv'
<1> USE DEF ConfigInv
<1>0. ConfigSteps(c)
  BY DEF ConfigSteps
<1>1. /\ UNCHANGED <<file, tmp, backups, hold, mixed, alone, clash>> /\ C!At(c, "sync")
      /\ saves' = [saves EXCEPT ![c].pc = "ended", ![c].result = "ok"]
      /\ live' = saves[c].text
  BY DEF C!Sync, C!End, C!handles, C!histories
<1>2. saves'[c].pc = "ended" /\ saves[c].pc = "sync"
  BY <1>1 DEF ConfigTyped, ConfigCalls, C!At
<1>3. C!Writing' = C!Writing
  BY <1>0, <1>2, ConfigOthers DEF C!Writing
<1>4. ConfigTyped' /\ ConfigTold' /\ ConfigLone' /\ ConfigNamed'
  BY <1>0, <1>1, ConfigOthers DEF ConfigTyped
<1>5. ConfigHandles' /\ ConfigSole'
  BY <1>0, <1>1, <1>2, <1>3, ConfigOthers DEF ConfigHandles, ConfigSole, C!At
<1>6. ConfigBackedUp' /\ ConfigWriting'
  BY <1>0, <1>1, <1>2, ConfigOthers DEF ConfigBackedUp, ConfigWriting, C!At
<1>7. alone[c] => file.text = saves[c].text
  BY <1>1 DEF ConfigWriting
<1>8. ConfigLively'
  BY <1>0, <1>1, <1>7, ConfigOthers DEF ConfigLively
<1> QED
  BY <1>4, <1>5, <1>6, <1>8

LEMMA ConfigRestartInv ==
  ASSUME ConfigSized, ConfigInv, C!Restart
  PROVE  ConfigInv'
<1> USE DEF ConfigInv
<1>1. /\ saves' = [c \in Edit |-> IF c \in C!Active THEN [saves[c] EXCEPT !.pc = "ended"]
                                                    ELSE saves[c]]
      /\ hold' = [c \in Edit |-> "none"] /\ mixed' = {}
      /\ UNCHANGED <<tmp, backups, alone, clash>>
  BY DEF C!Restart, C!histories
<1>2. /\ saves' \in [Edit -> ConfigCalls]
      /\ \A c \in Edit : saves'[c].pc \in {"idle", "ended"}
  BY <1>1 DEF C!Active, ConfigTyped, ConfigCalls, ConfigPcs
<1>3. C!Active' = {} /\ C!Writing' = {}
  BY <1>2 DEF C!Active, C!Writing
<1>4. /\ file' \in ConfigFiles /\ live' \in C!Valid \cup {C!Nothing}
      /\ file.text \in C!Valid => UNCHANGED file /\ live' = file.text
  BY ConfigTexts DEF C!Restart, ConfigTyped, ConfigFiles, ConfigSized
<1>5. ConfigTyped'
  BY <1>1, <1>2, <1>4 DEF ConfigTyped, ConfigHolds
<1>6. ConfigLone' /\ ConfigNamed' /\ ConfigHandles' /\ ConfigTold' /\ ConfigBackedUp'
      /\ ConfigWriting'
  BY <1>1, <1>2, <1>3 DEF ConfigLone, ConfigNamed, ConfigHandles, ConfigTold,
     ConfigBackedUp, ConfigWriting, C!At
<1>7. ConfigSole'
  BY <1>1, <1>2, <1>3, <1>4 DEF ConfigSole, C!At
<1>8. ConfigLively'
  BY <1>1, <1>4 DEF ConfigLively, ConfigTold, ConfigSole
<1> QED
  BY <1>5, <1>6, <1>7, <1>8

LEMMA ConfigNextInv == ASSUME ConfigSized, ConfigInv, [C!Next]_configVars PROVE ConfigInv'
<1>1. ASSUME NEW c \in Edit, C!Save(c) PROVE ConfigInv'
  <2>1. PICK body \in Body, secret \in Secret \cup {C!Empty, C!Mask}, b \in 0 .. file.mtime :
           C!Commit(c, [body |-> body, secret |-> secret], b)
    BY <1>1 DEF C!Save
  <2>2. [body |-> body, secret |-> secret]
           \in [body : Body, secret : Secret \cup {C!Empty, C!Mask}]
    OBVIOUS
  <2> QED
    BY <2>1, <2>2, ConfigCommitInv
<1>2. ASSUME NEW c \in Edit, C!Restore(c) PROVE ConfigInv'
  <2>1. PICK i \in DOMAIN backups : C!Commit(c, backups[i], 0)
    BY <1>2 DEF C!Restore
  <2>2. backups[i] \in C!Text /\ 0 \in 0 .. file.mtime
    BY DEF ConfigInv, ConfigTyped, ConfigFiles, ConfigSized
  <2>3. backups[i] \in [body : Body, secret : Secret \cup {C!Empty, C!Mask}]
    BY <2>2 DEF C!Text
  <2> QED
    BY <2>1, <2>2, <2>3, ConfigCommitInv
<1>3. ASSUME NEW c \in Edit, ConfigSteps(c) PROVE ConfigInv'
  BY <1>3, ConfigStatInv, ConfigBackupInv, ConfigOpenTmpInv, ConfigWriteInv,
     ConfigReplaceInv, ConfigWriteFailsInv, ConfigSyncInv DEF ConfigSteps
<1>4. CASE UNCHANGED configVars
  <2>1. UNCHANGED <<C!Active, C!Writing, C!Newest>>
    BY <1>4 DEF configVars, C!Active, C!Writing, C!Newest
  <2> QED
    BY <1>4, <2>1 DEF configVars, ConfigInv, ConfigTyped, ConfigLone, ConfigNamed,
       ConfigHandles, ConfigTold, ConfigBackedUp, ConfigWriting, ConfigSole, ConfigLively, C!At
<1> QED
  BY <1>1, <1>2, <1>3, <1>4, ConfigRestartInv DEF C!Next, ConfigSteps

LEMMA ConfigKept ==
  ASSUME ConfigSized, ConfigInv
  PROVE  C!TypeOK /\ C!FileRecoverable /\ C!SavedIsLive
<1> USE DEF ConfigInv
<1>1. C!TypeOK
  BY DEF C!TypeOK, ConfigTyped, ConfigCalls, ConfigPcs, ConfigResults, ConfigFiles, ConfigHolds
<1>2. C!FileRecoverable
  BY DEF C!FileRecoverable, ConfigSole, ConfigBackedUp, ConfigWriting, C!At
<1>3. C!SavedIsLive
  BY DEF C!SavedIsLive, ConfigLively, C!Active, C!At
<1> QED
  BY <1>1, <1>2, <1>3

-----------------------------------------------------------------------------
(* The downloads: the chunks under way are the next ones, in order, each once.*)

TransferLoads == [status : {"none", "running", "done", "error", "gone"}, from : 0 .. Chunks]
TransferGens == [pc : {"off", "open", "pump", "wait", "batch", "done"},
                 next : 1 .. Chunks + 1, queued : 0 .. Batch,
                 prod : {"off", "reading", "ok", "failed"}, sent : 0 .. Batch, ack : BOOLEAN]
TransferCons ==
   [pc : {"off", "start", "run", "drain", "gone"}, pos : 0 .. Chunks, append : BOOLEAN]
TransferMsgs == [kind : {"open", "chunk", "eof", "error", "ready", "ack"}, label : Label,
                 item : 0 .. Chunks]
TransferItems == 0 .. Chunks

\* What is under way, and the files, are sequences of what is sent.
TransferStreams == /\ fwd \in Seq(TransferMsgs) /\ back \in Seq(TransferMsgs)
                   /\ pipe \in [Label -> Seq(TransferItems)] /\ part \in Seq(TransferItems)

\* The source: what it has sent of a batch, and that it starts with a call.
TransferBegun(l) == /\ dl[l].status = "none" => serve[l] = "none" /\ gen[l].pc = "off"
                    /\ gen[l].pc = "off" => gen[l] = T!NoGen
                    /\ gen[l].pc # "off" => dl[l].from < gen[l].next - gen[l].queued
                    /\ gen[l].pc \in {"open", "wait"} => gen[l].sent = 0
                    /\ gen[l].pc = "pump" => gen[l].sent < Batch
TransferSourceOK == \A l \in Label : TransferBegun(l)

\* The consumer runs for a stream that was opened, and never ahead of it.
TransferFollows(l) == /\ con[l].pc \in {"start", "run"} => gen[l].pc # "off"
                      /\ con[l].pc = "run" => con[l].pos < gen[l].next - gen[l].queued
TransferConsumerOK == \A l \in Label : TransferFollows(l)

\* A chunk under way is one that was sent and that nobody has written yet.
TransferFresh(l, i) == /\ dl[l].from < i /\ i < gen[l].next - gen[l].queued
                       /\ con[l].pc = "run" => con[l].pos < i
TransferLinkFresh == \A k \in DOMAIN fwd : fwd[k].kind = "chunk"
   => TransferFresh(fwd[k].label, fwd[k].item)
TransferPipeFresh == \A l \in Label : \A k \in DOMAIN pipe[l] :
                pipe[l][k] # T!EofItem => TransferFresh(l, pipe[l][k])

\* The chunks of a download come in their order.
TransferLinkOrder == \A j, k \in DOMAIN fwd :
                /\ j < k /\ fwd[j].kind = "chunk" /\ fwd[k].kind = "chunk"
                /\ fwd[j].label = fwd[k].label
                => fwd[j].item < fwd[k].item
TransferPipeOrder == \A l \in Label : \A j, k \in DOMAIN pipe[l] :
                j < k /\ pipe[l][j] # T!EofItem /\ pipe[l][k] # T!EofItem
                => pipe[l][j] < pipe[l][k]
TransferPipeFirst == \A l \in Label : \A j \in DOMAIN pipe[l], k \in DOMAIN fwd :
                pipe[l][j] # T!EofItem /\ fwd[k].kind = "chunk" /\ fwd[k].label = l
                => pipe[l][j] < fwd[k].item
TransferLinkOpened == \A k \in DOMAIN fwd : gen[fwd[k].label].pc # "off"
TransferOpened == \A l \in Label : gen[l].pc # "off" => gen'[l].pc # "off"
TransferFlow == TransferLinkOpened /\ TransferLinkFresh /\ TransferPipeFresh
   /\ TransferLinkOrder /\ TransferPipeOrder /\ TransferPipeFirst

TransferInv == T!TypeOK /\ TransferStreams /\ TransferSourceOK /\ TransferConsumerOK
   /\ TransferFlow /\ T!FileIsWhole

LEMMA TransferTyping ==
  T!TypeOK <=> /\ dl \in [Label -> TransferLoads]
                  /\ serve \in [Label -> {"none", "asked", "over"}]
               /\ gen \in [Label -> TransferGens] /\ registry \subseteq Label
               /\ broken \subseteq Label
               /\ \A l \in Label : /\ Len(pipe[l]) <= Buff
                                   /\ \A i \in DOMAIN pipe[l] : pipe[l][i] \in TransferItems
               /\ con \in [Label -> TransferCons] /\ faults \in 0 .. MaxFaults
  BY DEF T!TypeOK, TransferLoads, TransferGens, TransferCons, TransferItems

LEMMA TransferTypingNext ==
  T!TypeOK' <=> /\ dl' \in [Label -> TransferLoads]
                   /\ serve' \in [Label -> {"none", "asked", "over"}]
                /\ gen' \in [Label -> TransferGens] /\ registry' \subseteq Label
                /\ broken' \subseteq Label
                /\ \A l \in Label : /\ Len(pipe'[l]) <= Buff
                                    /\ \A i \in DOMAIN pipe'[l] : pipe'[l][i] \in TransferItems
                /\ con' \in [Label -> TransferCons] /\ faults' \in 0 .. MaxFaults
  BY DEF T!TypeOK, TransferLoads, TransferGens, TransferCons, TransferItems

LEMMA TransferFaultFact ==
  ASSUME TransferSized, faults \in 0 .. MaxFaults, T!Fault \/ UNCHANGED faults
  PROVE  faults' \in 0 .. MaxFaults
BY DEF TransferSized, T!Fault

\* A new pipe of the right items.
LEMMA TransferPipeTypes ==
  ASSUME pipe' \in [Label -> Seq(TransferItems)], \A l \in Label : Len(pipe'[l]) <= Buff
  PROVE  \A l \in Label : /\ Len(pipe'[l]) <= Buff
                          /\ \A i \in DOMAIN pipe'[l] : pipe'[l][i] \in TransferItems
<1> TAKE l \in Label
<1>1. pipe'[l] \in Seq(TransferItems)
  OBVIOUS
<1>2. \A i \in DOMAIN pipe'[l] : pipe'[l][i] \in TransferItems
  BY <1>1
<1> QED
  BY <1>2

LEMMA TransferLinkTypes ==
  ASSUME TransferStreams
  PROVE  /\ Len(fwd) \in Nat /\ DOMAIN fwd = 1 .. Len(fwd)
         /\ \A k \in DOMAIN fwd : fwd[k] \in TransferMsgs /\ fwd[k].label \in Label
             /\ fwd[k].item \in TransferItems
<1>1. fwd \in Seq(TransferMsgs)
  BY DEF TransferStreams
<1>2. Len(fwd) \in Nat /\ DOMAIN fwd = 1 .. Len(fwd)
         /\ \A k \in DOMAIN fwd : fwd[k] \in TransferMsgs
  BY <1>1
<1>3. \A m \in TransferMsgs : m.label \in Label /\ m.item \in TransferItems
  BY DEF TransferMsgs, TransferItems
<1> QED
  BY <1>2, <1>3

LEMMA TransferInitInv == ASSUME TransferSized, T!Init PROVE TransferInv
<1>1. T!TypeOK
  <2>1. [status |-> "none", from |-> 0] \in TransferLoads /\ T!NoGen \in TransferGens
           /\ T!NoCon \in TransferCons
    BY DEF TransferSized, TransferLoads, TransferGens, TransferCons, T!NoGen, T!NoCon
  <2>2. dl \in [Label -> TransferLoads] /\ gen \in [Label -> TransferGens]
           /\ con \in [Label -> TransferCons]
    BY <2>1 DEF T!Init
  <2>3. serve \in [Label -> {"none", "asked", "over"}] /\ faults \in 0 .. MaxFaults
    BY DEF T!Init, TransferSized
  <2>4. \A l \in Label : Len(pipe[l]) <= Buff /\ DOMAIN pipe[l] = {}
    BY DEF T!Init, TransferSized
  <2>5. registry \subseteq Label /\ broken \subseteq Label
    BY DEF T!Init
  <2> QED
    BY <2>2, <2>3, <2>4, <2>5, TransferTyping
<1>2. TransferStreams
  BY DEF T!Init, TransferStreams
<1>3. TransferSourceOK
  BY DEF T!Init, TransferSourceOK, TransferBegun, T!NoGen
<1>4. TransferFlow
  <2>1. DOMAIN fwd = {} /\ \A l \in Label : DOMAIN pipe[l] = {}
    BY DEF T!Init
  <2> QED
    BY <2>1 DEF TransferFlow, TransferLinkOpened, TransferLinkFresh, TransferPipeFresh,
       TransferLinkOrder, TransferPipeOrder, TransferPipeFirst
<1>5. T!FileIsWhole
  BY DEF T!Init, T!FileIsWhole
<1>6. TransferConsumerOK
  BY DEF T!Init, TransferConsumerOK, TransferFollows, T!NoCon
<1> QED
  BY <1>1, <1>2, <1>3, <1>4, <1>5, <1>6 DEF TransferInv

-----------------------------------------------------------------------------
\* The flow of the chunks, by what a step does to the link and to the pipes.

\* Nothing that carries a chunk comes or goes; the link may lose what it has.
LEMMA TransferFlowKept ==
  ASSUME TransferInv, \A l \in Label,
         i \in TransferItems : TransferFresh(l, i) => TransferFresh(l, i)', UNCHANGED pipe,
         TransferOpened,
         \/ fwd' = fwd \/ fwd' = <<>>
         \/ \E m \in TransferMsgs : m.kind # "chunk" /\ gen'[m.label].pc # "off"
             /\ fwd' = Append(fwd, m)
  PROVE  TransferFlow'
<1> USE DEF TransferInv, TransferFlow
<1>1. TransferPipeFresh' /\ TransferPipeOrder'
  BY TransferTyping DEF TransferPipeFresh, TransferPipeOrder
<1>2. CASE fwd' = fwd
  <2>1. \A k \in DOMAIN fwd : fwd[k].label \in Label /\ fwd[k].item \in TransferItems
    BY TransferLinkTypes
  <2> QED
    BY <1>1, <1>2, <2>1 DEF TransferLinkOpened, TransferOpened, TransferLinkFresh,
       TransferLinkOrder, TransferPipeFirst
<1>3. CASE fwd' = <<>>
  BY <1>1, <1>3 DEF TransferLinkOpened, TransferLinkFresh, TransferLinkOrder,
     TransferPipeFirst
<1>4. CASE \E m \in TransferMsgs : m.kind # "chunk" /\ gen'[m.label].pc # "off"
         /\ fwd' = Append(fwd, m)
  <2>1. PICK m \in TransferMsgs : m.kind # "chunk" /\ gen'[m.label].pc # "off"
           /\ fwd' = Append(fwd, m)
    BY <1>4
  <2>2. /\ DOMAIN fwd' = 1 .. Len(fwd) + 1 /\ fwd'[Len(fwd) + 1] = m
        /\ \A k \in 1 .. Len(fwd) : fwd'[k] = fwd[k] /\ fwd[k] \in TransferMsgs
        /\ DOMAIN fwd = 1 .. Len(fwd) /\ Len(fwd) \in Nat
    BY <2>1, TransferLinkTypes DEF TransferStreams
  <2>3. \A k \in DOMAIN fwd' : fwd'[k].kind = "chunk" => k \in DOMAIN fwd
           /\ fwd'[k] = fwd[k]
    <3>1. \A k \in DOMAIN fwd' : k \in 1 .. Len(fwd) \/ k = Len(fwd) + 1
      BY <2>2
    <3> QED
      BY <2>1, <2>2, <3>1
  <2>4. \A k \in DOMAIN fwd : fwd[k].label \in Label /\ fwd[k].item \in TransferItems
    BY TransferLinkTypes
  <2>5. TransferLinkOpened'
    <3>1. \A k \in DOMAIN fwd' : k \in 1 .. Len(fwd) \/ k = Len(fwd) + 1
      BY <2>2
    <3> QED
      BY <2>1, <2>2, <2>4, <3>1 DEF TransferLinkOpened, TransferOpened
  <2> QED
    BY <1>1, <2>3, <2>4, <2>5 DEF TransferLinkFresh, TransferLinkOrder, TransferPipeFirst
<1> QED
  BY <1>2, <1>3, <1>4

\* The consumer takes the first item of its pipe.
LEMMA TransferFlowDrained ==
  ASSUME TransferSized, TransferInv, NEW l \in Label, pipe[l] # <<>>,
         pipe' = [pipe EXCEPT ![l] = Tail(@)],
         UNCHANGED fwd, TransferOpened,
         \A m \in Label, i \in TransferItems :
            TransferFresh(m, i) /\ (m = l /\ Head(pipe[l]) # T!EofItem => Head(pipe[l]) < i)
            => TransferFresh(m, i)'
  PROVE  /\ TransferFlow' /\ pipe' \in [Label -> Seq(TransferItems)]
         /\ \A m \in Label : Len(pipe'[m]) <= Buff
<1> USE DEF TransferInv, TransferFlow
<1>1. pipe[l] \in Seq(TransferItems) /\ Len(pipe[l]) \in Nat /\ Len(pipe[l]) > 0
  BY DEF TransferStreams
<1>2. /\ Tail(pipe[l]) \in Seq(TransferItems) /\ Len(Tail(pipe[l])) = Len(pipe[l]) - 1
      /\ \A k \in DOMAIN Tail(pipe[l]) : k + 1 \in DOMAIN pipe[l]
          /\ Tail(pipe[l])[k] = pipe[l][k + 1]
      /\ \A k \in DOMAIN Tail(pipe[l]) : k \in Nat \ {0}
      /\ Head(pipe[l]) = pipe[l][1] /\ 1 \in DOMAIN pipe[l]
  BY <1>1
<1>3. pipe' \in [Label -> Seq(TransferItems)]
  BY <1>2 DEF TransferStreams
<1>4. \A m \in Label \ {l} : pipe'[m] = pipe[m]
  BY DEF TransferStreams
<1>5. pipe'[l] = Tail(pipe[l])
  BY DEF TransferStreams
<1>6. \A m \in Label : \A k \in DOMAIN pipe[m] : pipe[m][k] \in TransferItems
  BY TransferTyping
\* An item of the pipe stood one place further on in the pipe of l.
<1>7. \A k \in DOMAIN pipe'[l] : /\ k + 1 \in DOMAIN pipe[l] /\ pipe'[l][k] = pipe[l][k + 1]
                                 /\ k \in Nat \ {0}
  BY <1>2, <1>5
<1>8. TransferPipeFresh'
  <2> SUFFICES ASSUME NEW m \in Label, NEW k \in DOMAIN pipe'[m], pipe'[m][k] # T!EofItem
               PROVE  \E i \in TransferItems : i = pipe'[m][k] /\ TransferFresh(m, i)'
    BY DEF TransferPipeFresh, TransferFresh
  <2>1. CASE m = l
    <3>1. pipe'[m][k] = pipe[l][k + 1] /\ k + 1 \in DOMAIN pipe[l] /\ 1 < k + 1
      BY <1>7, <2>1
    <3>2. pipe[l][k + 1] \in TransferItems /\ TransferFresh(l, pipe[l][k + 1])
      BY <1>6, <3>1 DEF TransferPipeFresh
    <3>3. Head(pipe[l]) # T!EofItem => Head(pipe[l]) < pipe[l][k + 1]
      BY <1>2, <3>1 DEF TransferPipeOrder
    <3>4. PICK i \in TransferItems : i = pipe[l][k + 1]
      BY <3>2
    <3>5. TransferFresh(l, i)'
      BY <3>2, <3>3, <3>4
    <3> QED
      BY <2>1, <3>1, <3>4, <3>5
  <2>2. CASE m # l
    <3>1. pipe'[m][k] = pipe[m][k] /\ k \in DOMAIN pipe[m]
      BY <1>4, <2>2
    <3>2. PICK i \in TransferItems : i = pipe[m][k]
      BY <1>6, <3>1
    <3>3. TransferFresh(m, i)
      BY <3>1, <3>2 DEF TransferPipeFresh
    <3>4. TransferFresh(m, i)'
      BY <2>2, <3>3
    <3> QED
      BY <3>1, <3>2, <3>4
  <2> QED
    BY <2>1, <2>2
<1>9. TransferLinkFresh'
  <2> SUFFICES ASSUME NEW k \in DOMAIN fwd, fwd[k].kind = "chunk"
               PROVE  \E m \in Label, i \in TransferItems : m = fwd[k].label
                        /\ i = fwd[k].item /\ TransferFresh(m, i)'
    BY DEF TransferLinkFresh, TransferFresh
  <2>1. PICK m \in Label, i \in TransferItems : m = fwd[k].label /\ i = fwd[k].item
    BY TransferLinkTypes
  <2>2. TransferFresh(m, i) /\ (m = l /\ Head(pipe[l]) # T!EofItem => Head(pipe[l]) < i)
    BY <1>2, <2>1 DEF TransferLinkFresh, TransferPipeFirst
  <2> QED
    BY <2>1, <2>2
<1>10. TransferLinkOrder' /\ TransferLinkOpened'
  BY TransferLinkTypes DEF TransferLinkOrder, TransferLinkOpened, TransferOpened
<1>11. TransferPipeOrder'
  <2> SUFFICES ASSUME NEW m \in Label, NEW j \in DOMAIN pipe'[m], NEW k \in DOMAIN pipe'[m],
                      j < k, pipe'[m][j] # T!EofItem, pipe'[m][k] # T!EofItem
               PROVE  pipe'[m][j] < pipe'[m][k]
    BY DEF TransferPipeOrder
  <2>1. CASE m = l
    <3>1. j + 1 < k + 1
      BY <1>7, <2>1
    <3> QED
      BY <1>7, <2>1, <3>1 DEF TransferPipeOrder
  <2>2. CASE m # l
    BY <1>4, <2>2 DEF TransferPipeOrder
  <2> QED
    BY <2>1, <2>2
<1>12. TransferPipeFirst'
  <2> SUFFICES ASSUME NEW m \in Label, NEW j \in DOMAIN pipe'[m], NEW k \in DOMAIN fwd,
                      pipe'[m][j] # T!EofItem, fwd[k].kind = "chunk", fwd[k].label = m
               PROVE  pipe'[m][j] < fwd[k].item
    BY DEF TransferPipeFirst
  <2> QED
    BY <1>4, <1>7 DEF TransferPipeFirst
<1>13. \A m \in Label : Len(pipe'[m]) <= Buff
  <2>1. \A m \in Label : Len(pipe[m]) <= Buff /\ Len(pipe[m]) \in Nat
    BY TransferTyping DEF TransferStreams
  <2> QED
    BY <1>2, <1>4, <1>5, <2>1 DEF TransferSized
<1> QED
  BY <1>3, <1>8, <1>9, <1>10, <1>11, <1>12, <1>13

\* The reader takes the first packet; what it puts into a pipe, if anything, is
\* the sentinel or the chunk of that packet.
LEMMA TransferFlowTaken ==
  ASSUME TransferSized, TransferInv, fwd # <<>>, fwd' = Tail(fwd), TransferOpened,
         \A m \in Label, i \in TransferItems : TransferFresh(m, i) => TransferFresh(m, i)',
         \/ UNCHANGED pipe
         \/ \E l \in Label, i \in TransferItems :
              /\ pipe' = [pipe EXCEPT ![l] = Append(@, i)] /\ Len(pipe[l]) < Buff
              /\ i # T!EofItem => Head(fwd).kind = "chunk" /\ Head(fwd).label = l
                                /\ Head(fwd).item = i
  PROVE  /\ TransferFlow' /\ pipe' \in [Label -> Seq(TransferItems)]
            /\ fwd' \in Seq(TransferMsgs)
         /\ \A l \in Label : Len(pipe'[l]) <= Buff
<1> USE DEF TransferInv, TransferFlow
<1>1. /\ Tail(fwd) \in Seq(TransferMsgs) /\ Head(fwd) = fwd[1] /\ 1 \in DOMAIN fwd
      /\ \A k \in DOMAIN Tail(fwd) : /\ k + 1 \in DOMAIN fwd /\ Tail(fwd)[k] = fwd[k + 1]
                                     /\ k \in Nat \ {0}
  BY DEF TransferStreams
<1>2. \A k \in DOMAIN fwd' : /\ k + 1 \in DOMAIN fwd /\ fwd'[k] = fwd[k + 1]
                                /\ k \in Nat \ {0}
                             /\ fwd'[k] \in TransferMsgs
  BY <1>1 DEF TransferStreams
<1>3. TransferLinkFresh'
  <2> SUFFICES ASSUME NEW k \in DOMAIN fwd', fwd'[k].kind = "chunk"
               PROVE  \E m \in Label, i \in TransferItems : m = fwd'[k].label
                        /\ i = fwd'[k].item
                                                    /\ TransferFresh(m, i)'
    BY DEF TransferLinkFresh, TransferFresh
  <2>1. PICK m \in Label, i \in TransferItems : m = fwd'[k].label /\ i = fwd'[k].item
    BY <1>2 DEF TransferMsgs, TransferItems
  <2>2. TransferFresh(m, i)
    BY <1>2, <2>1 DEF TransferLinkFresh
  <2> QED
    BY <2>1, <2>2
<1>7. TransferLinkOpened'
  BY <1>2, TransferLinkTypes DEF TransferLinkOpened, TransferOpened
<1>4. TransferLinkOrder'
  <2> SUFFICES ASSUME NEW j \in DOMAIN fwd', NEW k \in DOMAIN fwd', j < k,
                      fwd'[j].kind = "chunk", fwd'[k].kind = "chunk", fwd'[j].label = fwd'[k].label
               PROVE  fwd'[j].item < fwd'[k].item
    BY DEF TransferLinkOrder
  <2>1. j + 1 < k + 1
    BY <1>2
  <2> QED
    BY <1>2, <2>1 DEF TransferLinkOrder
<1>5. CASE UNCHANGED pipe
  <2>1. TransferPipeFresh' /\ TransferPipeOrder'
    BY <1>5, TransferTyping DEF TransferPipeFresh, TransferPipeOrder
  <2>2. TransferPipeFirst'
    BY <1>2, <1>5 DEF TransferPipeFirst
  <2>3. \A l \in Label : Len(pipe'[l]) <= Buff
    BY <1>5, TransferTyping
  <2> QED
    BY <1>1, <1>3, <1>4, <1>5, <1>7, <2>1, <2>2, <2>3 DEF TransferStreams
<1>6. CASE \E l \in Label, i \in TransferItems :
              /\ pipe' = [pipe EXCEPT ![l] = Append(@, i)] /\ Len(pipe[l]) < Buff
              /\ i # T!EofItem => Head(fwd).kind = "chunk" /\ Head(fwd).label = l
                                /\ Head(fwd).item = i
  <2>1. PICK l \in Label, i \in TransferItems :
              /\ pipe' = [pipe EXCEPT ![l] = Append(@, i)] /\ Len(pipe[l]) < Buff
              /\ i # T!EofItem => Head(fwd).kind = "chunk" /\ Head(fwd).label = l
                                /\ Head(fwd).item = i
    BY <1>6
  <2>2. pipe[l] \in Seq(TransferItems) /\ Len(pipe[l]) \in Nat
    BY DEF TransferStreams
  <2>3. /\ pipe' \in [Label -> Seq(TransferItems)] /\ pipe'[l] = Append(pipe[l], i)
        /\ \A m \in Label \ {l} : pipe'[m] = pipe[m]
    BY <2>1, <2>2 DEF TransferStreams
  <2>4. /\ DOMAIN pipe'[l] = 1 .. Len(pipe[l]) + 1 /\ pipe'[l][Len(pipe[l]) + 1] = i
        /\ \A k \in 1 .. Len(pipe[l]) : pipe'[l][k] = pipe[l][k]
        /\ DOMAIN pipe[l] = 1 .. Len(pipe[l]) /\ Len(pipe'[l]) = Len(pipe[l]) + 1
    BY <2>2, <2>3
  <2>5. \A m \in Label : \A k \in DOMAIN pipe'[m] :
           \/ k \in DOMAIN pipe[m] /\ pipe'[m][k] = pipe[m][k]
           \/ m = l /\ k = Len(pipe[l]) + 1 /\ pipe'[m][k] = i
    <3> SUFFICES ASSUME NEW m \in Label, NEW k \in DOMAIN pipe'[m]
                 PROVE  \/ k \in DOMAIN pipe[m] /\ pipe'[m][k] = pipe[m][k]
                        \/ m = l /\ k = Len(pipe[l]) + 1 /\ pipe'[m][k] = i
      OBVIOUS
    <3>1. CASE m = l
      <4>1. k \in 1 .. Len(pipe[l]) \/ k = Len(pipe[l]) + 1
        BY <2>2, <2>4, <3>1
      <4> QED
        BY <2>4, <3>1, <4>1
    <3>2. CASE m # l
      BY <2>3, <3>2
    <3> QED
      BY <3>1, <3>2
  <2>6. \A m \in Label : \A k \in DOMAIN pipe[m] : pipe[m][k] \in TransferItems
    BY TransferTyping
  <2>7. TransferPipeFresh'
    <3> SUFFICES ASSUME NEW m \in Label, NEW k \in DOMAIN pipe'[m], pipe'[m][k] # T!EofItem
                 PROVE  \E n \in TransferItems : n = pipe'[m][k] /\ TransferFresh(m, n)'
      BY DEF TransferPipeFresh, TransferFresh
    <3>1. CASE k \in DOMAIN pipe[m] /\ pipe'[m][k] = pipe[m][k]
      <4>1. PICK n \in TransferItems : n = pipe[m][k]
        BY <2>6, <3>1
      <4>2. TransferFresh(m, n)
        BY <3>1, <4>1 DEF TransferPipeFresh
      <4> QED
        BY <3>1, <4>1, <4>2
    <3>2. CASE m = l /\ pipe'[m][k] = i
      <4>1. TransferFresh(l, i)
        BY <1>1, <2>1, <3>2 DEF TransferLinkFresh
      <4> QED
        BY <3>2, <4>1
    <3> QED
      BY <2>5, <3>1, <3>2
  <2>8. TransferPipeOrder'
    <3> SUFFICES ASSUME NEW m \in Label, NEW j \in DOMAIN pipe'[m],
                        NEW k \in DOMAIN pipe'[m],
                        j < k, pipe'[m][j] # T!EofItem, pipe'[m][k] # T!EofItem
                 PROVE  pipe'[m][j] < pipe'[m][k]
      BY DEF TransferPipeOrder
    <3>1. CASE m # l
      BY <2>3, <3>1 DEF TransferPipeOrder
    <3>2. CASE m = l /\ k \in DOMAIN pipe[l]
      <4>1. j \in DOMAIN pipe[l]
        BY <2>2, <2>4, <3>2
      <4> QED
        BY <2>4, <3>2, <4>1 DEF TransferPipeOrder
    <3>3. CASE m = l /\ k \notin DOMAIN pipe[l]
      <4>1. k = Len(pipe[l]) + 1 /\ pipe'[m][k] = i /\ j \in DOMAIN pipe[l]
        BY <2>2, <2>4, <3>3, SMTT(20)
      <4>2. Head(fwd).kind = "chunk" /\ Head(fwd).label = l /\ Head(fwd).item = i
        BY <2>1, <4>1
      <4>3. pipe[l][j] < fwd[1].item
        BY <1>1, <2>4, <3>3, <4>1, <4>2 DEF TransferPipeFirst
      <4> QED
        BY <1>1, <2>4, <3>3, <4>1, <4>2, <4>3
    <3> QED
      BY <3>1, <3>2, <3>3
  <2>9. TransferPipeFirst'
    <3> SUFFICES ASSUME NEW m \in Label, NEW j \in DOMAIN pipe'[m], NEW k \in DOMAIN fwd',
                        pipe'[m][j] # T!EofItem, fwd'[k].kind = "chunk", fwd'[k].label = m
                 PROVE  pipe'[m][j] < fwd'[k].item
      BY DEF TransferPipeFirst
    <3>1. k + 1 \in DOMAIN fwd /\ fwd'[k] = fwd[k + 1] /\ 1 < k + 1
      BY <1>2
    <3>2. CASE j \in DOMAIN pipe[m] /\ pipe'[m][j] = pipe[m][j]
      BY <3>1, <3>2 DEF TransferPipeFirst
    <3>3. CASE m = l /\ pipe'[m][j] = i
      <4>1. Head(fwd).kind = "chunk" /\ Head(fwd).label = l /\ Head(fwd).item = i
        BY <2>1, <3>3
      <4> QED
        BY <1>1, <3>1, <3>3, <4>1 DEF TransferLinkOrder
    <3> QED
      BY <2>5, <3>2, <3>3
  <2>10. \A m \in Label : Len(pipe'[m]) <= Buff
    <3>1. \A m \in Label : Len(pipe[m]) <= Buff
      BY TransferTyping
    <3>2. Len(pipe'[l]) <= Buff
      BY <2>1, <2>2, <2>4 DEF TransferSized
    <3> QED
      BY <2>3, <3>1, <3>2
  <2> QED
    BY <1>1, <1>3, <1>4, <1>7, <2>3, <2>7, <2>8, <2>9, <2>10
<1> QED
  BY <1>5, <1>6

\* The pump sends the oldest chunk it has.
LEMMA TransferFlowPumped ==
  ASSUME TransferSized, TransferInv, NEW l \in Label, NEW i \in TransferItems,
         UNCHANGED <<pipe, dl, con>>,
         i = gen[l].next - gen[l].queued, dl[l].from < i,
         con[l].pc = "run" => con[l].pos < i,
         gen' \in [Label -> TransferGens], gen'[l].next - gen'[l].queued = i + 1, gen'[l].pc # "off",
         \A m \in Label \ {l} : gen'[m] = gen[m],
         fwd' = Append(fwd, T!Msg("chunk", l, i))
  PROVE  TransferFlow' /\ fwd' \in Seq(TransferMsgs)
<1> USE DEF TransferInv, TransferFlow
<1> DEFINE m == T!Msg("chunk", l, i)
<1>1. m \in TransferMsgs /\ m.kind = "chunk" /\ m.label = l /\ m.item = i
  BY DEF T!Msg, TransferMsgs, TransferItems
<1>2. \A k \in Label, n \in TransferItems : TransferFresh(k, n) => TransferFresh(k, n)'
         /\ (k = l => n < i)
  <2> SUFFICES ASSUME NEW k \in Label, NEW n \in TransferItems, TransferFresh(k, n)
               PROVE  TransferFresh(k, n)' /\ (k = l => n < i)
    OBVIOUS
  <2>1. CASE k = l
    <3>1. n < i /\ n \in Int /\ i \in Int
      BY <2>1 DEF TransferFresh, TransferItems, TransferSized
    <3>2. n < gen'[k].next - gen'[k].queued
      BY <2>1, <3>1
    <3> QED
      BY <2>1, <3>1, <3>2 DEF TransferFresh
  <2>2. CASE k # l
    BY <2>2 DEF TransferFresh
  <2> QED
    BY <2>1, <2>2
<1>3. TransferFresh(l, i)'
  BY DEF TransferFresh, TransferItems, TransferSized
<1> HIDE DEF m
<1>4. /\ DOMAIN fwd' = 1 .. Len(fwd) + 1 /\ fwd'[Len(fwd) + 1] = m /\ Len(fwd) \in Nat
      /\ \A k \in 1 .. Len(fwd) : fwd'[k] = fwd[k] /\ k \in DOMAIN fwd
      /\ fwd' \in Seq(TransferMsgs)
  BY <1>1, TransferLinkTypes DEF TransferStreams, m
<1>5. \A k \in DOMAIN fwd' : \/ k \in DOMAIN fwd /\ fwd'[k] = fwd[k]
                             \/ k = Len(fwd) + 1 /\ fwd'[k] = m
  <2>1. \A k \in DOMAIN fwd' : k \in 1 .. Len(fwd) \/ k = Len(fwd) + 1
    BY <1>4
  <2> QED
    BY <1>4, <2>1
<1>6. \A k \in DOMAIN fwd : k \in Nat /\ k < Len(fwd) + 1
  BY TransferLinkTypes
<1>7. TransferLinkFresh'
  <2> SUFFICES ASSUME NEW k \in DOMAIN fwd', fwd'[k].kind = "chunk"
               PROVE  \E n \in Label, x \in TransferItems : n = fwd'[k].label
                        /\ x = fwd'[k].item
                                                    /\ TransferFresh(n, x)'
    BY DEF TransferLinkFresh, TransferFresh
  <2>1. CASE k \in DOMAIN fwd /\ fwd'[k] = fwd[k]
    <3>1. PICK n \in Label, x \in TransferItems : n = fwd[k].label /\ x = fwd[k].item
      BY <2>1, TransferLinkTypes
    <3>2. TransferFresh(n, x)
      BY <2>1, <3>1 DEF TransferLinkFresh
    <3> QED
      BY <1>2, <2>1, <3>1, <3>2
  <2>2. CASE fwd'[k] = m
    BY <1>1, <1>3, <2>2
  <2> QED
    BY <1>5, <2>1, <2>2
<1>8. TransferLinkOrder'
  <2> SUFFICES ASSUME NEW j \in DOMAIN fwd', NEW k \in DOMAIN fwd', j < k,
                      fwd'[j].kind = "chunk", fwd'[k].kind = "chunk", fwd'[j].label = fwd'[k].label
               PROVE  fwd'[j].item < fwd'[k].item
    BY DEF TransferLinkOrder
  <2>1. CASE k \in DOMAIN fwd /\ fwd'[k] = fwd[k]
    <3>1. j \in DOMAIN fwd /\ fwd'[j] = fwd[j]
      BY <1>4, <1>5, <1>6, <2>1
    <3> QED
      BY <2>1, <3>1 DEF TransferLinkOrder
  <2>2. CASE k = Len(fwd) + 1 /\ fwd'[k] = m
    <3>1. j \in DOMAIN fwd /\ fwd'[j] = fwd[j]
      BY <1>4, <1>5, <2>2
    <3>2. fwd[j].label = l /\ fwd[j].item \in TransferItems
      BY <1>1, <2>2, <3>1, TransferLinkTypes
    <3>3. TransferFresh(l, fwd[j].item)
      BY <3>1, <3>2 DEF TransferLinkFresh
    <3> QED
      BY <1>1, <1>2, <2>2, <3>1, <3>2, <3>3
  <2> QED
    BY <1>5, <2>1, <2>2
<1>9. TransferPipeFresh' /\ TransferPipeOrder'
  <2>1. \A n \in Label : \A k \in DOMAIN pipe[n] : pipe[n][k] \in TransferItems
    BY TransferTyping
  <2>2. TransferPipeOrder'
    BY DEF TransferPipeOrder
  <2>3. TransferPipeFresh'
    <3> SUFFICES ASSUME NEW n \in Label, NEW k \in DOMAIN pipe[n], pipe[n][k] # T!EofItem
                 PROVE  \E x \in TransferItems : x = pipe[n][k] /\ TransferFresh(n, x)'
      BY DEF TransferPipeFresh, TransferFresh
    <3>1. PICK x \in TransferItems : x = pipe[n][k]
      BY <2>1
    <3>2. TransferFresh(n, x)
      BY <3>1 DEF TransferPipeFresh
    <3> QED
      BY <1>2, <3>1, <3>2
  <2> QED
    BY <2>2, <2>3
<1>10. TransferPipeFirst'
  <2> SUFFICES ASSUME NEW n \in Label, NEW j \in DOMAIN pipe[n], NEW k \in DOMAIN fwd',
                      pipe[n][j] # T!EofItem, fwd'[k].kind = "chunk", fwd'[k].label = n
               PROVE  pipe[n][j] < fwd'[k].item
    BY DEF TransferPipeFirst
  <2>1. CASE k \in DOMAIN fwd /\ fwd'[k] = fwd[k]
    BY <2>1 DEF TransferPipeFirst
  <2>2. CASE fwd'[k] = m
    <3>1. n = l /\ TransferFresh(l, pipe[n][j]) /\ pipe[n][j] \in TransferItems
      BY <1>1, <2>2, TransferTyping DEF TransferPipeFresh
    <3> QED
      BY <1>1, <1>2, <2>2, <3>1
  <2> QED
    BY <1>5, <2>1, <2>2
<1>11. TransferLinkOpened'
  BY <1>1, <1>5, TransferLinkTypes DEF TransferLinkOpened
<1> QED
  BY <1>4, <1>7, <1>8, <1>9, <1>10, <1>11

\* What is under way stays what was sent and is not written.
LEMMA TransferFreshKept ==
  ASSUME TransferSized, TransferInv, dl' \in [Label -> TransferLoads],
         gen' \in [Label -> TransferGens], con' \in [Label -> TransferCons],
         \A l \in Label : dl'[l].from = dl[l].from,
         \A l \in Label : gen[l].next - gen[l].queued <= gen'[l].next - gen'[l].queued,
         \A l \in Label : con'[l].pc = "run" =>
            \/ con[l].pc = "run" /\ con'[l].pos = con[l].pos
            \/ con'[l].pos = dl[l].from
  PROVE  \A l \in Label, i \in TransferItems : TransferFresh(l, i) => TransferFresh(l, i)'
<1> SUFFICES ASSUME NEW l \in Label, NEW i \in TransferItems, TransferFresh(l, i)
             PROVE TransferFresh(l, i)'
  OBVIOUS
<1>1. /\ gen[l].next \in Nat /\ gen[l].queued \in Nat /\ gen'[l].next \in Nat
      /\ gen'[l].queued \in Nat /\ i \in Nat
  BY TransferTyping DEF TransferSized, TransferInv, TransferGens, TransferItems
<1> QED
  BY <1>1 DEF TransferFresh

LEMMA TransferConsumerKept ==
  ASSUME TransferSized, TransferInv, TransferOpened,
         \A l \in Label : dl'[l].from = dl[l].from,
         \A l \in Label : gen[l].next - gen[l].queued <= gen'[l].next - gen'[l].queued,
         \A l \in Label : gen'[l].next \in Nat /\ gen'[l].queued \in Nat
            /\ con'[l].pos \in Nat,
         \A l \in Label : con'[l].pc \in {"start", "run"} =>
            con[l].pc \in {"start", "run"} \/ gen[l].pc # "off",
         \A l \in Label : con'[l].pc = "run" =>
            \/ con[l].pc = "run" /\ con'[l].pos = con[l].pos
            \/ con[l].pc # "off" /\ con'[l].pos < gen[l].next - gen[l].queued
  PROVE  TransferConsumerOK'
<1> SUFFICES ASSUME NEW l \in Label PROVE TransferFollows(l)'
  BY DEF TransferConsumerOK
<1>1. TransferFollows(l)
  BY DEF TransferInv, TransferConsumerOK
<1>2. /\ gen[l].next \in Nat /\ gen[l].queued \in Nat /\ con[l].pos \in Nat
      /\ gen'[l].next \in Nat /\ gen'[l].queued \in Nat /\ con'[l].pos \in Nat
  BY TransferTyping DEF TransferSized, TransferInv, TransferGens, TransferCons
<1>3. con'[l].pc \in {"start", "run"} => gen'[l].pc # "off"
  BY <1>1 DEF TransferFollows, TransferOpened
<1>4. con'[l].pc = "run" => con'[l].pos < gen'[l].next - gen'[l].queued
  <2> SUFFICES ASSUME con'[l].pc = "run" PROVE con'[l].pos < gen'[l].next - gen'[l].queued
    OBVIOUS
  <2>1. con'[l].pos < gen[l].next - gen[l].queued
    BY <1>1 DEF TransferFollows
  <2> QED
    BY <1>2, <2>1
<1> QED
  BY <1>3, <1>4 DEF TransferFollows

LEMMA TransferSourceKept ==
  ASSUME TransferInv, UNCHANGED gen, \A l \in Label : dl'[l].from = dl[l].from,
         \A l \in Label : dl'[l].status = "none" => dl[l].status = "none"
            /\ serve'[l] = serve[l]
  PROVE  TransferSourceOK'
BY DEF TransferInv, TransferSourceOK, TransferBegun

LEMMA TransferSourceOne ==
  ASSUME TransferInv, NEW l \in Label, UNCHANGED <<dl, serve>>,
         \A m \in Label \ {l} : gen'[m] = gen[m],
         dl[l].status # "none",
         gen'[l].pc # "off", dl[l].from < gen'[l].next - gen'[l].queued,
         gen'[l].pc \in {"open", "wait"} => gen'[l].sent = 0,
         gen'[l].pc = "pump" => gen'[l].sent < Batch
  PROVE  TransferSourceOK'
<1>1. TransferBegun(l)'
  BY DEF TransferBegun
<1>2. \A m \in Label \ {l} : TransferBegun(m)'
  BY DEF TransferInv, TransferSourceOK, TransferBegun
<1> QED
  BY <1>1, <1>2 DEF TransferSourceOK

\* Numbers and the parts of records.
LEMMA TransferFields ==
  ASSUME TransferSized, TransferInv, NEW l \in Label
  PROVE  /\ dl[l] \in TransferLoads /\ gen[l] \in TransferGens /\ con[l] \in TransferCons
         /\ dl[l].from \in 0 .. Chunks /\ dl[l].from \in Nat
         /\ gen[l].next \in 1 .. Chunks + 1 /\ gen[l].next \in Nat
         /\ gen[l].queued \in 0 .. Batch /\ gen[l].queued \in Nat
         /\ gen[l].sent \in 0 .. Batch /\ gen[l].sent \in Nat
         /\ con[l].pos \in 0 .. Chunks /\ con[l].pos \in Nat
         /\ gen[l].pc # "off" => dl[l].status # "none"
         /\ gen[l].pc = "off" => gen[l].prod = "off"
<1>1. dl[l] \in TransferLoads /\ gen[l] \in TransferGens /\ con[l] \in TransferCons
  BY TransferTyping DEF TransferInv
<1>2. TransferBegun(l)
  BY DEF TransferInv, TransferSourceOK
<1>3. /\ dl[l].from \in 0 .. Chunks /\ gen[l].next \in 1 .. Chunks + 1
      /\ gen[l].queued \in 0 .. Batch /\ gen[l].sent \in 0 .. Batch
      /\ con[l].pos \in 0 .. Chunks
  BY <1>1 DEF TransferLoads, TransferGens, TransferCons
<1>4. gen[l].pc = "off" => gen[l].prod = "off"
  BY <1>2 DEF TransferBegun, T!NoGen
<1>5. gen[l].pc # "off" => dl[l].status # "none"
  BY <1>2 DEF TransferBegun
<1> QED
  BY <1>1, <1>3, <1>4, <1>5 DEF TransferSized

\* The files stay as they are, and no download is done that was not.
LEMMA TransferFileKept ==
  ASSUME TransferInv, UNCHANGED final,
         \A l \in Label : dl'[l].status = "done" => dl[l].status = "done" \/ final = T!Whole
  PROVE  T!FileIsWhole'
BY DEF TransferInv, T!FileIsWhole, T!Whole

-----------------------------------------------------------------------------
LEMMA TransferDownloadInv ==
  ASSUME TransferSized, TransferInv, NEW l \in Label, NEW resume \in BOOLEAN,
         T!Download(l, resume)
  PROVE  TransferInv'
<1> USE DEF TransferInv
<1>1. /\ dl[l].status = "none" /\ gen[l].pc = "off" /\ serve[l] = "none"
      /\ UNCHANGED <<gen, fwd, back, registry, pipe, broken, con, part, final, faults>>
  BY DEF T!Download, T!linkVars, T!inVars, T!diskVars, TransferSourceOK, TransferBegun
<1>2. CASE final = T!Whole
  <2>1. dl' = [dl EXCEPT ![l].status = "done"] /\ UNCHANGED serve
    BY <1>2 DEF T!Download, T!Status
  <2>2. [dl[l] EXCEPT !.status = "done"] \in TransferLoads
    BY TransferTyping DEF TransferLoads
  <2>3. dl' \in [Label -> TransferLoads]
    BY <2>1, <2>2, TransferTyping
  <2>4. T!TypeOK' /\ TransferStreams'
    BY <1>1, <2>1, <2>3, TransferTyping, TransferTypingNext DEF TransferStreams
  <2>5. \A m \in Label : (dl'[m].from = dl[m].from /\ dl'[m].status # "none")
           \/ dl'[m] = dl[m]
    BY <2>1, TransferTyping DEF TransferLoads
  <2>6. TransferSourceOK'
    BY <1>1, <2>1, <2>5, TransferSourceKept
  <2>7. \A m \in Label, i \in TransferItems : TransferFresh(m, i) => TransferFresh(m, i)'
    BY <1>1, <2>5 DEF TransferFresh
  <2>8. TransferFlow'
    BY <1>1, <2>7, TransferFlowKept DEF TransferOpened
  <2>9. T!FileIsWhole'
    BY <1>1, <1>2, TransferFileKept
  <2> QED
    BY <1>1, <2>4, <2>6, <2>8, <2>9 DEF TransferConsumerOK, TransferFollows
<1>3. CASE final # T!Whole
  <2>1. PICK from \in TransferItems : /\ dl' = [dl EXCEPT ![l] = [status |-> "running", from |-> from]]
                                      /\ serve' = [serve EXCEPT ![l] = "asked"]
    <3>1. Len(part) \in Nat
      BY DEF TransferStreams
    <3>2. (IF resume /\ Len(part) <= Chunks THEN Len(part) ELSE 0) \in TransferItems
      BY <3>1 DEF TransferSized, TransferItems
    <3> QED
      BY <1>3, <3>2 DEF T!Download
  <2>2. [status |-> "running", from |-> from] \in TransferLoads
    BY DEF TransferLoads, TransferItems
  <2>3. dl' \in [Label -> TransferLoads] /\ serve' \in [Label -> {"none", "asked", "over"}]
    BY <2>1, <2>2, TransferTyping
  <2>4. T!TypeOK' /\ TransferStreams'
    BY <1>1, <2>3, TransferTyping, TransferTypingNext DEF TransferStreams
  <2>5. \A m \in Label \ {l} : dl'[m] = dl[m] /\ serve'[m] = serve[m]
    BY <2>1, TransferTyping
  <2>6. dl'[l].status = "running"
    BY <2>1, TransferTyping
  <2>7. TransferSourceOK'
    <3>1. \A m \in Label \ {l} : TransferBegun(m)'
      BY <1>1, <2>5 DEF TransferSourceOK, TransferBegun
    <3>2. TransferBegun(l)'
      BY <1>1, <2>6 DEF TransferSourceOK, TransferBegun
    <3> QED
      BY <3>1, <3>2 DEF TransferSourceOK
  <2>8. \A m \in Label, i \in TransferItems : TransferFresh(m, i) => TransferFresh(m, i)'
    <3> SUFFICES ASSUME NEW m \in Label, NEW i \in TransferItems, TransferFresh(m, i)
                 PROVE TransferFresh(m, i)'
      OBVIOUS
    <3>1. m # l
      <4>1. gen[l].next = 1 /\ gen[l].queued = 0
        BY <1>1 DEF TransferSourceOK, TransferBegun, T!NoGen
      <4>2. dl[l].from \in Nat
        BY TransferFields
      <4> QED
        BY <4>1, <4>2 DEF TransferFresh, TransferItems, TransferSized
    <3> QED
      BY <1>1, <2>5, <3>1 DEF TransferFresh
  <2>9. TransferFlow'
    BY <1>1, <2>8, TransferFlowKept DEF TransferOpened
  <2>10. T!FileIsWhole'
    BY <1>1, <2>5, <2>6, TransferFileKept
  <2> QED
    BY <1>1, <2>4, <2>7, <2>9, <2>10 DEF TransferConsumerOK, TransferFollows
<1> QED
  BY <1>2, <1>3

LEMMA TransferNewGen ==
  ASSUME TransferSized, NEW n \in 1 .. Chunks + 1
  PROVE  \E g \in TransferGens : /\ g = [T!NoGen EXCEPT !.pc = "open", !.prod = "reading", !.next = n]
                                 /\ g.pc = "open" /\ g.next = n /\ g.queued = 0
                                 /\ g.sent = 0
<1>1. T!NoGen \in TransferGens /\ T!NoGen.queued = 0 /\ T!NoGen.sent = 0
  BY DEF T!NoGen, TransferGens, TransferSized
<1>2. [T!NoGen EXCEPT !.pc = "open"] \in TransferGens
  BY <1>1 DEF TransferGens
<1> DEFINE h == [T!NoGen EXCEPT !.pc = "open", !.prod = "reading"]
<1>3. h \in TransferGens /\ h.pc = "open" /\ h.queued = 0 /\ h.sent = 0
  BY <1>1, <1>2 DEF TransferGens
<1>4. [T!NoGen EXCEPT !.pc = "open", !.prod = "reading", !.next = n] = [h EXCEPT !.next = n]
  OBVIOUS
<1> HIDE DEF h
<1> QED
  BY <1>3, <1>4 DEF TransferGens

LEMMA TransferServeInv ==
  ASSUME TransferSized, TransferInv, NEW l \in Label, T!Serve(l)
  PROVE  TransferInv'
<1> USE DEF TransferInv
<1>1. /\ UNCHANGED <<dl, fwd, back, registry, pipe, broken, con, part, final, faults>>
      /\ gen[l].pc = "off" /\ serve' = [serve EXCEPT ![l] = "over"] /\ dl[l].status # "none"
  BY DEF T!Serve, T!linkVars, T!inVars, T!diskVars, TransferSourceOK, TransferBegun
<1>2. dl[l].from \in 0 .. Chunks /\ dl[l].from \in Nat
  BY TransferFields
<1>3. dl[l].from + 1 \in 1 .. Chunks + 1
  BY <1>2 DEF TransferSized
<1>4. PICK g \in TransferGens : /\ gen' = [gen EXCEPT ![l] = g]
                                /\ g.pc = "open" /\ g.next = dl[l].from + 1
                                /\ g.queued = 0 /\ g.sent = 0
  BY <1>3, TransferNewGen DEF T!Serve
<1>5. /\ gen'[l].pc = "open" /\ gen'[l].next = dl[l].from + 1 /\ gen'[l].queued = 0
      /\ gen'[l].sent = 0 /\ gen' \in [Label -> TransferGens]
          /\ \A m \in Label \ {l} : gen'[m] = gen[m]
  BY <1>4, TransferTyping
<1>6. serve' \in [Label -> {"none", "asked", "over"}]
  BY <1>1, TransferTyping
<1>7. T!TypeOK' /\ TransferStreams'
  BY <1>1, <1>5, <1>6, TransferTyping, TransferTypingNext DEF TransferStreams
<1>8. TransferSourceOK'
  <2>1. TransferBegun(l)'
    <3>1. dl[l].from < gen'[l].next - gen'[l].queued
      BY <1>2, <1>5
    <3> QED
      BY <1>1, <1>5, <3>1 DEF TransferBegun
  <2>2. \A m \in Label \ {l} : serve'[m] = serve[m]
    BY <1>1, TransferTyping
  <2>3. \A m \in Label \ {l} : TransferBegun(m)'
    BY <1>1, <1>5, <2>2 DEF TransferSourceOK, TransferBegun
  <2> QED
    BY <2>1, <2>3 DEF TransferSourceOK
<1>9. (\A m \in Label, i \in TransferItems : TransferFresh(m, i)
         => TransferFresh(m, i)') /\ TransferConsumerOK'
  <2>1. gen[l].next = 1 /\ gen[l].queued = 0
    BY <1>1 DEF TransferSourceOK, TransferBegun, T!NoGen
  <2>2. \A m \in Label : gen[m].next - gen[m].queued <= gen'[m].next - gen'[m].queued
    <3> SUFFICES ASSUME NEW m \in Label
                 PROVE  gen[m].next - gen[m].queued <= gen'[m].next - gen'[m].queued
      OBVIOUS
    <3>1. gen[m].next \in Nat /\ gen[m].queued \in Nat
      BY TransferFields
    <3> QED
      BY <1>2, <1>5, <2>1, <3>1
  <2>3. TransferOpened
    BY <1>5 DEF TransferOpened
  <2>4. \A m \in Label : gen'[m].next \in Nat /\ gen'[m].queued \in Nat
           /\ con'[m].pos \in Nat
    BY <1>1, <1>2, <1>5, TransferFields
  <2>5. TransferConsumerOK'
    BY <1>1, <2>2, <2>3, <2>4, TransferConsumerKept
  <2> QED
    BY <1>1, <1>5, <2>2, <2>5, TransferTyping, TransferFreshKept
<1>10. TransferFlow' /\ T!FileIsWhole'
  BY <1>1, <1>5, <1>9, TransferFlowKept, TransferFileKept DEF TransferOpened
<1> QED
  BY <1>7, <1>8, <1>9, <1>10

\* A download that changes its status only, at a step that leaves the source
\* and what is under way alone.
LEMMA TransferStatusInv ==
  ASSUME TransferSized, TransferInv, NEW l \in Label, NEW s \in {"error", "gone", "done"},
         T!Status(l, s),
         dl[l].status # "none",
         UNCHANGED <<gen, registry, broken>>,
         con' \in [Label -> TransferCons], faults' \in 0 .. MaxFaults,
         serve' \in [Label -> {"none", "asked", "over"}],
         \A m \in Label \ {l} : serve'[m] = serve[m]
  PROVE  /\ dl' \in [Label -> TransferLoads] /\ TransferSourceOK'
         /\ \A m \in Label : dl'[m].from = dl[m].from
         /\ \A m \in Label \ {l} : dl'[m] = dl[m]
         /\ dl'[l].status = s
         /\ UNCHANGED final /\ s # "done" => T!FileIsWhole'
<1> USE DEF TransferInv
<1>1. [dl[l] EXCEPT !.status = s] \in TransferLoads
  <2>1. dl[l] \in TransferLoads /\ s \in {"none", "running", "done", "error", "gone"}
    BY TransferFields
  <2> QED
    BY <2>1 DEF TransferLoads
<1>2. dl' = [dl EXCEPT ![l].status = s]
  BY DEF T!Status
<1>3. dl' \in [Label -> TransferLoads] /\ \A m \in Label \ {l} : dl'[m] = dl[m]
  BY <1>1, <1>2, TransferTyping
<1>4. dl'[l].status = s /\ dl'[l].from = dl[l].from
  BY <1>2, TransferTyping DEF TransferLoads
<1>5. TransferSourceOK'
  <2>1. \A m \in Label : dl'[m].status = "none" => dl[m].status = "none"
           /\ serve'[m] = serve[m]
    BY <1>3, <1>4
  <2>2. \A m \in Label : dl'[m].from = dl[m].from
    BY <1>3, <1>4
  <2> QED
    BY <2>1, <2>2, TransferSourceKept
<1>6. UNCHANGED final /\ s # "done" => T!FileIsWhole'
  BY <1>3, <1>4, TransferFileKept
<1> QED
  BY <1>3, <1>4, <1>5, <1>6

LEMMA TransferServeFailsInv ==
  ASSUME TransferSized, TransferInv, NEW l \in Label, T!ServeFails(l)
  PROVE  TransferInv'
<1> USE DEF TransferInv
<1>1. /\ UNCHANGED <<gen, fwd, back, registry, pipe, broken, con, part, final>>
      /\ dl[l].status # "none" /\ T!Fault /\ T!Status(l, "error")
      /\ serve' \in {[serve EXCEPT ![l] = "over"], [serve EXCEPT ![l] = "none"]}
  BY DEF T!ServeFails, T!linkVars, T!inVars, T!diskVars, TransferSourceOK, TransferBegun
<1>2. serve' \in [Label -> {"none", "asked", "over"}]
         /\ \A m \in Label \ {l} : serve'[m] = serve[m]
  BY <1>1, TransferTyping
<1>3. faults' \in 0 .. MaxFaults
  BY <1>1, TransferFaultFact, TransferTyping
<1>4. /\ dl' \in [Label -> TransferLoads] /\ TransferSourceOK' /\ T!FileIsWhole'
      /\ \A m \in Label : dl'[m].from = dl[m].from
  BY <1>1, <1>2, <1>3, TransferTyping, TransferStatusInv
<1>5. T!TypeOK' /\ TransferStreams'
  BY <1>1, <1>2, <1>3, <1>4, TransferTyping, TransferTypingNext DEF TransferStreams
<1>6. TransferFlow'
  BY <1>1, <1>4, TransferFlowKept DEF TransferFresh, TransferOpened
<1> QED
  BY <1>1, <1>4, <1>5, <1>6 DEF TransferConsumerOK, TransferFollows

LEMMA TransferCancelInv ==
  ASSUME TransferSized, TransferInv, NEW l \in Label, T!Cancel(l)
  PROVE  TransferInv'
<1> USE DEF TransferInv
<1>1. /\ UNCHANGED <<serve, gen, fwd, back, registry, pipe, broken, con, final>>
      /\ dl[l].status # "none" /\ T!Fault /\ T!Status(l, "gone")
      /\ part' = <<>> \/ part' = part
  BY DEF T!Cancel, T!linkVars, T!inVars, T!diskVars
<1>2. faults' \in 0 .. MaxFaults /\ part' \in Seq(TransferItems)
  <2>1. faults' \in 0 .. MaxFaults
    BY <1>1, TransferFaultFact, TransferTyping
  <2>2. <<>> \in Seq(TransferItems) /\ part \in Seq(TransferItems)
    BY DEF TransferStreams
  <2> QED
    BY <1>1, <2>1, <2>2
<1>3. /\ dl' \in [Label -> TransferLoads] /\ TransferSourceOK' /\ T!FileIsWhole'
      /\ \A m \in Label : dl'[m].from = dl[m].from
  BY <1>1, <1>2, TransferTyping, TransferStatusInv
<1>4. T!TypeOK' /\ TransferStreams'
  BY <1>1, <1>2, <1>3, TransferTyping, TransferTypingNext DEF TransferStreams
<1>5. TransferFlow'
  BY <1>1, <1>3, TransferFlowKept DEF TransferFresh, TransferOpened
<1> QED
  BY <1>1, <1>3, <1>4, <1>5 DEF TransferConsumerOK, TransferFollows

-----------------------------------------------------------------------------
\* The source moves: one record, and what it sends.
LEMMA TransferSourceInv ==
  ASSUME TransferSized, TransferInv, NEW l \in Label, NEW g \in TransferGens,
         gen' = [gen EXCEPT ![l] = g],
         UNCHANGED <<dl, serve, registry, pipe, broken, con, part, final>>,
         T!Fault \/ UNCHANGED faults,
         dl[l].status # "none", g.pc # "off",
         gen[l].next - gen[l].queued <= g.next - g.queued,
         dl[l].from < g.next - g.queued,
         g.pc \in {"open", "wait"} => g.sent = 0, g.pc = "pump" => g.sent < Batch,
         \/ fwd' = fwd
         \/ \E m \in TransferMsgs : m.kind # "chunk" /\ gen'[m.label].pc # "off"
             /\ fwd' = Append(fwd, m),
         back' \in Seq(TransferMsgs)
  PROVE  TransferInv'
<1> USE DEF TransferInv
<1>1. gen' \in [Label -> TransferGens] /\ gen'[l] = g
         /\ \A m \in Label \ {l} : gen'[m] = gen[m]
  BY TransferTyping
<1>2. fwd' \in Seq(TransferMsgs)
  <2>1. \A m \in TransferMsgs : Append(fwd, m) \in Seq(TransferMsgs)
    BY DEF TransferStreams
  <2> QED
    BY <2>1 DEF TransferStreams
<1>3. T!TypeOK' /\ TransferStreams'
  BY <1>1, <1>2, TransferFaultFact, TransferTyping, TransferTypingNext DEF TransferStreams
<1>4. TransferSourceOK'
  BY <1>1, TransferSourceOne
<1>5. (\A m \in Label, i \in TransferItems : TransferFresh(m, i)
         => TransferFresh(m, i)') /\ TransferConsumerOK' /\ TransferOpened
  <2>1. \A m \in Label : gen[m].next - gen[m].queued <= gen'[m].next - gen'[m].queued
    <3> SUFFICES ASSUME NEW m \in Label
                 PROVE  gen[m].next - gen[m].queued <= gen'[m].next - gen'[m].queued
      OBVIOUS
    <3>1. gen[m].next \in Nat /\ gen[m].queued \in Nat
      BY TransferFields
    <3> QED
      BY <1>1, <3>1
  <2>2. TransferOpened
    BY <1>1 DEF TransferOpened
  <2>3. ASSUME NEW m \in Label
       PROVE  gen'[m].next \in Nat /\ gen'[m].queued \in Nat /\ con'[m].pos \in Nat
    <3>1. gen'[m] \in TransferGens
      BY <1>1
    <3>2. con' = con /\ con[m].pos \in Nat
      BY <1>1, TransferFields
    <3> QED
      BY <3>1, <3>2 DEF TransferGens, TransferSized
  <2>4. TransferConsumerOK'
    BY <2>1, <2>2, <2>3, TransferConsumerKept
  <2> QED
    BY <1>1, <2>1, <2>2, <2>4, TransferTyping, TransferFreshKept
<1>6. TransferFlow'
  BY <1>5, TransferFlowKept
<1>7. T!FileIsWhole'
  BY TransferFileKept
<1> QED
  BY <1>3, <1>4, <1>5, <1>6, <1>7

LEMMA TransferSourceStands ==
  ASSUME TransferSized, TransferInv, NEW l \in Label, gen[l].pc # "off"
  PROVE  /\ dl[l].status # "none" /\ dl[l].from < gen[l].next - gen[l].queued
         /\ gen[l].pc \in {"open", "wait"} => gen[l].sent = 0
         /\ gen[l].pc = "pump" => gen[l].sent < Batch
BY TransferFields DEF TransferInv, TransferSourceOK, TransferBegun

LEMMA TransferOpenInv ==
  ASSUME TransferSized, TransferInv, NEW l \in Label, T!Open(l)
  PROVE  TransferInv'
<1> USE DEF TransferInv
<1> DEFINE g == [gen[l] EXCEPT !.pc = "wait"]
<1>1. /\ UNCHANGED <<dl, serve, back, registry, pipe, broken, con, part, final, faults>>
      /\ gen[l].pc = "open" /\ gen' = [gen EXCEPT ![l] = g]
      /\ fwd' = Append(fwd, T!Msg("open", l, 0))
  BY DEF T!Open, T!inVars, T!diskVars, T!Send
<1>2. /\ T!Msg("open", l, 0) \in TransferMsgs /\ T!Msg("open", l, 0).kind = "open"
      /\ T!Msg("open", l, 0).label = l
  BY DEF T!Msg, TransferMsgs, TransferSized
<1>3. /\ g \in TransferGens /\ g.pc = "wait" /\ g.next = gen[l].next
      /\ g.queued = gen[l].queued
      /\ g.sent = gen[l].sent
  BY TransferFields DEF TransferGens
<1> HIDE DEF g
<1>4. /\ gen[l].next - gen[l].queued <= g.next - g.queued /\ dl[l].from < g.next - g.queued
      /\ g.sent = 0 /\ dl[l].status # "none"
  BY <1>1, <1>3, TransferFields, TransferSourceStands
<1>5. gen'[l].pc # "off"
  BY <1>1, <1>3, TransferTyping
<1> QED
  BY <1>1, <1>2, <1>3, <1>4, <1>5, TransferSourceInv DEF TransferStreams

LEMMA TransferProduceInv ==
  ASSUME TransferSized, TransferInv, NEW l \in Label, T!Produce(l)
  PROVE  TransferInv'
<1> USE DEF TransferInv
<1>1. /\ UNCHANGED <<dl, serve, fwd, back, registry, pipe, broken, con, part, final>>
      /\ gen[l].prod = "reading" /\ gen[l].pc # "off"
  BY TransferFields DEF T!Produce, T!linkVars, T!inVars, T!diskVars
<1>2. CASE /\ gen[l].next <= Chunks /\ gen[l].queued < Batch /\ UNCHANGED faults
           /\ gen' = [gen EXCEPT ![l].next = @ + 1, ![l].queued = @ + 1]
  <2> DEFINE g == [gen[l] EXCEPT !.next = gen[l].next + 1, !.queued = gen[l].queued + 1]
  <2>1. gen' = [gen EXCEPT ![l] = g]
    BY <1>2, TransferTyping
  <2>2. gen[l].next + 1 \in 1 .. Chunks + 1 /\ gen[l].queued + 1 \in 0 .. Batch
    BY <1>2, TransferFields DEF TransferSized
  <2>3. /\ g \in TransferGens /\ g.pc = gen[l].pc /\ g.next = gen[l].next + 1
        /\ g.queued = gen[l].queued + 1 /\ g.sent = gen[l].sent
    BY <2>2, TransferFields DEF TransferGens
  <2> HIDE DEF g
  <2>4. g.next - g.queued = gen[l].next - gen[l].queued
    BY <2>3, TransferFields
  <2>5. /\ gen[l].next - gen[l].queued <= g.next - g.queued
        /\ dl[l].from < g.next - g.queued
    BY <1>1, <2>4, TransferFields, TransferSourceStands
  <2> QED
    BY <1>1, <1>2, <2>1, <2>3, <2>5, TransferSourceStands, TransferSourceInv,
       ZenonT(40) DEF TransferStreams
<1>3. CASE \E p \in {"ok", "failed"} : /\ gen' = [gen EXCEPT ![l].prod = p]
                                       /\ T!Fault \/ UNCHANGED faults
  <2>1. PICK p \in {"ok", "failed"} : /\ gen' = [gen EXCEPT ![l].prod = p]
                                      /\ T!Fault \/ UNCHANGED faults
    BY <1>3
  <2> DEFINE g == [gen[l] EXCEPT !.prod = p]
  <2>2. gen' = [gen EXCEPT ![l] = g]
    BY <2>1, TransferTyping
  <2>3. /\ g \in TransferGens /\ g.pc = gen[l].pc /\ g.next = gen[l].next
        /\ g.queued = gen[l].queued /\ g.sent = gen[l].sent
    BY TransferFields DEF TransferGens
  <2> HIDE DEF g
  <2>4. /\ gen[l].next - gen[l].queued <= g.next - g.queued
        /\ dl[l].from < g.next - g.queued
    BY <1>1, <2>3, TransferFields, TransferSourceStands
  <2> QED
    BY <1>1, <2>1, <2>2, <2>3, <2>4, TransferSourceStands, TransferSourceInv,
       ZenonT(40) DEF TransferStreams
<1> QED
  BY <1>2, <1>3 DEF T!Produce

LEMMA TransferPumpInv ==
  ASSUME TransferSized, TransferInv, NEW l \in Label, T!Pump(l)
  PROVE  TransferInv'
<1> USE DEF TransferInv
<1> DEFINE i == gen[l].next - gen[l].queued
           pc == IF gen[l].sent + 1 = Batch THEN "batch" ELSE "pump"
           g == [gen[l] EXCEPT !.queued = gen[l].queued - 1, !.sent = gen[l].sent + 1, !.pc = pc]
<1>1. /\ UNCHANGED <<dl, serve, back, registry, pipe, broken, con, part, final, faults>>
      /\ gen[l].pc = "pump" /\ gen[l].queued > 0 /\ fwd' = Append(fwd, T!Msg("chunk", l, i))
  BY DEF T!Pump, T!inVars, T!diskVars, T!Send
<1>2. gen' = [gen EXCEPT ![l] = g]
  BY TransferTyping DEF T!Pump
<1>3. gen[l].queued - 1 \in 0 .. Batch /\ gen[l].sent + 1 \in 0 .. Batch
  BY <1>1, TransferFields, TransferSourceStands, SMTT(20) DEF TransferSized
<1>4. [gen[l] EXCEPT !.queued = gen[l].queued - 1] \in TransferGens
  BY <1>3, TransferFields DEF TransferGens
<1>5. [gen[l] EXCEPT !.queued = gen[l].queued - 1, !.sent = gen[l].sent + 1] \in TransferGens
  BY <1>3, <1>4 DEF TransferGens
<1>6. /\ g \in TransferGens /\ g.pc = pc /\ g.next = gen[l].next
      /\ g.queued = gen[l].queued - 1 /\ g.sent = gen[l].sent + 1
  BY <1>5, TransferFields DEF TransferGens
<1>7. pc \in {"batch", "pump"} /\ (pc = "pump" => gen[l].sent + 1 # Batch)
  OBVIOUS
<1>8. i \in TransferItems /\ dl[l].from < i /\ i \in Nat
  BY <1>1, TransferFields, TransferSourceStands, SMTT(20) DEF TransferItems, TransferSized
<1>9. gen[l].next - (gen[l].queued - 1) = i + 1
  BY TransferFields
<1> HIDE DEF g, pc
<1>10. gen' \in [Label -> TransferGens] /\ gen'[l] = g
          /\ \A m \in Label \ {l} : gen'[m] = gen[m]
  BY <1>2, <1>6, TransferTyping
<1>11. gen'[l].next - gen'[l].queued = i + 1
  BY <1>6, <1>9, <1>10
<1> HIDE DEF i
<1>12. con[l].pc = "run" => con[l].pos < i
  BY DEF TransferConsumerOK, TransferFollows, i
<1>13. TransferFlow' /\ fwd' \in Seq(TransferMsgs)
  BY <1>1, <1>6, <1>7, <1>8, <1>10, <1>11, <1>12, TransferFlowPumped DEF i
<1>14. T!TypeOK' /\ TransferStreams'
  <2>1. TransferStreams'
    BY <1>1, <1>13 DEF TransferStreams
  <2> QED
    BY <1>1, <1>10, <2>1, TransferTyping, TransferTypingNext
<1>15. dl[l].from < i + 1 /\ gen[l].next - gen[l].queued <= i + 1
  BY <1>8, TransferFields DEF i
<1>16. TransferSourceOK'
  <2>1. /\ gen'[l].pc \in {"batch", "pump"} /\ dl[l].status # "none"
        /\ dl[l].from < gen'[l].next - gen'[l].queued
    BY <1>1, <1>6, <1>7, <1>10, <1>11, <1>15, TransferFields
  <2>2. gen'[l].pc = "pump" => gen'[l].sent < Batch
    <3>1. gen[l].sent < Batch /\ gen[l].sent \in Nat /\ Batch \in Nat
      BY <1>1, TransferFields, TransferSourceStands DEF TransferSized
    <3>2. gen'[l].pc = "pump" => gen[l].sent + 1 # Batch
      BY <1>6, <1>7, <1>10
    <3>3. gen'[l].sent = gen[l].sent + 1
      BY <1>6, <1>10
    <3> QED
      BY <3>1, <3>2, <3>3
  <2> QED
    BY <1>1, <1>10, <2>1, <2>2, TransferSourceOne
<1>17. TransferConsumerOK'
  <2>1. TransferOpened
    BY <1>6, <1>7, <1>10 DEF TransferOpened
  <2>2. ASSUME NEW m \in Label
       PROVE  gen'[m].next \in Nat /\ gen'[m].queued \in Nat /\ con'[m].pos \in Nat
    <3>1. gen'[m] \in TransferGens
      BY <1>1, <1>10
    <3>2. con' = con /\ con[m].pos \in Nat
      BY <1>1, <1>10, TransferFields
    <3> QED
      BY <3>1, <3>2 DEF TransferGens, TransferSized
  <2>3. \A m \in Label : gen[m].next - gen[m].queued <= gen'[m].next - gen'[m].queued
    <3> SUFFICES ASSUME NEW m \in Label
                 PROVE  gen[m].next - gen[m].queued <= gen'[m].next - gen'[m].queued
      OBVIOUS
    <3>1. gen[m].next \in Nat /\ gen[m].queued \in Nat
      BY TransferFields
    <3> QED
      BY <1>10, <1>11, <1>15, <3>1
  <2> QED
    BY <1>1, <2>1, <2>2, <2>3, TransferConsumerKept
<1>18. T!FileIsWhole'
  BY <1>1, TransferFileKept
<1> QED
  BY <1>14, <1>13, <1>16, <1>17, <1>18

LEMMA TransferBatchAckedInv ==
  ASSUME TransferSized, TransferInv, NEW l \in Label, T!BatchAcked(l)
  PROVE  TransferInv'
<1> USE DEF TransferInv
<1> DEFINE g == [gen[l] EXCEPT !.pc = "pump", !.sent = 0, !.ack = FALSE]
<1>1. /\ UNCHANGED <<dl, serve, fwd, back, registry, pipe, broken, con, part, final, faults>>
      /\ gen[l].pc = "batch"
  BY DEF T!BatchAcked, T!linkVars, T!inVars, T!diskVars
<1>2. gen' = [gen EXCEPT ![l] = g]
  BY TransferTyping DEF T!BatchAcked
<1>3. 0 \in 0 .. Batch /\ 0 < Batch
  BY DEF TransferSized
<1>4. [gen[l] EXCEPT !.pc = "pump", !.sent = 0] \in TransferGens
  BY <1>3, TransferFields DEF TransferGens
<1>5. g \in TransferGens /\ g.pc = "pump" /\ g.sent = 0 /\ g.next = gen[l].next
         /\ g.queued = gen[l].queued
  BY <1>4, TransferFields DEF TransferGens
<1> HIDE DEF g
<1>6. /\ gen[l].next - gen[l].queued <= g.next - g.queued /\ dl[l].from < g.next - g.queued
      /\ dl[l].status # "none"
  BY <1>1, <1>5, TransferFields, TransferSourceStands
<1> QED
  BY <1>1, <1>2, <1>3, <1>5, <1>6, TransferSourceInv DEF TransferStreams

\* The pump has ended, and says so or not.
LEMMA TransferDoneInv ==
  ASSUME TransferSized, TransferInv, NEW l \in Label, gen[l].pc # "off",
         gen' = [gen EXCEPT ![l].pc = "done"],
         UNCHANGED <<dl, serve, back, registry, pipe, broken, con, part, final>>,
         T!Fault \/ UNCHANGED faults,
         fwd' = fwd \/ \E k \in {"error", "eof"} : fwd' = Append(fwd, T!Msg(k, l, 0))
  PROVE  TransferInv'
<1> USE DEF TransferInv
<1> DEFINE g == [gen[l] EXCEPT !.pc = "done"]
<1>1. gen' = [gen EXCEPT ![l] = g]
  BY TransferTyping
<1>2. /\ g \in TransferGens /\ g.pc = "done" /\ g.next = gen[l].next
      /\ g.queued = gen[l].queued
  BY TransferFields DEF TransferGens
<1> HIDE DEF g
<1>3. /\ gen[l].next - gen[l].queued <= g.next - g.queued /\ dl[l].from < g.next - g.queued
      /\ dl[l].status # "none"
  BY <1>2, TransferFields, TransferSourceStands
<1>4. gen'[l].pc # "off"
  BY <1>1, <1>2, TransferTyping
<1>5. \A k \in {"error", "eof"} : /\ T!Msg(k, l, 0) \in TransferMsgs
                                     /\ T!Msg(k, l, 0).kind # "chunk"
                                  /\ T!Msg(k, l, 0).label = l
  BY DEF T!Msg, TransferMsgs, TransferSized
<1>6. fwd' = fwd \/ \E m \in TransferMsgs : m.kind # "chunk" /\ gen'[m.label].pc # "off"
         /\ fwd' = Append(fwd, m)
  BY <1>4, <1>5
<1> QED
  BY <1>1, <1>2, <1>3, <1>6, TransferSourceInv DEF TransferStreams

LEMMA TransferPumpEndsInv ==
  ASSUME TransferSized, TransferInv, NEW l \in Label, T!PumpEnds(l) \/ T!PumpTimeout(l)
  PROVE  TransferInv'
<1>1. /\ UNCHANGED <<dl, serve, back, registry, pipe, broken, con, part, final>>
      /\ gen[l].pc # "off" /\ gen' = [gen EXCEPT ![l].pc = "done"]
      /\ T!Fault \/ UNCHANGED faults
      /\ fwd' = fwd
          \/ fwd' = Append(fwd, T!Msg(IF gen[l].prod = "failed" THEN "error" ELSE "eof", l, 0))
  BY DEF T!PumpEnds, T!PumpTimeout, T!inVars, T!diskVars, T!Send
<1>2. fwd' = fwd \/ \E k \in {"error", "eof"} : fwd' = Append(fwd, T!Msg(k, l, 0))
  BY <1>1
<1> QED
  BY <1>1, <1>2, TransferDoneInv

LEMMA TransferBackTypes ==
  ASSUME TransferStreams, back # <<>>
  PROVE  /\ Tail(back) \in Seq(TransferMsgs) /\ Head(back) \in TransferMsgs
            /\ Head(back).label \in Label
<1>1. Tail(back) \in Seq(TransferMsgs) /\ Head(back) \in TransferMsgs
  BY DEF TransferStreams
<1> QED
  BY <1>1 DEF TransferMsgs

LEMMA TransferSourceReadsInv ==
  ASSUME TransferSized, TransferInv, T!SourceReads
  PROVE  TransferInv'
<1> USE DEF TransferInv
<1>1. /\ UNCHANGED <<dl, serve, fwd, registry, pipe, broken, con, part, final, faults>>
      /\ back # <<>> /\ back' = Tail(back)
  BY DEF T!SourceReads, T!inVars, T!diskVars
<1>2. PICK l \in Label : l = Head(back).label
  BY <1>1, TransferBackTypes
<1>3. back' \in Seq(TransferMsgs)
  BY <1>1, TransferBackTypes
<1>4. CASE gen' = gen
  <2>1. T!TypeOK' /\ TransferStreams'
    BY <1>1, <1>3, <1>4, TransferTyping, TransferTypingNext DEF TransferStreams
  <2>2. TransferSourceOK' /\ TransferConsumerOK'
    BY <1>1, <1>4 DEF TransferSourceOK, TransferBegun, TransferConsumerOK, TransferFollows
  <2>3. TransferFlow'
    BY <1>1, <1>4, TransferFlowKept DEF TransferOpened, TransferFresh
  <2>4. T!FileIsWhole'
    BY <1>1, TransferFileKept
  <2> QED
    BY <2>1, <2>2, <2>3, <2>4
<1>5. CASE gen[l].pc = "wait" /\ gen' = [gen EXCEPT ![l].pc = "pump"]
  <2> DEFINE g == [gen[l] EXCEPT !.pc = "pump"]
  <2>1. gen' = [gen EXCEPT ![l] = g]
    BY <1>5, TransferTyping
  <2>2. /\ g \in TransferGens /\ g.pc = "pump" /\ g.next = gen[l].next
        /\ g.queued = gen[l].queued
        /\ g.sent = gen[l].sent
    BY TransferFields DEF TransferGens
  <2> HIDE DEF g
  <2>3. /\ gen[l].next - gen[l].queued <= g.next - g.queued
        /\ dl[l].from < g.next - g.queued
        /\ dl[l].status # "none" /\ g.sent = 0 /\ 0 < Batch
    BY <1>5, <2>2, TransferFields, TransferSourceStands DEF TransferSized
  <2> QED
    BY <1>1, <1>3, <2>1, <2>2, <2>3, TransferSourceInv
<1>6. CASE gen[l].pc \in {"pump", "batch"} /\ gen' = [gen EXCEPT ![l].ack = TRUE]
  <2> DEFINE g == [gen[l] EXCEPT !.ack = TRUE]
  <2>1. gen' = [gen EXCEPT ![l] = g]
    BY <1>6, TransferTyping
  <2>2. /\ g \in TransferGens /\ g.pc = gen[l].pc /\ g.next = gen[l].next
        /\ g.queued = gen[l].queued
        /\ g.sent = gen[l].sent
    BY TransferFields DEF TransferGens
  <2> HIDE DEF g
  <2>3. /\ gen[l].next - gen[l].queued <= g.next - g.queued
        /\ dl[l].from < g.next - g.queued
        /\ dl[l].status # "none" /\ (g.pc = "pump" => g.sent < Batch)
            /\ g.pc \in {"pump", "batch"}
    BY <1>6, <2>2, TransferFields, TransferSourceStands
  <2> QED
    BY <1>1, <1>3, <2>1, <2>2, <2>3, TransferSourceInv
<1>7. CASE gen[l].pc \in {"pump", "batch"} /\ gen' = [gen EXCEPT ![l].pc = gen[l].pc]
  <2> DEFINE g == [gen[l] EXCEPT !.pc = gen[l].pc]
  <2>1. gen' = [gen EXCEPT ![l] = g]
    BY <1>7, TransferTyping
  <2>2. /\ g \in TransferGens /\ g.pc = gen[l].pc /\ g.next = gen[l].next
        /\ g.queued = gen[l].queued
        /\ g.sent = gen[l].sent
    BY TransferFields DEF TransferGens
  <2> HIDE DEF g
  <2>3. /\ gen[l].next - gen[l].queued <= g.next - g.queued
        /\ dl[l].from < g.next - g.queued
        /\ dl[l].status # "none" /\ (g.pc = "pump" => g.sent < Batch)
            /\ g.pc \in {"pump", "batch"}
    BY <1>7, <2>2, TransferFields, TransferSourceStands
  <2> QED
    BY <1>1, <1>3, <2>1, <2>2, <2>3, TransferSourceInv
<1>8. CASE gen[l].pc \notin {"wait", "pump", "batch"}
  BY <1>2, <1>4, <1>8 DEF T!SourceReads
<1>9. CASE gen[l].pc = "wait" /\ Head(back).kind # "ready"
  BY <1>2, <1>4, <1>9 DEF T!SourceReads
<1>10. CASE gen[l].pc = "wait" /\ Head(back).kind = "ready"
  BY <1>2, <1>5, <1>10 DEF T!SourceReads
<1>11. CASE gen[l].pc \in {"pump", "batch"} /\ Head(back).kind # "ready"
  BY <1>2, <1>6, <1>11 DEF T!SourceReads
<1>12. CASE gen[l].pc \in {"pump", "batch"} /\ Head(back).kind = "ready"
  BY <1>2, <1>7, <1>12 DEF T!SourceReads
<1> QED
  BY <1>8, <1>9, <1>10, <1>11, <1>12

-----------------------------------------------------------------------------
LEMMA TransferStarted ==
  ASSUME TransferSized, TransferInv,
         \/ con' = con
         \/ \E l \in Label : con' = [con EXCEPT ![l].pc = "start"] /\ gen[l].pc # "off"
  PROVE  /\ con' \in [Label -> TransferCons]
         /\ \A m \in Label : con'[m].pos = con[m].pos
                             /\ (con'[m] = con[m] \/ (con'[m].pc = "start"
                                 /\ gen[m].pc # "off"))
<1>1. con \in [Label -> TransferCons]
  BY TransferTyping DEF TransferInv
<1>2. CASE con' = con
  BY <1>1, <1>2
<1>3. CASE \E l \in Label : con' = [con EXCEPT ![l].pc = "start"] /\ gen[l].pc # "off"
  <2>1. PICK l \in Label : con' = [con EXCEPT ![l].pc = "start"] /\ gen[l].pc # "off"
    BY <1>3
  <2> DEFINE c == [con[l] EXCEPT !.pc = "start"]
  <2>2. c \in TransferCons /\ c.pos = con[l].pos /\ c.pc = "start"
    BY TransferFields DEF TransferCons
  <2>3. con' = [con EXCEPT ![l] = c]
    BY <1>1, <2>1
  <2> HIDE DEF c
  <2>4. con' \in [Label -> TransferCons]
    BY <1>1, <2>2, <2>3
  <2>5. con'[l] = c /\ \A m \in Label \ {l} : con'[m] = con[m]
    BY <1>1, <2>3
  <2> QED
    BY <2>1, <2>2, <2>4, <2>5
<1> QED
  BY <1>2, <1>3

\* The receiver takes a packet: what it does to its streams.
LEMMA TransferTakenInv ==
  ASSUME TransferSized, TransferInv, fwd # <<>>, fwd' = Tail(fwd),
         UNCHANGED <<dl, serve, gen, part, final, faults>>,
         registry' \subseteq Label, broken' \subseteq Label, back' \in Seq(TransferMsgs),
         \/ UNCHANGED con
         \/ \E l \in Label : con' = [con EXCEPT ![l].pc = "start"] /\ gen[l].pc # "off",
         \/ UNCHANGED pipe
         \/ \E l \in Label, i \in TransferItems :
              /\ pipe' = [pipe EXCEPT ![l] = Append(@, i)] /\ Len(pipe[l]) < Buff
              /\ i # T!EofItem => Head(fwd).kind = "chunk" /\ Head(fwd).label = l
                                /\ Head(fwd).item = i
  PROVE  TransferInv'
<1> USE DEF TransferInv
<1>1. /\ con' \in [Label -> TransferCons]
      /\ \A m \in Label : con'[m].pos = con[m].pos
                          /\ (con'[m] = con[m] \/ (con'[m].pc = "start"
                              /\ gen[m].pc # "off"))
  BY TransferStarted
<1>2. TransferOpened
  BY DEF TransferOpened
<1>3. \A m \in Label, i \in TransferItems : TransferFresh(m, i) => TransferFresh(m, i)'
  BY <1>1 DEF TransferFresh
<1>4. /\ TransferFlow' /\ pipe' \in [Label -> Seq(TransferItems)]
      /\ fwd' \in Seq(TransferMsgs)
      /\ \A l \in Label : Len(pipe'[l]) <= Buff
  BY <1>2, <1>3, TransferFlowTaken
<1>5. T!TypeOK' /\ TransferStreams'
  BY <1>1, <1>4, TransferPipeTypes, TransferTyping, TransferTypingNext DEF TransferStreams
<1>6. TransferSourceOK' /\ T!FileIsWhole'
  BY TransferSourceKept, TransferFileKept
<1>7. TransferConsumerOK'
  BY <1>1 DEF TransferConsumerOK, TransferFollows
<1> QED
  BY <1>4, <1>5, <1>6, <1>7

LEMMA TransferHeadFacts ==
  ASSUME TransferInv, fwd # <<>>
  PROVE  /\ Head(fwd).label \in Label /\ Head(fwd).item \in TransferItems
         /\ gen[Head(fwd).label].pc # "off"
<1>1. 1 \in DOMAIN fwd /\ Head(fwd) = fwd[1]
  BY DEF TransferInv, TransferStreams
<1> QED
  BY <1>1, TransferLinkTypes DEF TransferInv, TransferFlow, TransferLinkOpened

LEMMA TransferReplyTypes ==
  ASSUME TransferSized, TransferStreams, NEW l \in Label, NEW k \in {"ready", "ack"},
         T!Reply(T!Msg(k, l, 0))
  PROVE  back' \in Seq(TransferMsgs)
<1>1. T!Msg(k, l, 0) \in TransferMsgs
  BY DEF T!Msg, TransferMsgs, TransferSized
<1> QED
  BY <1>1 DEF T!Reply, TransferStreams

LEMMA TransferReaderInv ==
  ASSUME TransferSized, TransferInv, T!ReadOpen \/ T!ReadChunk \/ T!ReadEof \/ T!ReadError
  PROVE  TransferInv'
<1> USE DEF TransferInv
<1>1. /\ fwd # <<>> /\ fwd' = Tail(fwd) /\ UNCHANGED <<dl, serve, gen, part, final, faults>>
  BY DEF T!ReadOpen, T!ReadChunk, T!ReadEof, T!ReadError, T!Reads, T!Taken, T!diskVars
<1>2. PICK l \in Label : l = Head(fwd).label
  BY <1>1, TransferHeadFacts
<1>3. gen[l].pc # "off" /\ Head(fwd).item \in TransferItems /\ registry \subseteq Label
         /\ broken \subseteq Label
  BY <1>1, <1>2, TransferHeadFacts, TransferTyping
<1>4. CASE T!ReadOpen
  <2>1. /\ registry' = registry \cup {l} /\ con' = [con EXCEPT ![l].pc = "start"]
        /\ T!Reply(T!Msg("ready", l, 0)) /\ UNCHANGED <<pipe, broken>>
    BY <1>2, <1>4 DEF T!ReadOpen
  <2>2. back' \in Seq(TransferMsgs)
    BY <2>1, TransferReplyTypes
  <2> QED
    BY <1>1, <1>3, <2>1, <2>2, TransferTakenInv
<1>5. CASE T!ReadChunk
  <2>1. /\ UNCHANGED <<back, registry, broken, con>> /\ Head(fwd).kind = "chunk"
        /\ \/ UNCHANGED pipe
           \/ pipe' = [pipe EXCEPT ![l] = Append(@, Head(fwd).item)] /\ Len(pipe[l]) < Buff
    BY <1>2, <1>5 DEF T!ReadChunk, T!Reads, T!Room
  <2> QED
    BY <1>1, <1>2, <1>3, <2>1, TransferTakenInv DEF TransferStreams
<1>6. CASE T!ReadEof
  <2>1. /\ UNCHANGED <<back, broken, con>> /\ registry' \subseteq Label
        /\ \/ UNCHANGED pipe
           \/ pipe' = [pipe EXCEPT ![l] = Append(@, T!EofItem)] /\ Len(pipe[l]) < Buff
    BY <1>2, <1>3, <1>6 DEF T!ReadEof, T!Room
  <2>2. T!EofItem \in TransferItems
    BY DEF T!EofItem, TransferItems, TransferSized
  <2> QED
    BY <1>1, <1>3, <2>1, <2>2, TransferTakenInv DEF TransferStreams
<1>7. CASE T!ReadError
  <2>1. /\ UNCHANGED <<back, con, pipe>> /\ registry' \subseteq Label
        /\ broken' \subseteq Label
    BY <1>2, <1>3, <1>7 DEF T!ReadError
  <2> QED
    BY <1>1, <1>3, <2>1, TransferTakenInv DEF TransferStreams
<1> QED
  BY <1>4, <1>5, <1>6, <1>7

\* A consumer moves without taking anything.
LEMMA TransferConsumerInv ==
  ASSUME TransferSized, TransferInv, NEW l \in Label, NEW c \in TransferCons,
         con' = [con EXCEPT ![l] = c],
         UNCHANGED <<dl, serve, gen, fwd, registry, pipe, broken, final>>,
         back' \in Seq(TransferMsgs), part' \in Seq(TransferItems), T!Fault
            \/ UNCHANGED faults,
         c.pc \in {"run", "gone", "drain"},
         c.pc = "run" => c.pos = dl[l].from /\ con[l].pc # "off" /\ gen[l].pc # "off"
  PROVE  TransferInv'
<1> USE DEF TransferInv
<1>1. con' \in [Label -> TransferCons] /\ con'[l] = c
         /\ \A m \in Label \ {l} : con'[m] = con[m]
  BY TransferTyping
<1>2. T!TypeOK' /\ TransferStreams'
  BY <1>1, TransferFaultFact, TransferTyping, TransferTypingNext DEF TransferStreams
<1>3. TransferSourceOK' /\ T!FileIsWhole'
  BY TransferSourceKept, TransferFileKept
<1>4. TransferConsumerOK'
  <2>1. TransferFollows(l)'
    BY <1>1, TransferSourceStands DEF TransferFollows
  <2>2. \A m \in Label \ {l} : TransferFollows(m)'
    BY <1>1 DEF TransferConsumerOK, TransferFollows
  <2> QED
    BY <2>1, <2>2 DEF TransferConsumerOK
<1>5. \A m \in Label, i \in TransferItems : TransferFresh(m, i) => TransferFresh(m, i)'
  BY <1>1 DEF TransferFresh
<1>6. TransferFlow'
  BY <1>5, TransferFlowKept DEF TransferOpened
<1> QED
  BY <1>2, <1>3, <1>4, <1>6

LEMMA TransferConsumerStartsInv ==
  ASSUME TransferSized, TransferInv, NEW l \in Label, T!ConsumerStarts(l)
  PROVE  TransferInv'
<1> USE DEF TransferInv
<1>1. /\ UNCHANGED <<dl, serve, gen, fwd, registry, pipe, broken, final, faults>>
      /\ con[l].pc = "start" /\ gen[l].pc # "off"
  BY DEF T!ConsumerStarts, T!inVars, TransferConsumerOK, TransferFollows
<1>2. CASE dl[l].status = "gone"
  <2> DEFINE c == [con[l] EXCEPT !.pc = "drain"]
  <2>1. con' = [con EXCEPT ![l] = c] /\ UNCHANGED <<part, back>>
    BY <1>2, TransferTyping DEF T!ConsumerStarts
  <2>2. c \in TransferCons /\ c.pc = "drain"
    BY TransferFields DEF TransferCons
  <2> HIDE DEF c
  <2> QED
    BY <1>1, <2>1, <2>2, TransferConsumerInv DEF TransferStreams
<1>3. CASE dl[l].status # "gone"
  <2> DEFINE c == [pc |-> "run", pos |-> dl[l].from, append |-> dl[l].from > 0]
  <2>1. /\ con' = [con EXCEPT ![l] = c] /\ T!Reply(T!Msg("ack", l, 0))
        /\ part' = part \/ part' = <<>>
    BY <1>3 DEF T!ConsumerStarts
  <2>2. (dl[l].from > 0) \in BOOLEAN
    BY SMT
  <2>3. c \in TransferCons /\ c.pc = "run" /\ c.pos = dl[l].from
    BY <2>2, TransferFields DEF TransferCons
  <2> HIDE DEF c
  <2>4. back' \in Seq(TransferMsgs)
    BY <2>1, TransferReplyTypes
  <2>5. part' \in Seq(TransferItems)
    <3>1. <<>> \in Seq(TransferItems) /\ part \in Seq(TransferItems)
      BY DEF TransferStreams
    <3> QED
      BY <2>1, <3>1
  <2> QED
    BY <1>1, <2>1, <2>3, <2>4, <2>5, TransferConsumerInv
<1> QED
  BY <1>2, <1>3

LEMMA TransferConsumerFailsInv ==
  ASSUME TransferSized, TransferInv, NEW l \in Label, T!ConsumerFails(l)
  PROVE  TransferInv'
<1> USE DEF TransferInv
<1> DEFINE c == [con[l] EXCEPT !.pc = "gone"]
<1>1. /\ UNCHANGED <<dl, serve, gen, fwd, back, registry, pipe, broken, part, final>>
      /\ T!Fault \/ UNCHANGED faults
  BY DEF T!ConsumerFails, T!linkVars, T!inVars, T!diskVars
<1>2. con' = [con EXCEPT ![l] = c]
  BY TransferTyping DEF T!ConsumerFails, T!ConsumerLeaves
<1>3. c \in TransferCons /\ c.pc = "gone"
  BY TransferFields DEF TransferCons
<1> HIDE DEF c
<1> QED
  BY <1>1, <1>2, <1>3, TransferConsumerInv DEF TransferStreams

\* Where a write lands, there is a sequence of items again.
LEMMA TransferWrittenType ==
  ASSUME TransferSized, TransferInv, NEW l \in Label, NEW i \in TransferItems
  PROVE  T!Written(l, i) \in Seq(TransferItems)
<1> USE DEF TransferInv
<1>1. part \in Seq(TransferItems) /\ Len(part) \in Nat /\ con[l].pos \in Nat
  BY TransferFields DEF TransferStreams
<1>2. CASE con[l].append
  BY <1>1, <1>2 DEF T!Written
<1>3. CASE ~con[l].append
  <2> DEFINE n == IF Len(part) > con[l].pos THEN Len(part) ELSE con[l].pos + 1
             w == [k \in 1 .. n |-> IF k = con[l].pos + 1 THEN i
                                    ELSE IF k <= Len(part) THEN part[k] ELSE T!Hole]
  <2>1. n \in Nat
    BY <1>1
  <2>2. \A k \in 1 .. n : w[k] \in TransferItems
    <3> SUFFICES ASSUME NEW k \in 1 .. n PROVE w[k] \in TransferItems
      OBVIOUS
    <3>1. T!Hole \in TransferItems
      BY DEF T!Hole, TransferItems, TransferSized
    <3>2. k <= Len(part) => part[k] \in TransferItems
      BY <1>1, <2>1
    <3> QED
      BY <3>1, <3>2
  <2>3. w = T!Written(l, i)
    BY <1>3 DEF T!Written
  <2>4. DOMAIN w = 1 .. n
    OBVIOUS
  <2> HIDE DEF n
  <2>5. w \in [1 .. n -> TransferItems]
    BY <2>2
  <2>6. w \in Seq(TransferItems)
    BY <2>1, <2>5, SeqDef
  <2> QED
    BY <2>3, <2>6
<1> QED
  BY <1>2, <1>3

\* The consumer takes an item of its pipe: where it stands afterwards.
LEMMA TransferDrainedInv ==
  ASSUME TransferSized, TransferInv, NEW l \in Label, NEW c \in TransferCons,
         con' = [con EXCEPT ![l] = c],
         pipe[l] # <<>>, pipe' = [pipe EXCEPT ![l] = Tail(@)],
         UNCHANGED <<serve, gen, fwd, registry, broken>>,
         dl' \in [Label -> TransferLoads], \A m \in Label : dl'[m].from = dl[m].from,
         back' \in Seq(TransferMsgs), part' \in Seq(TransferItems), faults' = faults,
         con[l].pc = c.pc \/ c.pc = "gone",
         c.pc = "run" => /\ c.pos = con[l].pos + 1 /\ Head(pipe[l]) # T!EofItem
                         /\ c.pos <= Head(pipe[l])
  PROVE  T!TypeOK' /\ TransferStreams' /\ TransferConsumerOK' /\ TransferFlow'
<1> USE DEF TransferInv
<1>1. con' \in [Label -> TransferCons] /\ con'[l] = c
         /\ \A m \in Label \ {l} : con'[m] = con[m]
  BY TransferTyping
<1>2. c.pc = "run" => Head(pipe[l]) \in TransferItems /\ TransferFresh(l, Head(pipe[l]))
  <2>1. 1 \in DOMAIN pipe[l] /\ Head(pipe[l]) = pipe[l][1] /\ pipe[l][1] \in TransferItems
    BY DEF TransferStreams
  <2> QED
    BY <2>1 DEF TransferFlow, TransferPipeFresh
<1>3. \A m \in Label, i \in TransferItems :
         TransferFresh(m, i) /\ (m = l /\ Head(pipe[l]) # T!EofItem
            => Head(pipe[l]) < i) => TransferFresh(m, i)'
  <2> SUFFICES ASSUME NEW m \in Label, NEW i \in TransferItems, TransferFresh(m, i),
                      m = l /\ Head(pipe[l]) # T!EofItem => Head(pipe[l]) < i
               PROVE  TransferFresh(m, i)'
    OBVIOUS
  <2>1. con'[m].pc = "run" => con'[m].pos < i
    <3>1. CASE m = l
      <4>1. c.pc = "run" => Head(pipe[l]) < i /\ c.pos <= Head(pipe[l])
        BY <3>1
      <4>2. c.pos \in Nat /\ i \in Nat
        BY DEF TransferCons, TransferItems, TransferSized
      <4> QED
        BY <1>1, <1>2, <3>1, <4>1, <4>2 DEF TransferItems, TransferSized
    <3>2. CASE m # l
      BY <1>1, <3>2 DEF TransferFresh
    <3> QED
      BY <3>1, <3>2
  <2> QED
    BY <2>1 DEF TransferFresh
<1>4. /\ TransferFlow' /\ pipe' \in [Label -> Seq(TransferItems)]
          /\ \A m \in Label : Len(pipe'[m]) <= Buff
  BY <1>3, TransferFlowDrained DEF TransferOpened
<1>5. T!TypeOK' /\ TransferStreams'
  BY <1>1, <1>4, TransferPipeTypes, TransferTyping, TransferTypingNext DEF TransferStreams
<1>6. TransferConsumerOK'
  <2>1. TransferFollows(l)'
    <3>1. c.pc \in {"start", "run"} => gen[l].pc # "off"
      BY DEF TransferConsumerOK, TransferFollows
    <3>2. c.pc = "run" => c.pos < gen[l].next - gen[l].queued
      <4>1. c.pos \in Nat /\ gen[l].next \in Nat /\ gen[l].queued \in Nat
        BY TransferFields DEF TransferCons, TransferSized
      <4> QED
        BY <1>2, <4>1 DEF TransferFresh, TransferItems, TransferSized
    <3> QED
      BY <1>1, <3>1, <3>2 DEF TransferFollows
  <2>2. \A m \in Label \ {l} : TransferFollows(m)'
    BY <1>1 DEF TransferConsumerOK, TransferFollows
  <2> QED
    BY <2>1, <2>2 DEF TransferConsumerOK
<1> QED
  BY <1>4, <1>5, <1>6

LEMMA TransferConsumeInv ==
  ASSUME TransferSized, TransferInv, NEW l \in Label, T!Consume(l)
  PROVE  TransferInv'
<1> USE DEF TransferInv
<1>1. /\ UNCHANGED <<dl, serve, gen, fwd, registry, broken, final, faults>>
      /\ con[l].pc = "run" /\ pipe[l] # <<>> /\ Head(pipe[l]) # T!EofItem
      /\ pipe' = [pipe EXCEPT ![l] = Tail(@)]
  BY DEF T!Consume
<1>2. TransferSourceOK' /\ T!FileIsWhole'
  BY <1>1, TransferSourceKept, TransferFileKept
<1>3. CASE dl[l].status = "error"
  <2> DEFINE c == [con[l] EXCEPT !.pc = "gone"]
  <2>1. con' = [con EXCEPT ![l] = c] /\ UNCHANGED <<part, back>>
    BY <1>3, TransferTyping DEF T!Consume, T!ConsumerLeaves
  <2>2. c \in TransferCons /\ c.pc = "gone"
    BY TransferFields DEF TransferCons
  <2> HIDE DEF c
  <2>3. back' \in Seq(TransferMsgs) /\ part' \in Seq(TransferItems)
           /\ dl' \in [Label -> TransferLoads]
    BY <1>1, <2>1, TransferTyping DEF TransferStreams
  <2>4. T!TypeOK' /\ TransferStreams' /\ TransferConsumerOK' /\ TransferFlow'
    BY <1>1, <2>1, <2>2, <2>3, TransferDrainedInv
  <2> QED
    BY <1>2, <2>4
<1>4. CASE dl[l].status # "error"
  <2> DEFINE c == [con[l] EXCEPT !.pos = con[l].pos + 1]
  <2>1. /\ con' = [con EXCEPT ![l] = c] /\ part' = T!Written(l, Head(pipe[l]))
        /\ T!Reply(T!Msg("ack", l, 0)) \/ UNCHANGED back
    BY <1>4, TransferTyping DEF T!Consume
  <2>2. Head(pipe[l]) \in TransferItems /\ con[l].pos < Head(pipe[l])
    <3>1. 1 \in DOMAIN pipe[l] /\ Head(pipe[l]) = pipe[l][1] /\ pipe[l][1] \in TransferItems
      BY <1>1 DEF TransferStreams
    <3> QED
      BY <1>1, <3>1 DEF TransferFlow, TransferPipeFresh, TransferFresh
  <2>3. con[l].pos + 1 \in 0 .. Chunks /\ con[l].pos + 1 <= Head(pipe[l])
    BY <2>2, TransferFields DEF TransferItems, TransferSized
  <2>4. c \in TransferCons /\ c.pc = con[l].pc /\ c.pos = con[l].pos + 1
    BY <2>3, TransferFields DEF TransferCons
  <2> HIDE DEF c
  <2>5. back' \in Seq(TransferMsgs)
    BY <2>1, TransferReplyTypes DEF TransferStreams
  <2>6. part' \in Seq(TransferItems)
    BY <2>1, <2>2, TransferWrittenType
  <2>7. dl' \in [Label -> TransferLoads] /\ \A m \in Label : dl'[m].from = dl[m].from
    BY <1>1, TransferTyping
  <2>8. T!TypeOK' /\ TransferStreams' /\ TransferConsumerOK' /\ TransferFlow'
    BY <1>1, <2>1, <2>3, <2>4, <2>5, <2>6, <2>7, TransferDrainedInv
  <2> QED
    BY <1>2, <2>8
<1> QED
  BY <1>3, <1>4

LEMMA TransferFinishInv ==
  ASSUME TransferSized, TransferInv, NEW l \in Label, T!Finish(l)
  PROVE  TransferInv'
<1> USE DEF TransferInv
<1> DEFINE c == [con[l] EXCEPT !.pc = "gone"]
<1>1. /\ UNCHANGED <<serve, gen, fwd, back, registry, broken, faults>>
      /\ con[l].pc = "run" /\ pipe[l] # <<>> /\ pipe' = [pipe EXCEPT ![l] = Tail(@)]
  BY DEF T!Finish, T!linkVars
<1>2. con' = [con EXCEPT ![l] = c]
  BY TransferTyping DEF T!Finish, T!ConsumerLeaves
<1>3. c \in TransferCons /\ c.pc = "gone"
  BY TransferFields DEF TransferCons
<1> HIDE DEF c
<1>4. con' \in [Label -> TransferCons]
  BY <1>2, <1>3, TransferTyping
<1>5. dl[l].status # "none" /\ faults' \in 0 .. MaxFaults
         /\ serve' \in [Label -> {"none", "asked", "over"}]
  BY <1>1, TransferSourceStands, TransferTyping DEF TransferConsumerOK, TransferFollows
<1>6. CASE \/ UNCHANGED <<dl, part, final>>
           \/ T!Status(l, "error") /\ UNCHANGED final /\ (part' = part \/ part' = <<>>)
  <2>1. part' \in Seq(TransferItems)
    <3>1. <<>> \in Seq(TransferItems) /\ part \in Seq(TransferItems)
      BY DEF TransferStreams
    <3> QED
      BY <1>6, <3>1
  <2>2. /\ dl' \in [Label -> TransferLoads] /\ TransferSourceOK' /\ T!FileIsWhole'
        /\ \A m \in Label : dl'[m].from = dl[m].from
    <3>1. CASE UNCHANGED <<dl, part, final>>
      BY <1>1, <3>1, TransferTyping, TransferSourceKept, TransferFileKept
    <3>2. CASE T!Status(l, "error") /\ UNCHANGED final
      BY <1>1, <1>4, <1>5, <3>2, TransferStatusInv
    <3> QED
      BY <1>6, <3>1, <3>2
  <2>3. back' \in Seq(TransferMsgs)
    BY <1>1 DEF TransferStreams
  <2>4. T!TypeOK' /\ TransferStreams' /\ TransferConsumerOK' /\ TransferFlow'
    BY <1>1, <1>2, <1>3, <2>1, <2>2, <2>3, TransferDrainedInv
  <2> QED
    BY <2>2, <2>4
<1>7. CASE T!HashOk /\ T!Status(l, "done") /\ final' = part /\ part' = <<>>
  <2>1. /\ dl' \in [Label -> TransferLoads] /\ TransferSourceOK'
        /\ \A m \in Label : dl'[m].from = dl[m].from
    BY <1>1, <1>4, <1>5, <1>7, TransferStatusInv
  <2>2. T!FileIsWhole'
    BY <1>7 DEF T!HashOk, T!FileIsWhole, T!Whole
  <2>3. back' \in Seq(TransferMsgs) /\ part' \in Seq(TransferItems)
    <3>1. <<>> \in Seq(TransferItems) /\ back \in Seq(TransferMsgs)
      BY DEF TransferStreams
    <3> QED
      BY <1>1, <1>7, <3>1
  <2>4. T!TypeOK' /\ TransferStreams' /\ TransferConsumerOK' /\ TransferFlow'
    BY <1>1, <1>2, <1>3, <2>1, <2>3, TransferDrainedInv
  <2> QED
    BY <2>1, <2>2, <2>4
<1>8. \/ UNCHANGED <<dl, part, final>>
      \/ T!Status(l, "error") /\ UNCHANGED final /\ (part' = part \/ part' = <<>>)
      \/ T!HashOk /\ T!Status(l, "done") /\ final' = part /\ part' = <<>>
  BY Zenon DEF T!Finish, T!diskVars
<1> QED
  BY <1>6, <1>7, <1>8

LEMMA TransferDrainInv ==
  ASSUME TransferSized, TransferInv, NEW l \in Label, T!Drain(l)
  PROVE  TransferInv'
<1> USE DEF TransferInv
<1>1. /\ UNCHANGED <<dl, serve, gen, fwd, back, registry, broken, con, part, final, faults>>
      /\ con[l].pc = "drain" /\ pipe[l] # <<>> /\ pipe' = [pipe EXCEPT ![l] = Tail(@)]
  BY DEF T!Drain, T!linkVars, T!diskVars
<1>2. con' = [con EXCEPT ![l] = con[l]] /\ con[l] \in TransferCons
  BY <1>1, TransferTyping
<1>3. dl' \in [Label -> TransferLoads] /\ back' \in Seq(TransferMsgs)
         /\ part' \in Seq(TransferItems)
  BY <1>1, TransferTyping DEF TransferStreams
<1>4. T!TypeOK' /\ TransferStreams' /\ TransferConsumerOK' /\ TransferFlow'
  BY <1>1, <1>2, <1>3, TransferDrainedInv
<1>5. TransferSourceOK' /\ T!FileIsWhole'
  BY <1>1, TransferSourceKept, TransferFileKept
<1> QED
  BY <1>4, <1>5

LEMMA TransferLinkDropsInv ==
  ASSUME TransferSized, TransferInv, T!LinkDrops
  PROVE  TransferInv'
<1> USE DEF TransferInv
<1>1. /\ UNCHANGED <<dl, serve, gen, registry, pipe, broken, con, part, final>>
      /\ T!Fault /\ fwd' = <<>> /\ back' = <<>>
  BY DEF T!LinkDrops, T!inVars, T!diskVars
<1>2. T!TypeOK'
  BY <1>1, TransferFaultFact, TransferTyping, TransferTypingNext
<1>3. TransferStreams'
  BY <1>1 DEF TransferStreams
<1>4. TransferSourceOK' /\ T!FileIsWhole' /\ TransferConsumerOK'
  BY <1>1, TransferSourceKept, TransferFileKept DEF TransferConsumerOK, TransferFollows
<1>5. TransferFlow'
  BY <1>1, TransferFlowKept DEF TransferFresh, TransferOpened
<1> QED
  BY <1>2, <1>3, <1>4, <1>5

LEMMA TransferNextInv ==
  ASSUME TransferSized, TransferInv, [T!Next]_streamVars
  PROVE  TransferInv'
<1>1. ASSUME NEW l \in Label, NEW resume \in BOOLEAN, T!Download(l, resume)
      PROVE TransferInv'
  BY <1>1, TransferDownloadInv
<1>2. ASSUME NEW l \in Label,
             T!ServeFails(l) \/ T!Cancel(l) \/ T!PumpTimeout(l) \/ T!ConsumerFails(l)
      PROVE  TransferInv'
  BY <1>2, TransferServeFailsInv, TransferCancelInv, TransferPumpEndsInv,
     TransferConsumerFailsInv
<1>3. ASSUME NEW l \in Label, T!SourceStep(l) PROVE TransferInv'
  BY <1>3, TransferServeInv, TransferOpenInv, TransferProduceInv, TransferPumpInv,
     TransferBatchAckedInv, TransferPumpEndsInv DEF T!SourceStep
<1>4. ASSUME NEW l \in Label, T!ConsumerStep(l) PROVE TransferInv'
  BY <1>4, TransferConsumerStartsInv, TransferConsumeInv, TransferFinishInv,
     TransferConsumerFailsInv, TransferDrainInv DEF T!ConsumerStep
<1>5. CASE T!ReaderStep
  BY <1>5, TransferSourceReadsInv, TransferReaderInv DEF T!ReaderStep
<1>6. CASE T!LinkDrops
  BY <1>6, TransferLinkDropsInv
<1>7. CASE UNCHANGED streamVars
  BY <1>7 DEF streamVars, TransferInv, T!TypeOK, TransferStreams, TransferSourceOK,
     TransferBegun, TransferConsumerOK, TransferFollows, TransferFlow, TransferLinkOpened,
              TransferLinkFresh, TransferPipeFresh, TransferFresh, TransferLinkOrder,
                 TransferPipeOrder, TransferPipeFirst, T!FileIsWhole
<1> QED
  BY <1>1, <1>2, <1>3, <1>4, <1>5, <1>6, <1>7 DEF T!Next

LEMMA TransferSound == ASSUME TransferInv PROVE T!TypeOK /\ T!FileIsWhole
BY DEF TransferInv

-----------------------------------------------------------------------------
(* The certificates: what is listed, on the wire or in the index was there. *)

CertsPins == [Cert -> {S!None, "user", "once"}]
CertsLoops == [pc : {"sleep", "listed", "last", "over"}, seen : SUBSET Cert]
CertsJobs == [pc : {"idle", "lookup", "export", "erase", "install", "cer",
                    "password", "list", "index", "done"},
              kind : {S!None, "fetch", "load", "fix", "delete"},
              cert : Cert \cup {S!None}, src : Holder \cup {S!None},
              seen : SUBSET Cert, result : {S!None, "ok", "error", "lost"}]

\* A call: what it is about, and what only some calls come to.
CertsCallOK(r) == /\ r.pc = "idle" <=> r.kind = S!None
                  /\ r.pc # "idle" => r.cert \in Cert /\ r.src \in Holder
                  /\ r.pc = "erase" => r.kind \in {"fix", "delete"}
                  /\ r.result = "ok" => r.pc = "done"
CertsCallsOK == \A j \in Request : CertsCallOK(request[j])

\* All that is said of a node is of what it held.
CertsStoreHeld == \A n \in Holder : S!Has(n) \subseteq held[n]
CertsLocalHeld == \A n \in Holder : local[n] \subseteq held[n]
   /\ loop[n].seen \subseteq held[n]
CertsWireHeld == \A n, m \in Holder : wire[n][m] # S!Nothing => wire[n][m] \subseteq held[n]
CertsAskedHeld == asked # S!Nothing => \A m \in Holder \ {Server} : asked \subseteq held[m]
CertsSeenHeld == \A j \in Request : request[j].seen \subseteq held[Site[j]]

\* After its installation a call reports nothing that is not there.
CertsInstalled(r) == /\ r.pc \in {"cer", "password", "list", "index"} \/ r.result = "ok"
                     /\ r.kind # "delete"
CertsStillThere == \A j \in Request : CertsInstalled(request[j]) /\ S!Untouched(j)
   => request[j].cert \in S!Has(Site[j])

CertsInv == /\ S!TypeOK /\ CertsCallsOK /\ CertsStoreHeld /\ CertsLocalHeld
               /\ S!OffersHeld /\ CertsWireHeld /\ CertsAskedHeld
            /\ CertsSeenHeld /\ CertsStillThere

LEMMA CertsTyping ==
  S!TypeOK <=> /\ pin \in [Holder -> CertsPins] /\ local \in [Holder -> SUBSET Cert]
               /\ on \in [Holder -> [Holder -> SUBSET Cert]] /\ gone \subseteq Holder
               /\ loop \in [Holder -> CertsLoops] /\ link \in BOOLEAN
               /\ wire \in [Holder -> [Holder -> S!Digest]] /\ asked \in S!Digest
               /\ request \in [Request -> CertsJobs] /\ outages \in 0 .. MaxFaults
               /\ held \in [Holder -> SUBSET Cert]
  BY Zenon DEF S!TypeOK, CertsPins, CertsLoops, CertsJobs

LEMMA CertsTypingNext ==
  S!TypeOK' <=> /\ pin' \in [Holder -> CertsPins] /\ local' \in [Holder -> SUBSET Cert]
                /\ on' \in [Holder -> [Holder -> SUBSET Cert]] /\ gone' \subseteq Holder
                /\ loop' \in [Holder -> CertsLoops] /\ link' \in BOOLEAN
                /\ wire' \in [Holder -> [Holder -> S!Digest]] /\ asked' \in S!Digest
                /\ request' \in [Request -> CertsJobs] /\ outages' \in 0 .. MaxFaults
                /\ held' \in [Holder -> SUBSET Cert]
  BY Zenon DEF S!TypeOK, CertsPins, CertsLoops, CertsJobs

LEMMA CertsInitInv == ASSUME CertsSized, S!Init PROVE CertsInv
<1>1. S!TypeOK
  <2>1. pin \in [Holder -> CertsPins] /\ held \in [Holder -> SUBSET Cert]
    BY DEF S!Init, CertsPins, CertsSized
  <2>2. /\ local \in [Holder -> SUBSET Cert] /\ on \in [Holder -> [Holder -> SUBSET Cert]]
        /\ gone \subseteq Holder
    BY DEF S!Init
  <2>3. loop \in [Holder -> CertsLoops]
    BY DEF S!Init, S!Asleep, CertsLoops
  <2>4. wire \in [Holder -> [Holder -> S!Digest]] /\ asked \in S!Digest
    BY DEF S!Init, S!Digest
  <2>5. link \in BOOLEAN
    BY Zenon DEF S!Init
  <2>6. S!Waits \in CertsJobs
    BY DEF S!Waits, CertsJobs
  <2>7. request \in [Request -> CertsJobs] /\ outages \in 0 .. MaxFaults
    BY <2>6 DEF S!Init, CertsSized
  <2> QED
    BY <2>1, <2>2, <2>3, <2>4, <2>5, <2>7, CertsTyping
<1>2. CertsCallsOK /\ CertsSeenHeld
  BY DEF S!Init, CertsCallsOK, CertsCallOK, CertsSeenHeld, S!Waits, S!None
<1>3. CertsStoreHeld /\ CertsLocalHeld
  BY DEF S!Init, CertsStoreHeld, CertsLocalHeld, S!Has, S!Asleep, CertsSized
<1>4. S!OffersHeld /\ CertsWireHeld /\ CertsAskedHeld
  BY DEF S!Init, S!OffersHeld, CertsWireHeld, CertsAskedHeld
<1>5. CertsStillThere
  BY DEF S!Init, CertsStillThere, CertsInstalled, S!Waits, S!None
<1> QED
  BY <1>1, <1>2, <1>3, <1>4, <1>5 DEF CertsInv

-----------------------------------------------------------------------------
LEMMA CertsFaultFact ==
  ASSUME CertsSized, outages \in 0 .. MaxFaults, S!Fault \/ S!Works
  PROVE  outages' \in 0 .. MaxFaults
BY DEF CertsSized, S!Fault, S!Works

\* What a command does to the node it runs at.
LEMMA CertsCommandFact ==
  ASSUME CertsSized, CertsInv, NEW n \in Holder, S!Command(n) \/ S!Fails(n)
  PROVE  gone' \subseteq Holder /\ outages' \in 0 .. MaxFaults
<1>1. gone \subseteq Holder /\ outages \in 0 .. MaxFaults
  BY CertsTyping DEF CertsInv
<1>2. S!Fault \/ S!Works
  BY DEF S!Command, S!Fails
<1>3. gone' \subseteq Holder
  BY <1>1 DEF S!Command, S!Fails
<1> QED
  BY <1>1, <1>2, <1>3, CertsFaultFact

LEMMA CertsListingFact ==
  ASSUME CertsSized, CertsInv, NEW n \in Holder, NEW seen \in SUBSET Cert,
         S!Listing(n, seen)
  PROVE  gone' \subseteq Holder /\ outages' \in 0 .. MaxFaults /\ seen \subseteq held[n]
<1>1. S!Command(n) \/ S!Fails(n)
  BY DEF S!Listing
<1>2. seen \subseteq held[n]
  BY DEF S!Listing, CertsInv, CertsStoreHeld
<1> QED
  BY <1>1, <1>2, CertsCommandFact

\* What is still untouched after a step was so before it.
LEMMA CertsUntouchedBefore ==
  ASSUME CertsInv, NEW j \in Request, S!Untouched(j)',
         \A i \in Request : \/ request'[i].kind = request[i].kind
                               /\ request'[i].cert = request[i].cert
                            \/ request[i].kind = S!None,
         request'[j].cert = request[j].cert
  PROVE  S!Untouched(j)
BY DEF S!Untouched, S!Here, S!What, S!None

\* The stores stay; the calls and what is listed move.
LEMMA CertsSpreadInv ==
  ASSUME CertsSized, CertsInv, UNCHANGED <<pin, held, request>>,
         gone' \subseteq Holder, outages' \in 0 .. MaxFaults, link' \in BOOLEAN,
         local' \in [Holder -> SUBSET Cert], on' \in [Holder -> [Holder -> SUBSET Cert]],
         loop' \in [Holder -> CertsLoops], wire' \in [Holder -> [Holder -> S!Digest]], asked' \in S!Digest,
         CertsLocalHeld', S!OffersHeld', CertsWireHeld', CertsAskedHeld'
  PROVE  CertsInv'
<1> USE DEF CertsInv
<1>1. S!TypeOK'
  BY CertsTyping, CertsTypingNext
<1>2. CertsCallsOK' /\ CertsStoreHeld' /\ CertsSeenHeld'
  BY DEF CertsCallsOK, CertsStoreHeld, CertsSeenHeld, S!Has
<1>3. CertsStillThere'
  BY DEF CertsStillThere, S!Has, S!Untouched, S!Here, S!What
<1> QED
  BY <1>1, <1>2, <1>3

LEMMA CertsLoopListsInv ==
  ASSUME CertsSized, CertsInv, NEW n \in Holder, S!LoopLists(n)
  PROVE  CertsInv'
<1> USE DEF CertsInv
<1>1. /\ UNCHANGED <<pin, held, local, on, link, wire, asked, request>>
  BY DEF S!LoopLists, S!storeVars, S!netVars
<1>2. PICK seen \in SUBSET Cert, pc \in {"last", "listed"} :
         S!Listing(n, seen) /\ S!LoopAt(n, pc, seen)
  BY DEF S!LoopLists
<1>3. gone' \subseteq Holder /\ outages' \in 0 .. MaxFaults /\ seen \subseteq held[n]
  BY <1>2, CertsListingFact
<1>4. [pc |-> pc, seen |-> seen] \in CertsLoops
  BY DEF CertsLoops
<1>5. /\ loop' \in [Holder -> CertsLoops] /\ loop'[n].seen = seen
      /\ \A m \in Holder \ {n} : loop'[m] = loop[m]
  BY <1>2, <1>4, CertsTyping DEF S!LoopAt
<1>6. CertsLocalHeld'
  BY <1>1, <1>3, <1>5 DEF CertsLocalHeld
<1>7. S!OffersHeld' /\ CertsWireHeld' /\ CertsAskedHeld'
  BY <1>1 DEF S!OffersHeld, CertsWireHeld, CertsAskedHeld
<1> QED
  BY <1>1, <1>3, <1>5, <1>6, <1>7, CertsTyping, CertsSpreadInv

LEMMA CertsLoopSendsInv ==
  ASSUME CertsSized, CertsInv, NEW n \in Holder, S!LoopSends(n)
  PROVE  CertsInv'
<1> USE DEF CertsInv
<1>1. /\ UNCHANGED <<pin, held, on, gone, link, asked, request, outages>>
      /\ local' = [local EXCEPT ![n] = loop[n].seen] /\ S!LoopAt(n, "sleep", {})
  BY DEF S!LoopSends, S!storeVars, S!UpdateLocal
<1>2. loop[n].seen \subseteq held[n] /\ loop[n].seen \subseteq Cert
  BY CertsTyping DEF CertsLocalHeld, CertsLoops
<1>3. [pc |-> "sleep", seen |-> {}] \in CertsLoops
  BY DEF CertsLoops
<1>4. /\ loop' \in [Holder -> CertsLoops] /\ loop'[n].seen = {}
      /\ \A m \in Holder \ {n} : loop'[m] = loop[m]
  BY <1>1, <1>3, CertsTyping DEF S!LoopAt
<1>5. /\ local' \in [Holder -> SUBSET Cert] /\ local'[n] = loop[n].seen
      /\ \A m \in Holder \ {n} : local'[m] = local[m]
  BY <1>1, <1>2, CertsTyping
<1>6. CertsLocalHeld'
  BY <1>1, <1>2, <1>4, <1>5 DEF CertsLocalHeld
<1>7. S!OffersHeld' /\ CertsAskedHeld'
  BY <1>1 DEF S!OffersHeld, CertsAskedHeld
<1>8. wire' \in [Holder -> [Holder -> S!Digest]] /\ CertsWireHeld'
  <2>1. CASE wire' = wire
    BY <1>1, <2>1, CertsTyping DEF CertsWireHeld
  <2>2. CASE wire' = [wire EXCEPT ![n] = [m \in Holder |-> IF m = n THEN S!Nothing ELSE local'[n]]]
    <3> DEFINE w == [m \in Holder |-> IF m = n THEN S!Nothing ELSE local'[n]]
    <3>1. local'[n] \in S!Digest /\ S!Nothing \in S!Digest
      BY <1>5 DEF S!Digest
    <3>2. w \in [Holder -> S!Digest] /\ \A m \in Holder : w[m] # S!Nothing
             => w[m] \subseteq held[n]
      BY <1>2, <1>5, <3>1
    <3> HIDE DEF w
    <3>3. wire' \in [Holder -> [Holder -> S!Digest]] /\ wire'[n] = w
          /\ \A m \in Holder \ {n} : wire'[m] = wire[m]
      BY <2>2, <3>2, CertsTyping DEF w
    <3> QED
      BY <1>1, <3>2, <3>3 DEF CertsWireHeld
  <2> QED
    BY <2>1, <2>2 DEF S!LoopSends, S!DigestOf
<1> QED
  BY <1>1, <1>4, <1>5, <1>6, <1>7, <1>8, CertsTyping, CertsSpreadInv

LEMMA CertsLoopEndsInv ==
  ASSUME CertsSized, CertsInv, NEW n \in Holder, S!LoopEnds(n)
  PROVE  CertsInv'
<1> USE DEF CertsInv
<1>1. /\ UNCHANGED <<pin, held, on, gone, link, wire, asked, request, outages>>
      /\ local' = [local EXCEPT ![n] = loop[n].seen] \/ local' = local
      /\ S!LoopAt(n, "over", {})
  BY DEF S!LoopEnds, S!storeVars, S!netVars, S!UpdateLocal
<1>2. loop[n].seen \subseteq held[n] /\ loop[n].seen \subseteq Cert
  BY CertsTyping DEF CertsLocalHeld, CertsLoops
<1>3. [pc |-> "over", seen |-> {}] \in CertsLoops
  BY DEF CertsLoops
<1>4. /\ loop' \in [Holder -> CertsLoops] /\ loop'[n].seen = {}
      /\ \A m \in Holder \ {n} : loop'[m] = loop[m]
  BY <1>1, <1>3, CertsTyping DEF S!LoopAt
<1>5. /\ local' \in [Holder -> SUBSET Cert] /\ (local'[n] = loop[n].seen
          \/ local'[n] = local[n])
      /\ \A m \in Holder \ {n} : local'[m] = local[m]
  BY <1>1, <1>2, CertsTyping
<1>6. CertsLocalHeld'
  BY <1>1, <1>2, <1>4, <1>5 DEF CertsLocalHeld
<1>7. S!OffersHeld' /\ CertsAskedHeld' /\ CertsWireHeld'
  BY <1>1 DEF S!OffersHeld, CertsAskedHeld, CertsWireHeld
<1> QED
  BY <1>1, <1>4, <1>5, <1>6, <1>7, CertsTyping, CertsSpreadInv

\* What one node is told of another.
LEMMA CertsMergedFact ==
  ASSUME CertsInv, NEW n \in Holder, NEW m \in Holder, NEW certs \in SUBSET Cert,
         certs \subseteq held[m], on' = S!Merged(n, m, certs), held' = held
  PROVE  on' \in [Holder -> [Holder -> SUBSET Cert]] /\ S!OffersHeld'
<1>1. on \in [Holder -> [Holder -> SUBSET Cert]]
  BY CertsTyping DEF CertsInv
<1>2. on' \in [Holder -> [Holder -> SUBSET Cert]]
  BY <1>1 DEF S!Merged
<1>3. \A k, l \in Holder : on'[k][l] = IF k = n /\ l = m THEN certs ELSE on[k][l]
  BY <1>1 DEF S!Merged
<1> QED
  BY <1>2, <1>3 DEF CertsInv, S!OffersHeld

LEMMA CertsSyncInv ==
  ASSUME CertsSized, CertsInv, NEW n \in Holder, NEW m \in Holder, S!Sync(n, m)
  PROVE  CertsInv'
<1> USE DEF CertsInv
<1>1. /\ UNCHANGED <<pin, held, local, gone, loop, link, asked, request, outages>>
      /\ wire[m][n] # S!Nothing /\ on' = S!Merged(n, m, wire[m][n])
      /\ wire' = [wire EXCEPT ![m][n] = S!Nothing]
  BY DEF S!Sync, S!storeVars
<1>2. wire[m][n] \in SUBSET Cert /\ wire[m][n] \subseteq held[m]
  BY <1>1, CertsTyping DEF S!Digest, CertsWireHeld
<1>3. on' \in [Holder -> [Holder -> SUBSET Cert]] /\ S!OffersHeld'
  BY <1>1, <1>2, CertsMergedFact
<1>4. wire' \in [Holder -> [Holder -> S!Digest]]
  BY <1>1, CertsTyping DEF S!Digest
<1>5. \A k, l \in Holder : wire'[k][l] = IF k = m /\ l = n THEN S!Nothing ELSE wire[k][l]
  BY <1>1, CertsTyping
<1>6. CertsWireHeld' /\ CertsLocalHeld' /\ CertsAskedHeld'
  BY <1>1, <1>5 DEF CertsWireHeld, CertsLocalHeld, CertsAskedHeld
<1> QED
  BY <1>1, <1>3, <1>4, <1>6, CertsTyping, CertsSpreadInv

LEMMA CertsConnectInv == ASSUME CertsSized, CertsInv, S!Connect PROVE CertsInv'
<1> USE DEF CertsInv
<1>1. UNCHANGED <<pin, held, local, on, gone, loop, request>> /\ link' \in BOOLEAN
  BY Zenon DEF S!Connect, S!storeVars
<1>2. S!OffersHeld' /\ CertsLocalHeld'
  BY <1>1 DEF S!OffersHeld, CertsLocalHeld
<1>3. PICK m \in Holder \ {Server} :
         \/ UNCHANGED <<wire, asked, outages>>
         \/ /\ \/ asked' = local[m] /\ S!Works
               \/ S!Fault /\ asked' = asked
            /\ wire' = [wire EXCEPT ![Server][m] = local[Server]]
  BY DEF S!Connect, S!DigestOf
<1>4. CASE UNCHANGED <<wire, asked, outages>>
  <2>1. CertsWireHeld' /\ CertsAskedHeld'
    BY <1>1, <1>4 DEF CertsWireHeld, CertsAskedHeld
  <2> QED
    BY <1>1, <1>2, <1>4, <2>1, CertsTyping, CertsSpreadInv
<1>5. CASE /\ \/ asked' = local[m] /\ S!Works
              \/ S!Fault /\ asked' = asked
           /\ wire' = [wire EXCEPT ![Server][m] = local[Server]]
  <2>1. outages' \in 0 .. MaxFaults
    BY <1>5, CertsFaultFact, CertsTyping
  <2>2. /\ Server \in Holder /\ local[Server] \in S!Digest
        /\ local[Server] \subseteq held[Server]
        /\ local[m] \in S!Digest /\ local[m] \subseteq held[m]
    BY CertsTyping DEF CertsSized, S!Digest, CertsLocalHeld
  <2>3. wire' \in [Holder -> [Holder -> S!Digest]]
    BY <1>5, <2>2, CertsTyping
  <2>4. \A k, l \in Holder : wire'[k][l] = IF k = Server
           /\ l = m THEN local[Server] ELSE wire[k][l]
    BY <1>5, <2>2, CertsTyping
  <2>5. CertsWireHeld'
    BY <1>1, <2>2, <2>4 DEF CertsWireHeld
  <2>6. asked' \in S!Digest /\ CertsAskedHeld'
    <3>1. CASE asked' = local[m]
      BY <1>1, <2>2, <3>1 DEF CertsAskedHeld, CertsSized
    <3>2. CASE asked' = asked
      BY <1>1, <3>2, CertsTyping DEF CertsAskedHeld
    <3> QED
      BY <1>5, <3>1, <3>2
  <2> QED
    BY <1>1, <1>2, <2>1, <2>3, <2>5, <2>6, CertsTyping, CertsSpreadInv
<1> QED
  BY <1>3, <1>4, <1>5

LEMMA CertsMergeAnswerInv == ASSUME CertsSized, CertsInv, S!MergeAnswer PROVE CertsInv'
<1> USE DEF CertsInv
<1>1. /\ UNCHANGED <<pin, held, local, gone, loop, link, wire, request, outages>>
      /\ asked # S!Nothing /\ asked' = S!Nothing
  BY DEF S!MergeAnswer, S!storeVars
<1>2. PICK m \in Holder \ {Server} : on' = S!Merged(Server, m, asked)
  BY DEF S!MergeAnswer
<1>3. asked \in SUBSET Cert /\ asked \subseteq held[m] /\ Server \in Holder
  BY <1>1, CertsTyping DEF S!Digest, CertsAskedHeld, CertsSized
<1>4. on' \in [Holder -> [Holder -> SUBSET Cert]] /\ S!OffersHeld'
  BY <1>1, <1>2, <1>3, CertsMergedFact
<1>5. CertsWireHeld' /\ CertsLocalHeld' /\ CertsAskedHeld' /\ asked' \in S!Digest
  BY <1>1 DEF CertsWireHeld, CertsLocalHeld, CertsAskedHeld, S!Digest
<1> QED
  BY <1>1, <1>4, <1>5, CertsTyping, CertsSpreadInv

LEMMA CertsNoWire ==
  ASSUME wire' = [n \in Holder |-> [m \in Holder |-> S!Nothing]]
  PROVE  wire' \in [Holder -> [Holder -> S!Digest]] /\ CertsWireHeld'
BY DEF S!Digest, CertsWireHeld

LEMMA CertsDisconnectInv == ASSUME CertsSized, CertsInv, S!Disconnect PROVE CertsInv'
<1> USE DEF CertsInv
<1>1. /\ UNCHANGED <<pin, held, local, on, gone, loop, asked, request>> /\ S!Fault
      /\ wire' = [n \in Holder |-> [m \in Holder |-> S!Nothing]]
  BY DEF S!Disconnect, S!storeVars
<1>2. link' \in BOOLEAN
  BY Zenon DEF S!Disconnect
<1>3. outages' \in 0 .. MaxFaults
  BY <1>1, CertsFaultFact, CertsTyping
<1>4. S!OffersHeld' /\ CertsLocalHeld' /\ CertsAskedHeld'
  BY <1>1 DEF S!OffersHeld, CertsLocalHeld, CertsAskedHeld
<1> QED
  BY <1>1, <1>2, <1>3, <1>4, CertsNoWire, CertsTyping, CertsSpreadInv

LEMMA CertsRestartInv ==
  ASSUME CertsSized, CertsInv, NEW n \in Holder, S!Restart(n)
  PROVE  CertsInv'
<1> USE DEF CertsInv
<1> DEFINE J(j) == IF Site[j] = n /\ request[j].pc \notin {"idle", "done"}
                   THEN [request[j] EXCEPT !.pc = "done", !.result = "lost"] ELSE request[j]
<1>1. /\ UNCHANGED <<pin, held>> /\ S!Fault /\ link' = FALSE
      /\ wire' = [k \in Holder |-> [m \in Holder |-> S!Nothing]]
      /\ asked' = S!Nothing \/ asked' = asked
      /\ gone' = gone \ {n}
  BY DEF S!Restart, S!storeVars
<1>2. outages' \in 0 .. MaxFaults /\ gone' \subseteq Holder /\ link' \in BOOLEAN
         /\ asked' \in S!Digest
  BY <1>1, CertsFaultFact, CertsTyping DEF S!Digest
<1>3. /\ local' \in [Holder -> SUBSET Cert] /\ loop' \in [Holder -> CertsLoops]
      /\ \A m \in Holder : /\ local'[m] = {} \/ local'[m] = local[m]
                           /\ loop'[m].seen = {} \/ loop'[m] = loop[m]
  <2>1. S!Asleep \in CertsLoops /\ S!Asleep.seen = {}
    BY DEF S!Asleep, CertsLoops
  <2>2. local' = [local EXCEPT ![n] = {}] /\ loop' = [loop EXCEPT ![n] = S!Asleep]
    BY DEF S!Restart
  <2> QED
    BY <2>1, <2>2, CertsTyping
<1>4. on' \in [Holder -> [Holder -> SUBSET Cert]] /\ S!OffersHeld'
  <2>1. on' = [on EXCEPT ![n] = [m \in Holder |-> {}]]
    BY DEF S!Restart
  <2>2. on' \in [Holder -> [Holder -> SUBSET Cert]]
    BY <2>1, CertsTyping
  <2>3. \A k, m \in Holder : on'[k][m] = {} \/ on'[k][m] = on[k][m]
    BY <2>1, CertsTyping
  <2> QED
    BY <1>1, <2>2, <2>3 DEF S!OffersHeld
<1>5. CertsLocalHeld' /\ CertsAskedHeld' /\ CertsStoreHeld'
  BY <1>1, <1>3 DEF CertsLocalHeld, CertsAskedHeld, CertsStoreHeld, S!Has
<1>6. request' = [j \in Request |-> J(j)]
  BY DEF S!Restart
<1>7. \A j \in Request : /\ J(j) \in CertsJobs /\ J(j).kind = request[j].kind
                            /\ J(j).cert = request[j].cert
                         /\ J(j).seen = request[j].seen /\ J(j).src = request[j].src
                         /\ \/ J(j) = request[j]
                            \/ J(j).pc = "done" /\ J(j).result = "lost"
                                /\ request[j].pc # "idle"
  <2> SUFFICES ASSUME NEW j \in Request
               PROVE  /\ J(j) \in CertsJobs /\ J(j).kind = request[j].kind
                         /\ J(j).cert = request[j].cert
                      /\ J(j).seen = request[j].seen /\ J(j).src = request[j].src
                      /\ \/ J(j) = request[j]
                         \/ J(j).pc = "done" /\ J(j).result = "lost"
                             /\ request[j].pc # "idle"
    OBVIOUS
  <2>1. request[j] \in CertsJobs
    BY CertsTyping
  <2>2. CASE Site[j] = n /\ request[j].pc \notin {"idle", "done"}
    <3>1. J(j) = [request[j] EXCEPT !.pc = "done", !.result = "lost"]
      BY <2>2
    <3>2. [request[j] EXCEPT !.pc = "done"] \in CertsJobs
      BY <2>1 DEF CertsJobs
    <3> HIDE DEF J
    <3> QED
      BY <2>1, <2>2, <3>1, <3>2, ZenonT(40) DEF CertsJobs
  <2>3. CASE ~(Site[j] = n /\ request[j].pc \notin {"idle", "done"})
    BY <2>1, <2>3
  <2> QED
    BY <2>2, <2>3
<1> HIDE DEF J
<1>8. request' \in [Request -> CertsJobs]
  BY <1>6, <1>7
<1>9. \A j \in Request : request'[j] = J(j)
  BY <1>6
<1>10. CertsCallsOK' /\ CertsSeenHeld'
  BY <1>1, <1>7, <1>9 DEF CertsCallsOK, CertsCallOK, CertsSeenHeld, S!None
<1>11. CertsStillThere'
  <2> SUFFICES ASSUME NEW j \in Request, CertsInstalled(request'[j]), S!Untouched(j)'
               PROVE  request'[j].cert \in S!Has(Site[j])'
    BY DEF CertsStillThere, CertsInstalled
  <2>1. request'[j] = request[j]
    BY <1>7, <1>9 DEF CertsInstalled
  <2>2. S!Untouched(j)
    BY <1>7, <1>9, CertsUntouchedBefore
  <2> QED
    BY <1>1, <2>1, <2>2 DEF CertsStillThere, S!Has
<1>12. S!TypeOK'
  BY <1>1, <1>2, <1>3, <1>4, <1>8, CertsNoWire, CertsTyping, CertsTypingNext
<1> QED
  BY <1>1, <1>4, <1>5, <1>10, <1>11, <1>12, CertsNoWire

-----------------------------------------------------------------------------
\* A step of a call: its record, and what it does to the certificates of its node.
LEMMA CertsCallStep ==
  ASSUME CertsSized, CertsInv, NEW j \in Request, NEW g \in CertsJobs,
         request' = [request EXCEPT ![j] = g], S!Quiet,
         gone' \subseteq Holder, outages' \in 0 .. MaxFaults,
         pin' \in [Holder -> CertsPins], held' \in [Holder -> SUBSET Cert],
         \A n \in Holder : held[n] \subseteq held'[n], CertsStoreHeld',
         CertsCallOK(g), g.seen \subseteq held'[Site[j]],
         (g.kind = request[j].kind /\ g.cert = request[j].cert) \/ request[j].kind = S!None,
         \* what the step takes away
         \A n \in Holder, c \in Cert : c \in S!Has(n) =>
            \/ c \in S!Has(n)'
            \/ request[j].kind \in {"fix", "delete"} /\ n = Site[j] /\ c = request[j].cert
               /\ g.kind = request[j].kind /\ g.cert = request[j].cert,
         CertsInstalled(g) => \/ g.cert \in S!Has(Site[j])'
                              \/ /\ CertsInstalled(request[j])
                                  /\ g.cert = request[j].cert /\ g.kind = request[j].kind
                                 /\ S!Has(Site[j]) \subseteq S!Has(Site[j])'
  PROVE  CertsInv'
<1> USE DEF CertsInv
<1>1. request' \in [Request -> CertsJobs] /\ request'[j] = g
         /\ \A i \in Request \ {j} : request'[i] = request[i]
  BY CertsTyping
<1>2. UNCHANGED <<local, on, loop, link, wire, asked>>
  BY DEF S!Quiet, S!netVars
<1>3. S!TypeOK'
  BY <1>1, <1>2, CertsTyping, CertsTypingNext
<1>4. CertsCallsOK'
  BY <1>1 DEF CertsCallsOK
<1>5. CertsSeenHeld'
  <2>1. \A i \in Request : Site[i] \in Holder
    BY DEF CertsSized
  <2> QED
    BY <1>1, <2>1 DEF CertsSeenHeld
<1>6. CertsLocalHeld' /\ S!OffersHeld' /\ CertsWireHeld'
  BY <1>2 DEF CertsLocalHeld, S!OffersHeld, CertsWireHeld
<1>7. CertsAskedHeld'
  BY <1>2 DEF CertsAskedHeld
<1>8. CertsStillThere'
  <2> SUFFICES ASSUME NEW i \in Request, CertsInstalled(request'[i]), S!Untouched(i)'
               PROVE  request'[i].cert \in S!Has(Site[i])'
    BY DEF CertsStillThere, CertsInstalled
  <2>1. Site[i] \in Holder
    BY DEF CertsSized
  <2>2. \A k \in Request : \/ request'[k].kind = request[k].kind
                              /\ request'[k].cert = request[k].cert
                           \/ request[k].kind = S!None
    BY <1>1
  <2>3. CASE i = j
    <3>1. CASE g.cert \in S!Has(Site[j])'
      BY <1>1, <2>3, <3>1
    <3>2. CASE /\ CertsInstalled(request[j]) /\ g.cert = request[j].cert
               /\ g.kind = request[j].kind
               /\ S!Has(Site[j]) \subseteq S!Has(Site[j])'
      <4>1. S!Untouched(j)
        BY <1>1, <2>2, <2>3, <3>2, CertsUntouchedBefore
      <4> QED
        BY <1>1, <2>3, <3>2, <4>1 DEF CertsStillThere
    <3> QED
      BY <1>1, <2>3, <3>1, <3>2
  <2>4. CASE i # j
    <3>1. request'[i] = request[i]
      BY <1>1, <2>4
    <3>2. S!Untouched(i)
      BY <2>2, <3>1, CertsUntouchedBefore
    <3>3. request[i].cert \in S!Has(Site[i]) /\ request[i].cert \in Cert
      BY <3>1, <3>2 DEF CertsStillThere, S!Has
    <3>4. ~(/\ request[j].kind \in {"fix", "delete"} /\ Site[i] = Site[j]
             /\ request[i].cert = request[j].cert
            /\ g.kind = request[j].kind /\ g.cert = request[j].cert)
      BY <2>4, <3>2 DEF S!Untouched, S!Here, S!What
    <3> QED
      BY <2>1, <3>1, <3>3, <3>4
  <2> QED
    BY <2>3, <2>4
<1> QED
  BY <1>3, <1>4, <1>5, <1>6, <1>7, <1>8

\* A step that only looks, or installs nothing.
LEMMA CertsCallLooks ==
  ASSUME CertsSized, CertsInv, NEW j \in Request, NEW g \in CertsJobs,
         request' = [request EXCEPT ![j] = g], S!Quiet,
         gone' \subseteq Holder, outages' \in 0 .. MaxFaults, UNCHANGED <<pin, held>>,
         CertsCallOK(g), g.seen \subseteq held[Site[j]],
         (g.kind = request[j].kind /\ g.cert = request[j].cert) \/ request[j].kind = S!None,
         CertsInstalled(g) => CertsInstalled(request[j]) /\ g.cert = request[j].cert
            /\ g.kind = request[j].kind
  PROVE  CertsInv'
<1> USE DEF CertsInv
<1>1. pin' \in [Holder -> CertsPins] /\ held' \in [Holder -> SUBSET Cert]
  BY CertsTyping
<1>2. \A n \in Holder : S!Has(n)' = S!Has(n) /\ held[n] = held'[n]
  BY DEF S!Has
<1>3. CertsStoreHeld' /\ g.seen \subseteq held'[Site[j]]
  BY <1>2 DEF CertsStoreHeld
<1>4. Site[j] \in Holder
  BY DEF CertsSized
<1> QED
  BY <1>1, <1>2, <1>3, <1>4, CertsCallStep

\* The records a call goes through.
LEMMA CertsRecords ==
  ASSUME CertsSized, CertsInv, NEW j \in Request
  PROVE  /\ Site[j] \in Holder /\ request[j] \in CertsJobs /\ CertsCallOK(request[j])
         /\ request[j].seen \subseteq held[Site[j]]
BY CertsTyping DEF CertsInv, CertsCallsOK, CertsSeenHeld, CertsSized

LEMMA CertsGoesOn ==
  ASSUME CertsSized, CertsInv, NEW j \in Request,
         NEW pc \in {"export", "erase", "install", "cer", "password", "list"}, S!Goes(j, pc)
  PROVE  \E g \in CertsJobs : /\ request' = [request EXCEPT ![j] = g] /\ g.pc = pc
                              /\ g.kind = request[j].kind /\ g.cert = request[j].cert
                              /\ g.src = request[j].src
                              /\ g.seen = request[j].seen /\ g.result = request[j].result
<1> DEFINE g == [request[j] EXCEPT !.pc = pc]
<1>1. request' = [request EXCEPT ![j] = g]
  BY CertsTyping DEF S!Goes, CertsInv
<1>2. /\ g \in CertsJobs /\ g.pc = pc /\ g.kind = request[j].kind
      /\ g.cert = request[j].cert
      /\ g.src = request[j].src /\ g.seen = request[j].seen /\ g.result = request[j].result
  BY CertsRecords DEF CertsJobs
<1> HIDE DEF g
<1> QED
  BY <1>1, <1>2

LEMMA CertsIsOver ==
  ASSUME CertsSized, CertsInv, NEW j \in Request, NEW r \in {"ok", "error"}, S!Ends(j, r)
  PROVE  \E g \in CertsJobs : /\ request' = [request EXCEPT ![j] = g] /\ g.pc = "done"
                              /\ g.kind = request[j].kind /\ g.cert = request[j].cert
                              /\ g.src = request[j].src
                              /\ g.seen = request[j].seen /\ g.result = r
<1> DEFINE h == [request[j] EXCEPT !.pc = "done"]
           g == [h EXCEPT !.result = r]
<1>1. request' = [request EXCEPT ![j] = g]
  BY CertsTyping DEF S!Ends, CertsInv
<1>2. /\ h \in CertsJobs /\ h.pc = "done" /\ h.kind = request[j].kind
      /\ h.cert = request[j].cert
      /\ h.src = request[j].src /\ h.seen = request[j].seen
  BY CertsRecords DEF CertsJobs
<1> HIDE DEF h
<1>3. /\ g \in CertsJobs /\ g.pc = "done" /\ g.kind = h.kind /\ g.cert = h.cert
      /\ g.src = h.src /\ g.seen = h.seen /\ g.result = r
  BY <1>2 DEF CertsJobs
<1> HIDE DEF g
<1> QED
  BY <1>1, <1>2, <1>3

LEMMA CertsLists ==
  ASSUME CertsSized, CertsInv, NEW j \in Request, NEW seen \in SUBSET Cert,
         request' = [request EXCEPT ![j].pc = "index", ![j].seen = seen]
  PROVE  \E g \in CertsJobs : /\ request' = [request EXCEPT ![j] = g] /\ g.pc = "index"
                              /\ g.kind = request[j].kind /\ g.cert = request[j].cert
                              /\ g.src = request[j].src
                              /\ g.seen = seen /\ g.result = request[j].result
<1> DEFINE h == [request[j] EXCEPT !.pc = "index"]
           g == [h EXCEPT !.seen = seen]
<1>1. request' = [request EXCEPT ![j] = g]
  BY CertsTyping DEF CertsInv
<1>2. /\ h \in CertsJobs /\ h.pc = "index" /\ h.kind = request[j].kind
      /\ h.cert = request[j].cert
      /\ h.src = request[j].src /\ h.result = request[j].result
  BY CertsRecords DEF CertsJobs
<1> HIDE DEF h
<1>3. /\ g \in CertsJobs /\ g.pc = "index" /\ g.kind = h.kind /\ g.cert = h.cert
      /\ g.src = h.src /\ g.seen = seen /\ g.result = h.result
  BY <1>2 DEF CertsJobs
<1> HIDE DEF g
<1> QED
  BY <1>1, <1>2, <1>3

\* A call that goes on, or ends, and has changed nothing.
LEMMA CertsGoesInv ==
  ASSUME CertsSized, CertsInv, NEW j \in Request, request[j].pc # "idle",
         request[j].pc # "done",
         NEW pc \in {"export", "erase", "install", "cer", "password", "list"}, S!Goes(j, pc),
         UNCHANGED <<pin, held>>, S!Quiet, gone' \subseteq Holder, outages' \in 0 .. MaxFaults,
         pc = "erase" => request[j].kind \in {"fix", "delete"},
         pc \in {"cer", "password", "list"} => request[j].pc \in {"password"}
  PROVE  CertsInv'
<1>1. PICK g \in CertsJobs : /\ request' = [request EXCEPT ![j] = g] /\ g.pc = pc
                             /\ g.kind = request[j].kind /\ g.cert = request[j].cert
                             /\ g.src = request[j].src
                             /\ g.seen = request[j].seen /\ g.result = request[j].result
  BY CertsGoesOn
<1>2. CertsCallOK(g) /\ g.seen \subseteq held[Site[j]]
  BY <1>1, CertsRecords DEF CertsCallOK
<1>3. CertsInstalled(g) => CertsInstalled(request[j])
  BY <1>1, CertsRecords DEF CertsInstalled, CertsCallOK
<1> QED
  BY <1>1, <1>2, <1>3, CertsCallLooks

LEMMA CertsEndsInv ==
  ASSUME CertsSized, CertsInv, NEW j \in Request, request[j].pc # "idle",
         NEW r \in {"ok", "error"}, S!Ends(j, r),
         UNCHANGED <<pin, held>>, S!Quiet, gone' \subseteq Holder, outages' \in 0 .. MaxFaults,
         r = "ok" => request[j].pc \in {"cer", "index"} \/ request[j].kind = "delete"
  PROVE  CertsInv'
<1>1. PICK g \in CertsJobs : /\ request' = [request EXCEPT ![j] = g] /\ g.pc = "done"
                             /\ g.kind = request[j].kind /\ g.cert = request[j].cert
                             /\ g.src = request[j].src
                             /\ g.seen = request[j].seen /\ g.result = r
  BY CertsIsOver
<1>2. CertsCallOK(g) /\ g.seen \subseteq held[Site[j]]
  BY <1>1, CertsRecords DEF CertsCallOK
<1>3. CertsInstalled(g) => CertsInstalled(request[j])
  BY <1>1, CertsRecords DEF CertsInstalled, CertsCallOK
<1> QED
  BY <1>1, <1>2, <1>3, CertsCallLooks

LEMMA CertsCallInv ==
  ASSUME CertsSized, CertsInv, NEW j \in Request, S!Call(j)
  PROVE  CertsInv'
<1>1. /\ UNCHANGED <<pin, held, gone, outages>> /\ S!Quiet /\ request[j].pc = "idle"
  BY DEF S!Call, S!storeVars, S!Stands
<1>2. \E kind \in Kind[j], c \in Cert, m \in Holder :
         request' = [request EXCEPT ![j] =
              [S!Waits EXCEPT !.kind = kind, !.cert = c, !.src = m,
                            !.pc = S!Begins(kind)]]
  BY Zenon DEF S!Call
<1>3. PICK kind \in Kind[j], c \in Cert, m \in Holder :
         request' = [request EXCEPT ![j] =
              [S!Waits EXCEPT !.kind = kind, !.cert = c, !.src = m,
                            !.pc = S!Begins(kind)]]
  BY <1>2
<1> DEFINE pc == S!Begins(kind)
<1>14. pc \in {"install", "erase", "lookup"} /\ (pc = "erase" => kind = "delete")
  BY DEF S!Begins
<1> DEFINE g == [S!Waits EXCEPT !.kind = kind, !.cert = c, !.src = m, !.pc = pc]
<1>4. request' = [request EXCEPT ![j] = g]
  BY <1>3
<1> HIDE DEF pc
<1>5. kind \in {"fetch", "load", "fix", "delete"}
  BY DEF CertsSized
<1>6. S!Waits \in CertsJobs /\ S!Waits.seen = {} /\ S!Waits.result = S!None
  BY DEF S!Waits, CertsJobs
<1>7. [S!Waits EXCEPT !.kind = kind] \in CertsJobs
  BY <1>5, <1>6 DEF CertsJobs
<1>8. [S!Waits EXCEPT !.kind = kind, !.cert = c] \in CertsJobs
  BY <1>7 DEF CertsJobs
<1>9. [S!Waits EXCEPT !.kind = kind, !.cert = c, !.src = m] \in CertsJobs
  BY <1>8 DEF CertsJobs
<1>10. g \in CertsJobs /\ g.pc = pc /\ g.kind = kind /\ g.cert = c /\ g.src = m
       /\ g.seen = {} /\ g.result = S!None
  BY <1>6, <1>9, <1>14, ZenonT(40) DEF CertsJobs
<1> HIDE DEF g
<1>11. CertsCallOK(g) /\ ~CertsInstalled(g)
  BY <1>5, <1>14, <1>10 DEF CertsCallOK, CertsInstalled, S!None
<1>12. request[j].kind = S!None
  BY <1>1, CertsRecords DEF CertsCallOK
<1>13. gone' \subseteq Holder /\ outages' \in 0 .. MaxFaults
  BY <1>1, CertsTyping DEF CertsInv
<1> QED
  BY <1>1, <1>4, <1>10, <1>11, <1>12, <1>13, CertsCallLooks

LEMMA CertsLookupInv ==
  ASSUME CertsSized, CertsInv, NEW j \in Request, S!Lookup(j)
  PROVE  CertsInv'
<1>1. /\ UNCHANGED <<pin, held>> /\ S!Quiet /\ request[j].pc = "lookup"
  BY DEF S!Lookup, S!storeVars, S!Stands
<1>2. request[j].src \in Holder
  BY <1>1, CertsRecords DEF CertsCallOK
<1>3. PICK seen \in SUBSET Cert : /\ S!Listing(request[j].src, seen)
                                  /\ S!Goes(j, "export") \/ S!Ends(j, "error")
  BY DEF S!Lookup
<1>4. gone' \subseteq Holder /\ outages' \in 0 .. MaxFaults
  BY <1>2, <1>3, CertsListingFact
<1> QED
  BY <1>1, <1>3, <1>4, CertsGoesInv, CertsEndsInv

LEMMA CertsExportInv ==
  ASSUME CertsSized, CertsInv, NEW j \in Request, S!Export(j)
  PROVE  CertsInv'
<1>1. /\ UNCHANGED <<pin, held>> /\ S!Quiet /\ request[j].pc = "export"
  BY DEF S!Export, S!storeVars, S!Stands
<1>2. request[j].src \in Holder
  BY <1>1, CertsRecords DEF CertsCallOK
<1>3. /\ S!Command(request[j].src) \/ S!Fails(request[j].src)
      /\ \/ S!Goes(j, "erase") /\ request[j].kind = "fix"
         \/ S!Goes(j, "install")
         \/ S!Ends(j, "error")
  BY DEF S!Export, S!Is
<1>4. gone' \subseteq Holder /\ outages' \in 0 .. MaxFaults
  BY <1>2, <1>3, CertsCommandFact
<1>5. CASE S!Goes(j, "erase") /\ request[j].kind = "fix"
  BY <1>1, <1>4, <1>5, CertsGoesInv
<1>6. CASE S!Goes(j, "install")
  BY <1>1, <1>4, <1>6, CertsGoesInv
<1>7. CASE S!Ends(j, "error")
  BY <1>1, <1>4, <1>7, CertsEndsInv
<1> QED
  BY <1>3, <1>5, <1>6, <1>7

LEMMA CertsFinishInv ==
  ASSUME CertsSized, CertsInv, NEW j \in Request, S!Finish(j)
  PROVE  CertsInv'
<1>1. /\ UNCHANGED <<pin, held>> /\ S!Quiet /\ request[j].pc = "cer"
      /\ S!Command(Site[j]) \/ S!Fails(Site[j])
      /\ S!Ends(j, "ok") \/ S!Ends(j, "error")
  BY DEF S!Finish, S!storeVars, S!Stands, S!Here
<1>2. gone' \subseteq Holder /\ outages' \in 0 .. MaxFaults
  BY <1>1, CertsRecords, CertsCommandFact
<1> QED
  BY <1>1, <1>2, CertsEndsInv

LEMMA CertsListInv ==
  ASSUME CertsSized, CertsInv, NEW j \in Request, S!List(j)
  PROVE  CertsInv'
<1>1. /\ UNCHANGED <<pin, held>> /\ S!Quiet /\ request[j].pc = "list"
  BY DEF S!List, S!storeVars, S!Stands
<1>2. PICK seen \in SUBSET Cert : /\ S!Listing(Site[j], seen)
                                  /\ request' = [request EXCEPT ![j].pc = "index", ![j].seen = seen]
  BY DEF S!List, S!Here
<1>3. gone' \subseteq Holder /\ outages' \in 0 .. MaxFaults /\ seen \subseteq held[Site[j]]
  BY <1>2, CertsRecords, CertsListingFact
<1>4. PICK g \in CertsJobs : /\ request' = [request EXCEPT ![j] = g] /\ g.pc = "index"
                             /\ g.kind = request[j].kind /\ g.cert = request[j].cert
                             /\ g.src = request[j].src
                             /\ g.seen = seen /\ g.result = request[j].result
  BY <1>2, CertsLists
<1>5. CertsCallOK(g) /\ (CertsInstalled(g) => CertsInstalled(request[j]))
  BY <1>1, <1>4, CertsRecords DEF CertsCallOK, CertsInstalled
<1> QED
  BY <1>1, <1>3, <1>4, <1>5, CertsCallLooks

\* The installation: what it puts there is there.
LEMMA CertsPutFact ==
  ASSUME CertsSized, CertsInv, NEW n \in Holder, NEW c \in Cert,
         NEW who \in {"user", "once"}, S!Put(n, c, who)
  PROVE  /\ pin' \in [Holder -> CertsPins] /\ held' \in [Holder -> SUBSET Cert]
         /\ \A m \in Holder : held[m] \subseteq held'[m] /\ S!Has(m) \subseteq S!Has(m)'
         /\ CertsStoreHeld' /\ c \in S!Has(n)'
<1> USE DEF CertsInv
<1>1. pin \in [Holder -> CertsPins] /\ held \in [Holder -> SUBSET Cert]
  BY CertsTyping
<1>2. pin' \in [Holder -> CertsPins] /\ held' \in [Holder -> SUBSET Cert]
  BY <1>1 DEF S!Put, CertsPins
<1>3. \A m \in Holder, k \in Cert : pin'[m][k] = IF m = n /\ k = c THEN who ELSE pin[m][k]
  BY <1>1 DEF S!Put, CertsPins
<1>4. \A m \in Holder : held'[m] = IF m = n THEN held[m] \cup {c} ELSE held[m]
  BY <1>1 DEF S!Put
<1>5. who # S!None
  BY DEF S!None
<1>6. \A m \in Holder, k \in Cert : k \in S!Has(m)' <=> k \in S!Has(m) \/ (m = n /\ k = c)
  BY <1>3, <1>5 DEF S!Has
<1>7. \A m \in Holder : S!Has(m)' \subseteq Cert /\ S!Has(m) \subseteq Cert
  BY DEF S!Has
<1> QED
  BY <1>2, <1>4, <1>6, <1>7 DEF CertsStoreHeld

LEMMA CertsInstallInv ==
  ASSUME CertsSized, CertsInv, NEW j \in Request, S!Install(j)
  PROVE  CertsInv'
<1>1. /\ S!Quiet /\ request[j].pc = "install"
      /\ S!Command(Site[j]) \/ S!Fails(Site[j])
  BY DEF S!Install, S!Stands, S!Here
<1>2. gone' \subseteq Holder /\ outages' \in 0 .. MaxFaults
  BY <1>1, CertsRecords, CertsCommandFact
<1>3. request[j].cert \in Cert /\ Site[j] \in Holder /\ CertsCallOK(request[j])
  BY <1>1, CertsRecords DEF CertsCallOK
<1>4. CASE S!Fails(Site[j]) /\ S!Ends(j, "error") /\ UNCHANGED <<pin, held>>
  BY <1>1, <1>2, <1>4, CertsEndsInv
<1>5. CASE \E who \in {"user", "once"} :
              /\ S!Put(Site[j], request[j].cert, who)
              /\ S!Ends(j, "ok") \/ \E pc \in {"password", "cer"} : S!Goes(j, pc)
  <2>1. PICK who \in {"user", "once"} :
              /\ S!Put(Site[j], request[j].cert, who)
              /\ S!Ends(j, "ok") \/ \E pc \in {"password", "cer"} : S!Goes(j, pc)
    BY <1>5
  <2>2. /\ pin' \in [Holder -> CertsPins] /\ held' \in [Holder -> SUBSET Cert]
        /\ \A m \in Holder : held[m] \subseteq held'[m] /\ S!Has(m) \subseteq S!Has(m)'
        /\ CertsStoreHeld' /\ request[j].cert \in S!Has(Site[j])'
    BY <1>3, <2>1, CertsPutFact
  <2>3. PICK g \in CertsJobs : /\ request' = [request EXCEPT ![j] = g]
                               /\ g.pc \in {"done", "password", "cer"}
                               /\ g.kind = request[j].kind /\ g.cert = request[j].cert
                               /\ g.src = request[j].src
                               /\ g.seen = request[j].seen
                               /\ g.pc = "done" \/ g.result = request[j].result
    <3>1. CASE S!Ends(j, "ok")
      BY <3>1, CertsIsOver
    <3>2. CASE \E pc \in {"password", "cer"} : S!Goes(j, pc)
      BY <3>2, CertsGoesOn
    <3> QED
      BY <2>1, <3>1, <3>2
  <2>4. CertsCallOK(g) /\ g.seen \subseteq held'[Site[j]]
    BY <1>1, <1>3, <2>2, <2>3, CertsRecords DEF CertsCallOK
  <2> QED
    BY <1>1, <1>2, <2>2, <2>3, <2>4, CertsCallStep
<1>6. \/ S!Fails(Site[j]) /\ S!Ends(j, "error") /\ UNCHANGED <<pin, held>>
      \/ \E who \in {"user", "once"} :
              /\ S!Put(Site[j], request[j].cert, who)
              /\ S!Ends(j, "ok") \/ \E pc \in {"password", "cer"} : S!Goes(j, pc)
  BY DEF S!Install, S!storeVars, S!Here, S!What
<1> QED
  BY <1>4, <1>5, <1>6

LEMMA CertsPasswordInv ==
  ASSUME CertsSized, CertsInv, NEW j \in Request, S!Password(j)
  PROVE  CertsInv'
<1> USE DEF CertsInv
<1>1. /\ S!Quiet /\ request[j].pc = "password" /\ S!Goes(j, "list") /\ held' = held
      /\ S!Command(Site[j]) \/ S!Fails(Site[j])
      /\ \/ pin' = [pin EXCEPT ![Site[j]][request[j].cert] = IF @ = S!None THEN S!None ELSE "user"]
         \/ pin' = pin
  BY DEF S!Password, S!Stands, S!Here, S!What
<1>2. gone' \subseteq Holder /\ outages' \in 0 .. MaxFaults
  BY <1>1, CertsRecords, CertsCommandFact
<1>3. request[j].cert \in Cert /\ Site[j] \in Holder /\ CertsCallOK(request[j])
  BY <1>1, CertsRecords DEF CertsCallOK
<1>4. pin \in [Holder -> CertsPins] /\ held \in [Holder -> SUBSET Cert]
  BY CertsTyping
<1>5. /\ pin' \in [Holder -> CertsPins]
      /\ \A m \in Holder, k \in Cert : pin'[m][k] = S!None <=> pin[m][k] = S!None
  <2>1. CASE pin' = pin
    BY <1>4, <2>1
  <2>2. CASE pin' = [pin EXCEPT ![Site[j]][request[j].cert] = IF @ = S!None THEN S!None ELSE "user"]
    <3> DEFINE p == IF pin[Site[j]][request[j].cert] = S!None THEN S!None ELSE "user"
    <3>1. p \in {S!None, "user", "once"} /\ (p = S!None
             <=> pin[Site[j]][request[j].cert] = S!None)
      BY DEF S!None
    <3>2. pin' = [pin EXCEPT ![Site[j]] = [pin[Site[j]] EXCEPT ![request[j].cert] = p]]
      BY <1>3, <1>4, <2>2
    <3> HIDE DEF p
    <3>3. pin[Site[j]] \in CertsPins
      BY <1>3, <1>4
    <3>4. [pin[Site[j]] EXCEPT ![request[j].cert] = p] \in CertsPins
      BY <1>3, <3>1, <3>3 DEF CertsPins
    <3>5. pin' \in [Holder -> CertsPins]
      BY <1>3, <1>4, <3>2, <3>4
    <3>6. \A m \in Holder, k \in Cert :
             pin'[m][k] = IF m = Site[j] /\ k = request[j].cert THEN p ELSE pin[m][k]
      BY <1>3, <1>4, <3>2, <3>3 DEF CertsPins
    <3> QED
      BY <3>1, <3>5, <3>6
  <2> QED
    BY <1>1, <2>1, <2>2
<1>6. \A m \in Holder : S!Has(m)' = S!Has(m)
  BY <1>5 DEF S!Has
<1>7. CertsStoreHeld' /\ \A m \in Holder : held[m] \subseteq held'[m]
  BY <1>1, <1>6 DEF CertsStoreHeld
<1>8. PICK g \in CertsJobs : /\ request' = [request EXCEPT ![j] = g] /\ g.pc = "list"
                             /\ g.kind = request[j].kind /\ g.cert = request[j].cert
                             /\ g.src = request[j].src
                             /\ g.seen = request[j].seen /\ g.result = request[j].result
  BY <1>1, CertsGoesOn
<1>9. CertsCallOK(g) /\ g.seen \subseteq held'[Site[j]] /\ (CertsInstalled(g)
         => CertsInstalled(request[j]))
  BY <1>1, <1>3, <1>8, CertsRecords DEF CertsCallOK, CertsInstalled
<1>10. held' \in [Holder -> SUBSET Cert]
  BY <1>1, <1>4
<1> HIDE DEF CertsInv
<1> QED
  BY <1>1, <1>2, <1>3, <1>5, <1>6, <1>7, <1>8, <1>9, <1>10, CertsCallStep

LEMMA CertsIndexInv ==
  ASSUME CertsSized, CertsInv, NEW j \in Request, S!Index(j)
  PROVE  CertsInv'
<1> USE DEF CertsInv
<1>1. /\ UNCHANGED <<pin, held, on, gone, loop, link, wire, asked, outages>>
      /\ request[j].pc = "index" /\ local' = [local EXCEPT ![Site[j]] = request[j].seen]
      /\ S!Ends(j, "ok")
  BY DEF S!Index, S!storeVars, S!netVars, S!Stands, S!Here, S!UpdateLocal
<1>2. /\ Site[j] \in Holder /\ request[j].seen \subseteq held[Site[j]]
      /\ request[j].seen \subseteq Cert
      /\ CertsCallOK(request[j])
  BY CertsRecords DEF CertsJobs
<1>3. /\ local' \in [Holder -> SUBSET Cert] /\ local'[Site[j]] = request[j].seen
      /\ \A m \in Holder \ {Site[j]} : local'[m] = local[m]
  BY <1>1, <1>2, CertsTyping
<1>4. PICK g \in CertsJobs : /\ request' = [request EXCEPT ![j] = g] /\ g.pc = "done"
                             /\ g.kind = request[j].kind /\ g.cert = request[j].cert
                             /\ g.src = request[j].src
                             /\ g.seen = request[j].seen /\ g.result = "ok"
  BY <1>1, CertsIsOver
<1>5. request' \in [Request -> CertsJobs] /\ request'[j] = g
         /\ \A i \in Request \ {j} : request'[i] = request[i]
  BY <1>4, CertsTyping
<1>6. S!TypeOK'
  BY <1>1, <1>3, <1>5, CertsTyping, CertsTypingNext
<1>7. CertsCallsOK' /\ CertsSeenHeld'
  BY <1>1, <1>2, <1>4, <1>5 DEF CertsCallsOK, CertsCallOK, CertsSeenHeld
<1>8. CertsStoreHeld' /\ CertsLocalHeld' /\ S!OffersHeld' /\ CertsWireHeld'
         /\ CertsAskedHeld'
  BY <1>1, <1>2, <1>3 DEF CertsStoreHeld, S!Has, CertsLocalHeld, S!OffersHeld,
     CertsWireHeld, CertsAskedHeld
<1>9. CertsStillThere'
  <2> SUFFICES ASSUME NEW i \in Request, CertsInstalled(request'[i]), S!Untouched(i)'
               PROVE  request'[i].cert \in S!Has(Site[i])'
    BY DEF CertsStillThere, CertsInstalled
  <2>1. \A k \in Request : request'[k].kind = request[k].kind
           /\ request'[k].cert = request[k].cert
    BY <1>4, <1>5
  <2>2. S!Untouched(i)
    BY <2>1, CertsUntouchedBefore
  <2>3. CertsInstalled(request[i])
    BY <1>1, <1>4, <1>5 DEF CertsInstalled
  <2> QED
    BY <1>1, <2>1, <2>2, <2>3 DEF CertsStillThere, S!Has
<1> QED
  BY <1>6, <1>7, <1>8, <1>9

\* A certificate is taken away, by who may take it away.
LEMMA CertsEraseInv ==
  ASSUME CertsSized, CertsInv, NEW j \in Request, S!Erase(j)
  PROVE  CertsInv'
<1>1. /\ S!Quiet /\ request[j].pc = "erase"
      /\ S!Command(Site[j]) \/ S!Fails(Site[j])
  BY DEF S!Erase, S!Stands, S!Here
<1>2. gone' \subseteq Holder /\ outages' \in 0 .. MaxFaults
  BY <1>1, CertsRecords, CertsCommandFact
<1>3. /\ request[j].cert \in Cert /\ Site[j] \in Holder /\ CertsCallOK(request[j])
      /\ request[j].kind \in {"fix", "delete"}
  BY <1>1, CertsRecords DEF CertsCallOK
<1>4. /\ \/ S!Drop(Site[j], request[j].cert) \/ UNCHANGED <<pin, held>>
      /\ \/ S!Goes(j, "install")
         \/ request[j].kind # "fix" /\ \E r \in {"ok", "error"} : S!Ends(j, r)
  BY DEF S!Erase, S!storeVars, S!Here, S!What, S!Is
<1>5. PICK g \in CertsJobs : /\ request' = [request EXCEPT ![j] = g]
                                /\ g.pc \in {"install", "done"}
                             /\ g.kind = request[j].kind /\ g.cert = request[j].cert
                             /\ g.src = request[j].src
                             /\ g.seen = request[j].seen
                             /\ \/ g.pc = "install" /\ g.result = request[j].result
                                \/ g.pc = "done" /\ request[j].kind # "fix"
  <2>1. CASE S!Goes(j, "install")
    BY <2>1, CertsGoesOn
  <2>2. CASE request[j].kind # "fix" /\ \E r \in {"ok", "error"} : S!Ends(j, r)
    BY <2>2, CertsIsOver
  <2> QED
    BY <1>4, <2>1, <2>2
<1>6. CertsCallOK(g) /\ ~CertsInstalled(g)
  BY <1>1, <1>3, <1>5 DEF CertsCallOK, CertsInstalled, S!None
<1>7. pin \in [Holder -> CertsPins] /\ held \in [Holder -> SUBSET Cert] /\ held' = held
  BY <1>4, CertsTyping DEF CertsInv, S!Drop
<1>8. /\ pin' \in [Holder -> CertsPins]
      /\ \A m \in Holder, k \in Cert : pin'[m][k] = pin[m][k]
            \/ (m = Site[j] /\ k = request[j].cert /\ pin'[m][k] = S!None)
  <2>1. CASE S!Drop(Site[j], request[j].cert)
    <3>1. pin' = [pin EXCEPT ![Site[j]] = [pin[Site[j]] EXCEPT ![request[j].cert] = S!None]]
      BY <1>3, <1>7, <2>1 DEF S!Drop
    <3>2. pin[Site[j]] \in CertsPins
      BY <1>3, <1>7
    <3>3. [pin[Site[j]] EXCEPT ![request[j].cert] = S!None] \in CertsPins
      BY <1>3, <3>2 DEF CertsPins
    <3>4. \A m \in Holder, k \in Cert :
             pin'[m][k] = IF m = Site[j] /\ k = request[j].cert THEN S!None ELSE pin[m][k]
      BY <1>3, <1>7, <3>1, <3>2 DEF CertsPins
    <3> QED
      BY <1>3, <1>7, <3>1, <3>3, <3>4
  <2>2. CASE UNCHANGED <<pin, held>>
    BY <1>7, <2>2
  <2> QED
    BY <1>4, <2>1, <2>2
<1>9. \A m \in Holder : S!Has(m)' \subseteq S!Has(m)
  BY <1>8 DEF S!Has
<1>10. CertsStoreHeld'
  BY <1>7, <1>9 DEF CertsInv, CertsStoreHeld
<1>11. \A m \in Holder, k \in Cert : k \in S!Has(m) =>
          \/ k \in S!Has(m)'
          \/ (m = Site[j] /\ k = request[j].cert)
  BY <1>8 DEF S!Has
<1>12. g.seen \subseteq held'[Site[j]]
  BY <1>5, <1>7, CertsRecords
<1> QED
  BY <1>1, <1>2, <1>3, <1>5, <1>6, <1>7, <1>8, <1>10, <1>11, <1>12, CertsCallStep

LEMMA CertsNextInv == ASSUME CertsSized, CertsInv, [S!Next]_certVars PROVE CertsInv'
<1>1. ASSUME NEW j \in Request, S!Step(j) PROVE CertsInv'
  BY <1>1, CertsCallInv, CertsLookupInv, CertsExportInv, CertsEraseInv, CertsInstallInv,
     CertsFinishInv, CertsPasswordInv,
     CertsListInv, CertsIndexInv DEF S!Step
<1>2. ASSUME NEW n \in Holder, S!LoopStep(n) \/ S!Restart(n) PROVE CertsInv'
  BY <1>2, CertsLoopListsInv, CertsLoopSendsInv, CertsLoopEndsInv, CertsRestartInv
     DEF S!LoopStep
<1>3. ASSUME NEW n \in Holder, NEW m \in Holder, S!Sync(n, m) PROVE CertsInv'
  BY <1>3, CertsSyncInv
<1>4. CASE S!Connect \/ S!MergeAnswer \/ S!Disconnect
  BY <1>4, CertsConnectInv, CertsMergeAnswerInv, CertsDisconnectInv
<1>5. CASE UNCHANGED certVars
  <2>1. UNCHANGED <<pin, local, on, gone, loop, link, wire, asked, request, outages, held>>
    BY <1>5 DEF certVars
  <2> QED
    BY <2>1 DEF CertsInv, S!TypeOK, CertsCallsOK, CertsStoreHeld, CertsLocalHeld,
       S!OffersHeld, CertsWireHeld, CertsAskedHeld,
                CertsSeenHeld, CertsStillThere, S!Has, S!Untouched, S!Here, S!What
<1> QED
  BY <1>1, <1>2, <1>3, <1>4, <1>5 DEF S!Next

LEMMA CertsSound == ASSUME CertsInv PROVE S!TypeOK /\ S!OffersHeld /\ S!InstalledIsThere
BY DEF CertsInv, S!InstalledIsThere, CertsStillThere, CertsInstalled, S!Is, S!Here, S!What

-----------------------------------------------------------------------------
(* The web panel: one client is connected, and answers are kept for calls that*)
(* wait.                                                                    *)

PanelTabs == [user : BOOLEAN, ws : {P!None, "open", "closed", "broken"},
              connected : BOOLEAN, reconnecting : BOOLEAN, recv : BOOLEAN]
PanelCalls == [pc : {"idle", "sent", "answered", "late", "lost", "done"},
               to : Tab \cup {P!None}, result : {P!None, "data", "timeout", "raised"}]

\* A call has an answer or none any more when it has returned, and not before.
PanelEnded == \A c \in Click : call[c].result \in {"data", "timeout"} => P!Stands(c, "done")

PanelInv == P!TypeOK /\ P!OneHeard /\ P!NothingLeft /\ P!PanelIsOwn /\ PanelEnded

LEMMA PanelInitInv == ASSUME PanelSized, P!Init PROVE PanelInv
<1> USE DEF PanelSized, P!Init
<1>1. P!NoClient \in PanelTabs /\ P!NoClient.ws # "open"
  BY DEF P!NoClient, PanelTabs, P!None
<1>2. P!TypeOK
  <2>1. host \in BOOLEAN /\ guard \in BOOLEAN /\ barred \in BOOLEAN
    BY Zenon
  <2>2. tab \in [Tab -> PanelTabs] /\ call \in [Click -> PanelCalls]
    BY <1>1 DEF PanelCalls
  <2>3. drops \in 0 .. MaxFaults /\ port = P!None /\ peer = P!None /\ pending = {}
           /\ results = {}
    OBVIOUS
  <2> HIDE DEF P!Init, PanelSized
  <2> QED
    BY <2>1, <2>2, <2>3 DEF P!TypeOK, PanelTabs, PanelCalls
<1>3. P!OneHeard /\ P!PanelIsOwn
  BY <1>1 DEF P!OneHeard, P!PanelIsOwn
<1>4. P!NothingLeft /\ PanelEnded
  BY DEF P!NothingLeft, PanelEnded, P!None
<1> QED
  BY <1>2, <1>3, <1>4 DEF PanelInv

\* What the steps that do not touch the calls, or only those, have to show.
LEMMA PanelTabsInv ==
  ASSUME PanelInv, UNCHANGED P!callVars, host' \in BOOLEAN,
         port' \in {P!None, "own", "orphan"},
         guard' \in BOOLEAN, barred' \in BOOLEAN, drops' \in 0 .. MaxFaults,
         tab' \in [Tab -> PanelTabs], peer' \in Tab \cup {P!None, "unheard"},
         P!OneHeard', P!PanelIsOwn'
  PROVE  PanelInv'
<1> USE DEF PanelInv, P!callVars
<1>1. P!TypeOK'
  BY DEF P!TypeOK, PanelTabs
<1>2. P!NothingLeft' /\ PanelEnded'
  BY DEF P!NothingLeft, PanelEnded, P!Stands
<1> QED
  BY <1>1, <1>2

LEMMA PanelCallsInv ==
  ASSUME PanelInv, P!Rest, call' \in [Click -> PanelCalls], pending' \subseteq Click,
         results' \subseteq Click,
         P!NothingLeft', PanelEnded'
  PROVE  PanelInv'
<1> USE DEF PanelInv, P!Rest
<1>1. P!TypeOK'
  BY DEF P!TypeOK, PanelCalls
<1>2. P!OneHeard' /\ P!PanelIsOwn'
  BY DEF P!OneHeard, P!PanelIsOwn
<1> QED
  BY <1>1, <1>2

\* With the process of the panel everything ends.
LEMMA PanelTabsGoInv ==
  ASSUME PanelInv, P!TabsGo, host' \in BOOLEAN, port' \in {P!None, "own", "orphan"},
         barred' \in BOOLEAN, drops' \in 0 .. MaxFaults, UNCHANGED guard,
         peer' \in Tab \cup {P!None, "unheard"}, P!PanelIsOwn'
  PROVE  PanelInv'
<1> USE DEF PanelInv, P!TabsGo
<1>1. tab' \in [Tab -> PanelTabs] /\ \A t \in Tab : tab'[t].ws # "open"
  BY DEF P!NoClient, PanelTabs, P!None
<1>2. call' \in [Click -> PanelCalls]
  BY DEF P!TypeOK, PanelCalls
<1>3. P!TypeOK'
  BY <1>1, <1>2 DEF P!TypeOK, PanelTabs, PanelCalls
<1>4. P!OneHeard'
  BY <1>1 DEF P!OneHeard
<1>5. PanelEnded'
  BY DEF PanelEnded, P!Stands, P!TypeOK
<1>6. P!NothingLeft'
  BY DEF P!NothingLeft
<1> QED
  BY <1>3, <1>4, <1>5, <1>6

LEMMA PanelTabFacts ==
  ASSUME PanelInv
  PROVE  /\ tab \in [Tab -> PanelTabs] /\ call \in [Click -> PanelCalls]
         /\ peer \in Tab \cup {P!None, "unheard"} /\ port \in {P!None, "own", "orphan"}
         /\ host \in BOOLEAN /\ guard \in BOOLEAN /\ barred \in BOOLEAN
         /\ drops \in 0 .. MaxFaults /\ pending \subseteq Click /\ results \subseteq Click
  BY DEF PanelInv, P!TypeOK, PanelTabs, PanelCalls

LEMMA PanelFaultFact ==
  ASSUME PanelSized, PanelInv, P!Fault \/ UNCHANGED drops
  PROVE  drops' \in 0 .. MaxFaults
  BY PanelTabFacts DEF PanelSized, P!Fault

LEMMA PanelNodeStartsInv == ASSUME PanelSized, PanelInv, P!NodeStarts PROVE PanelInv'
<1>1. drops' \in 0 .. MaxFaults /\ UNCHANGED <<guard, peer>> /\ host' = TRUE
  BY PanelFaultFact DEF P!NodeStarts
<1>2. CASE port' = "own" /\ P!TabsGo /\ barred' = FALSE
  <2>1. P!PanelIsOwn'
    BY <1>2 DEF P!PanelIsOwn
  <2> QED
    BY <1>1, <1>2, <2>1, PanelTabFacts, PanelTabsGoInv
<1>3. CASE port # P!None /\ barred' = TRUE /\ UNCHANGED <<port, tab, P!callVars>>
  <2>1. P!PanelIsOwn' /\ P!OneHeard'
    BY <1>1, <1>3 DEF P!PanelIsOwn, P!OneHeard, PanelInv
  <2>2. UNCHANGED P!callVars /\ UNCHANGED port /\ UNCHANGED tab
    BY <1>3
  <2> QED
    BY <1>1, <1>3, <2>1, <2>2, PanelTabFacts, PanelTabsInv
<1> QED
  BY <1>2, <1>3 DEF P!NodeStarts, P!Killed

LEMMA PanelNodeStopsInv == ASSUME PanelSized, PanelInv, P!NodeStops PROVE PanelInv'
<1>1. drops' \in 0 .. MaxFaults /\ UNCHANGED <<guard, barred>> /\ host' = FALSE
         /\ peer' = P!None
  BY PanelFaultFact DEF P!NodeStops
<1>2. P!PanelIsOwn'
  BY <1>1 DEF P!PanelIsOwn
<1>3. CASE port = "own"
  BY <1>1, <1>2, <1>3, PanelTabFacts, PanelTabsGoInv DEF P!NodeStops
<1>4. CASE port # "own"
  <2>1. /\ UNCHANGED P!callVars /\ UNCHANGED port
        /\ tab' = [t \in Tab |-> IF tab[t].ws = "open" THEN [tab[t] EXCEPT !.ws = "closed"]
                                 ELSE tab[t]]
    BY <1>4 DEF P!NodeStops
  <2>2. tab' \in [Tab -> PanelTabs] /\ \A t \in Tab : tab'[t].ws # "open"
    BY <2>1, PanelTabFacts DEF PanelTabs
  <2>3. P!OneHeard'
    BY <2>2 DEF P!OneHeard
  <2> QED
    BY <1>1, <1>2, <2>1, <2>2, <2>3, PanelTabFacts, PanelTabsInv
<1> QED
  BY <1>3, <1>4

LEMMA PanelNodeDiesInv == ASSUME PanelSized, PanelInv, P!NodeDies PROVE PanelInv'
<1>1. /\ drops' \in 0 .. MaxFaults /\ UNCHANGED <<guard, barred>> /\ host' = FALSE
      /\ peer' = P!None
      /\ UNCHANGED P!callVars /\ port' \in {P!None, "orphan"}
      /\ tab' = [t \in Tab |-> IF tab[t].ws = "open" THEN [tab[t] EXCEPT !.ws = "broken"]
                               ELSE tab[t]]
  BY PanelFaultFact DEF P!NodeDies
<1>2. tab' \in [Tab -> PanelTabs] /\ \A t \in Tab : tab'[t].ws # "open"
  BY <1>1, PanelTabFacts DEF PanelTabs
<1>3. P!OneHeard' /\ P!PanelIsOwn'
  BY <1>1, <1>2 DEF P!OneHeard, P!PanelIsOwn
<1> QED
  BY <1>1, <1>2, <1>3, PanelTabFacts, PanelTabsInv

LEMMA PanelEditGuardInv == ASSUME PanelSized, PanelInv, P!EditGuard PROVE PanelInv'
<1>1. /\ drops' \in 0 .. MaxFaults
      /\ UNCHANGED <<host, port, barred, tab, peer>> /\ UNCHANGED P!callVars
  BY PanelFaultFact DEF P!EditGuard
<1>2. guard' \in BOOLEAN
  BY Zenon DEF P!EditGuard
<1>3. P!OneHeard' /\ P!PanelIsOwn'
  BY <1>1 DEF PanelInv, P!OneHeard, P!PanelIsOwn
<1> QED
  BY <1>1, <1>2, <1>3, PanelTabFacts, PanelTabsInv

\* A step of one tab: what it makes of the tab, and whom the node hears then.
LEMMA PanelTabMoves ==
  ASSUME PanelSized, PanelInv, UNCHANGED <<host, port, guard, barred>>,
         UNCHANGED P!callVars,
         P!Fault \/ UNCHANGED drops, tab' \in [Tab -> PanelTabs],
         peer' \in Tab \cup {P!None, "unheard"}, P!OneHeard'
  PROVE  PanelInv'
<1>1. P!PanelIsOwn'
  BY DEF PanelInv, P!PanelIsOwn
<1> QED
  BY <1>1, PanelFaultFact, PanelTabFacts, PanelTabsInv

LEMMA PanelLoginInv ==
  ASSUME PanelSized, PanelInv, NEW t \in Tab,
         P!Login(t) \/ P!Logout(t) \/ P!ReceiveEnds(t) \/ P!ReceiveBreaks(t)
  PROVE  PanelInv'
<1>0. /\ UNCHANGED <<host, port, guard, barred, peer, drops>> /\ UNCHANGED P!callVars
      /\ \/ tab' = [tab EXCEPT ![t] = [tab[t] EXCEPT !.user = TRUE]]
         \/ tab' = [tab EXCEPT ![t] = [tab[t] EXCEPT !.user = FALSE]]
         \/ tab' = [tab EXCEPT ![t] = [tab[t] EXCEPT !.recv = FALSE]]
         \/ tab' = [tab EXCEPT ![t] = [tab[t] EXCEPT !.reconnecting = TRUE,
                                                    !.connected = FALSE, !.recv = FALSE]]
  BY DEF P!Login, P!Logout, P!ReceiveEnds, P!ReceiveBreaks
<1>1. tab' \in [Tab -> PanelTabs] /\ \A u \in Tab : tab'[u].ws = tab[u].ws
  <2>1. PICK new \in PanelTabs : tab' = [tab EXCEPT ![t] = new] /\ new.ws = tab[t].ws
    <3>1. tab[t] \in PanelTabs
      BY PanelTabFacts
    <3>2. /\ [tab[t] EXCEPT !.user = TRUE] \in PanelTabs
          /\ [tab[t] EXCEPT !.user = TRUE].ws = tab[t].ws
          /\ [tab[t] EXCEPT !.user = FALSE] \in PanelTabs
          /\ [tab[t] EXCEPT !.user = FALSE].ws = tab[t].ws
          /\ [tab[t] EXCEPT !.recv = FALSE] \in PanelTabs
          /\ [tab[t] EXCEPT !.recv = FALSE].ws = tab[t].ws
      BY <3>1 DEF PanelTabs
    <3> DEFINE off ==
           [tab[t] EXCEPT !.reconnecting = TRUE, !.connected = FALSE, !.recv = FALSE]
    <3>3. off \in PanelTabs /\ off.ws = tab[t].ws
      BY <3>1 DEF PanelTabs
    <3> QED
      BY <1>0, <3>2, <3>3
  <2> QED
    BY <2>1, PanelTabFacts
<1>2. P!OneHeard'
  BY <1>0, <1>1 DEF PanelInv, P!OneHeard
<1>3. /\ UNCHANGED <<host, port, guard, barred>> /\ UNCHANGED drops
      /\ peer' \in Tab \cup {P!None, "unheard"}
  BY <1>0, PanelTabFacts
<1> HIDE DEF PanelTabs
<1> QED
  BY <1>0, <1>1, <1>2, <1>3, PanelTabMoves

LEMMA PanelBreaksInv ==
  ASSUME PanelSized, PanelInv, NEW t \in Tab, P!Breaks(t)
  PROVE  PanelInv'
<1>1. /\ UNCHANGED <<host, port, guard, barred>> /\ UNCHANGED P!callVars /\ P!Fault
      /\ tab[t].ws = "open" /\ tab' = [tab EXCEPT ![t].ws = "broken"]
      /\ peer' \in {peer, P!None}
  BY DEF P!Breaks
<1>2. tab' \in [Tab -> PanelTabs] /\ tab'[t].ws # "open" /\ \A u \in Tab : u # t
         => tab'[u] = tab[u]
  BY <1>1, PanelTabFacts DEF PanelTabs
<1>3. P!OneHeard'
  BY <1>1, <1>2 DEF PanelInv, P!OneHeard
<1> QED
  BY <1>1, <1>2, <1>3, PanelTabFacts, PanelTabMoves

\* The node has taken a socket: no other one stays open.
LEMMA PanelInsteadOne ==
  ASSUME PanelInv, NEW t \in Tab, NEW tabs \in [Tab -> PanelTabs],
         \A u \in Tab : u # t => tabs[u] = tab[u]
  PROVE  /\ P!Instead(t, tabs) \in [Tab -> PanelTabs]
         /\ \A u \in Tab : u # t => P!Instead(t, tabs)[u].ws # "open"
         /\ P!Instead(t, tabs)[t] = tabs[t]
<1>1. ASSUME NEW u \in Tab, u # t, tabs[u].ws = "open" PROVE u = peer
  BY <1>1 DEF PanelInv, P!OneHeard
<1> QED
  BY <1>1 DEF P!Instead, PanelTabs

LEMMA PanelGetRpcInv ==
  ASSUME PanelSized, PanelInv, NEW t \in Tab, P!GetRpc(t)
  PROVE  PanelInv'
<1>0. UNCHANGED <<host, port, guard, barred>> /\ UNCHANGED P!callVars /\ (P!Fault
         \/ UNCHANGED drops)
  BY DEF P!GetRpc
<1>1. P!Closed(t) \in PanelTabs /\ P!Closed(t).ws # "open"
  BY PanelTabFacts DEF P!Closed, PanelTabs, P!None
<1> DEFINE new == [user |-> tab[t].user, ws |-> "open", connected |-> TRUE,
                   reconnecting |-> FALSE, recv |-> TRUE]
<1>2. new \in PanelTabs
  BY PanelTabFacts DEF PanelTabs
<1> HIDE DEF new
<1>3. CASE tab' = P!Instead(t, [tab EXCEPT ![t] = new]) /\ peer' = t
  <2> DEFINE tabs == [tab EXCEPT ![t] = new]
  <2>1. tabs \in [Tab -> PanelTabs] /\ \A u \in Tab : u # t => tabs[u] = tab[u]
    BY <1>2, PanelTabFacts
  <2> HIDE DEF tabs
  <2>2. tab' = P!Instead(t, tabs)
    BY <1>3 DEF tabs
  <2>3. tab' \in [Tab -> PanelTabs] /\ \A u \in Tab : u # t => tab'[u].ws # "open"
    BY <2>1, <2>2, PanelInsteadOne
  <2>4. P!OneHeard' /\ peer' \in Tab \cup {P!None, "unheard"}
    BY <1>3, <2>3 DEF P!OneHeard
  <2> QED
    BY <1>0, <2>3, <2>4, PanelTabMoves
<1>4. CASE tab' = P!Instead(t, [tab EXCEPT ![t] = P!Closed(t)]) /\ peer' = "unheard"
  <2> DEFINE tabs == [tab EXCEPT ![t] = P!Closed(t)]
  <2>1. tabs \in [Tab -> PanelTabs] /\ \A u \in Tab : u # t => tabs[u] = tab[u]
    BY <1>1, PanelTabFacts
  <2>2. tabs[t].ws # "open"
    BY <1>1, PanelTabFacts
  <2> HIDE DEF tabs
  <2>3. tab' = P!Instead(t, tabs)
    BY <1>4 DEF tabs
  <2>4. tab' \in [Tab -> PanelTabs] /\ P!OneHeard'
    BY <2>1, <2>2, <2>3, PanelInsteadOne DEF P!OneHeard
  <2> QED
    BY <1>0, <1>4, <2>4, PanelTabMoves
<1>5. CASE tab' = [tab EXCEPT ![t] = P!Closed(t)] /\ UNCHANGED peer
  <2>1. tab' \in [Tab -> PanelTabs] /\ P!OneHeard'
    BY <1>1, <1>5, PanelTabFacts DEF P!OneHeard, PanelInv
  <2> QED
    BY <1>0, <1>5, <2>1, PanelTabFacts, PanelTabMoves
<1> QED
  BY <1>3, <1>4, <1>5 DEF P!GetRpc, new

LEMMA PanelBeginInv ==
  ASSUME PanelSized, PanelInv, NEW c \in Click, P!Begin(c)
  PROVE  PanelInv'
<1>1. /\ P!Rest /\ UNCHANGED results /\ P!Stands(c, "idle")
      /\ pending' \in {pending, pending \cup {c}}
      /\ \/ call' = [call EXCEPT ![c].pc = "done", ![c].result = "raised"]
         \/ call' = [call EXCEPT ![c].pc = "sent"]
         \/ call' = [call EXCEPT ![c].pc = "lost"]
  BY DEF P!Begin, P!Ends
<1>2. call[c].result \notin {"data", "timeout"}
  BY <1>1 DEF PanelInv, PanelEnded, P!Stands
<1>3. /\ call' \in [Click -> PanelCalls] /\ \A d \in Click : d # c => call'[d] = call[d]
      /\ call'[c].result \notin {"data", "timeout"}
  BY <1>1, <1>2, PanelTabFacts DEF PanelCalls
<1>4. P!NothingLeft' /\ PanelEnded'
  BY <1>1, <1>3 DEF P!NothingLeft, PanelEnded, PanelInv, P!Stands
<1>5. pending' \subseteq Click /\ results' \subseteq Click
  BY <1>1, PanelTabFacts
<1> QED
  BY <1>1, <1>3, <1>4, <1>5, PanelCallsInv

LEMMA PanelMovesInv ==
  ASSUME PanelSized, PanelInv, NEW c \in Click, P!NodeAnswers(c) \/ P!WaitEnds(c)
  PROVE  PanelInv'
<1>1. /\ P!Rest /\ UNCHANGED <<pending, results>> /\ call[c].pc # "done"
      /\ call' \in [Click -> PanelCalls] /\ \A d \in Click : d # c => call'[d] = call[d]
      /\ call'[c].result = call[c].result
  BY PanelTabFacts DEF P!NodeAnswers, P!WaitEnds, P!Stands, P!Waits, PanelCalls
<1>2. P!NothingLeft' /\ PanelEnded'
  BY <1>1 DEF P!NothingLeft, PanelEnded, PanelInv, P!Stands
<1> QED
  BY <1>1, <1>2, PanelTabFacts, PanelCallsInv

LEMMA PanelResolveInv ==
  ASSUME PanelSized, PanelInv, NEW c \in Click, P!Resolve(c)
  PROVE  PanelInv'
<1>1. /\ P!Rest /\ UNCHANGED pending /\ call' = [call EXCEPT ![c].to = P!None]
      /\ results' \in {results} \cup (IF c \in pending THEN {results \cup {c}} ELSE {})
  BY DEF P!Resolve
<1>2. /\ call' \in [Click -> PanelCalls]
      /\ \A d \in Click : call'[d].result = call[d].result /\ call'[d].pc = call[d].pc
  BY <1>1, PanelTabFacts DEF PanelCalls
<1>3. P!NothingLeft' /\ PanelEnded'
  BY <1>1, <1>2 DEF P!NothingLeft, PanelEnded, PanelInv, P!Stands
<1>4. pending' \subseteq Click /\ results' \subseteq Click
  BY <1>1, PanelTabFacts
<1> QED
  BY <1>1, <1>2, <1>3, <1>4, PanelCallsInv

LEMMA PanelEndsInv ==
  ASSUME PanelSized, PanelInv, NEW c \in Click, P!Returns(c) \/ P!TimesOut(c)
  PROVE  PanelInv'
<1>1. /\ P!Rest /\ pending' = pending \ {c}
      /\ \/ call' = [call EXCEPT ![c].pc = "done", ![c].result = "data"]
          /\ results' = results \ {c}
         \/ call' = [call EXCEPT ![c].pc = "done", ![c].result = "timeout"]
             /\ results' = results
  BY DEF P!Returns, P!TimesOut, P!Ends, P!Popped
<1>2. /\ call' \in [Click -> PanelCalls] /\ \A d \in Click : d # c => call'[d] = call[d]
      /\ call'[c].pc = "done"
      /\ call'[c].result = "data" => c \notin results'
  BY <1>1, PanelTabFacts DEF PanelCalls
<1>3. P!NothingLeft' /\ PanelEnded'
  BY <1>1, <1>2 DEF P!NothingLeft, PanelEnded, PanelInv, P!Stands
<1>4. pending' \subseteq Click /\ results' \subseteq Click
  BY <1>1, PanelTabFacts
<1> QED
  BY <1>1, <1>2, <1>3, <1>4, PanelCallsInv

LEMMA PanelNextInv == ASSUME PanelSized, PanelInv, [P!Next]_panelVars PROVE PanelInv'
<1>1. CASE UNCHANGED panelVars
  BY <1>1 DEF panelVars, PanelInv, P!TypeOK, P!OneHeard, P!NothingLeft, P!PanelIsOwn,
     PanelEnded, P!Stands
<1> QED
  BY <1>1, PanelNodeStartsInv, PanelNodeStopsInv, PanelNodeDiesInv, PanelEditGuardInv,
     PanelLoginInv, PanelBreaksInv, PanelGetRpcInv,
     PanelBeginInv, PanelMovesInv, PanelResolveInv, PanelEndsInv DEF P!Next

LEMMA PanelSound ==
  ASSUME PanelInv
  PROVE  P!TypeOK /\ P!OneHeard /\ P!NothingLeft /\ P!PanelIsOwn
  BY DEF PanelInv

-----------------------------------------------------------------------------
(* What a node keeps on its machine.                                        *)

\* The properties, and that a purge under way is of a node that runs.
MachinePurging == todo # {} => process # "off"
MachineInv == M!TypeOK /\ M!ConfigAgrees /\ M!StaysRemoved /\ MachinePurging

LEMMA MachineInitInv == ASSUME MachineSized, M!Init PROVE MachineInv
<1> USE DEF MachineSized, M!Init
<1>1. M!Default \in Name
  BY DEF M!Default
<1>2. M!TypeOK
  <2>1. disk \in [name : Name \cup {M!None}, peers : SUBSET Peer, full : BOOLEAN]
    <3>1. M!NoFile \in [name : Name \cup {M!None}, peers : SUBSET Peer, full : BOOLEAN]
      BY DEF M!NoFile
    <3>2. [name |-> M!Default, peers |-> {}, full |-> FALSE]
            \in [name : Name \cup {M!None}, peers : SUBSET Peer, full : BOOLEAN]
      BY <1>1
    <3> QED
      BY <3>1, <3>2
  <2>2. task \in BOOLEAN /\ key \in BOOLEAN /\ work \in BOOLEAN /\ left \in BOOLEAN
        /\ edited \in BOOLEAN
    BY Zenon
  <2> QED
    BY <1>1, <2>1, <2>2 DEF M!TypeOK
<1>3. M!ConfigAgrees /\ M!StaysRemoved /\ MachinePurging
  BY DEF M!ConfigAgrees, M!StaysRemoved, MachinePurging
<1> QED
  BY <1>2, <1>3 DEF MachineInv

MachineFiles == [name : Name \cup {M!None}, peers : SUBSET Peer, full : BOOLEAN]
MachineCfgs == [name : Name, peers : SUBSET Peer]

LEMMA MachineStartsInv ==
  ASSUME MachineSized, MachineInv, M!Boots \/ M!ByHand
  PROVE  MachineInv'
<1> USE DEF MachineSized, MachineInv, M!Starts, M!autoVars, M!diskVars
<1>0. M!Starts /\ starter' \subseteq starter
  BY DEF M!Boots, M!ByHand
<1>1. M!Default \in Name
  BY DEF M!Default
<1>2. M!Loaded \in [name : Name, peers : SUBSET Peer, full : BOOLEAN] /\ M!Loaded.full
  BY <1>1 DEF M!Loaded, M!TypeOK
<1>3. disk' \in MachineFiles /\ cfg' \in MachineCfgs
  BY <1>0, <1>2 DEF MachineFiles, MachineCfgs
<1>4. M!TypeOK'
  BY <1>0, <1>3 DEF M!TypeOK, MachineFiles, MachineCfgs
<1>5. M!ConfigAgrees'
  BY <1>0, <1>2 DEF M!ConfigAgrees
<1>6. M!StaysRemoved' /\ MachinePurging'
  BY <1>0 DEF M!StaysRemoved, MachinePurging
<1> QED
  BY <1>4, <1>5, <1>6

LEMMA MachineStopsInv ==
  ASSUME MachineSized, MachineInv, M!Stops \/ M!Leaves
  PROVE  MachineInv'
<1> USE DEF MachineSized, MachineInv, M!autoVars, M!diskVars, M!purgeVars
<1>0. /\ process' = "off" /\ adding' = {} /\ todo' = {} /\ crashes' \in 0 .. MaxFaults
      /\ UNCHANGED <<disk, cfg, task, key, program, work, left, starter, chosen, wiped,
                     edited, clicks>>
  BY DEF M!Stops, M!Leaves, M!Fault, M!TypeOK
<1>1. M!TypeOK'
  BY <1>0 DEF M!TypeOK
<1>2. M!ConfigAgrees' /\ M!StaysRemoved' /\ MachinePurging'
  BY <1>0 DEF M!ConfigAgrees, M!StaysRemoved, MachinePurging
<1> QED
  BY <1>1, <1>2

LEMMA MachineHandEditsInv == ASSUME MachineSized, MachineInv, M!HandEdits PROVE MachineInv'
<1> USE DEF MachineSized, MachineInv, M!HandEdits, M!Fault, M!autoVars, M!diskVars,
       M!purgeVars
<1>1. disk' \in MachineFiles
  BY DEF MachineFiles
<1>2. M!TypeOK'
  BY <1>1 DEF M!TypeOK, MachineFiles
<1>3. M!ConfigAgrees' /\ M!StaysRemoved' /\ MachinePurging'
  BY DEF M!ConfigAgrees, M!StaysRemoved, MachinePurging
<1> QED
  BY <1>2, <1>3

\* The file and what the manager holds change together.
MachineBoth == /\ disk' \in MachineFiles /\ cfg' \in MachineCfgs
               /\ disk.peers = cfg.peers /\ disk.name = cfg.name /\ disk.full
                    => disk'.peers = cfg'.peers /\ disk'.name = cfg'.name /\ disk'.full

LEMMA MachineAddPeerBoth == ASSUME M!TypeOK, NEW p \in Peer, M!AddPeer(p) PROVE MachineBoth
<1>1. CASE p \in disk.peers
  BY <1>1 DEF M!AddPeer, MachineBoth, M!TypeOK, MachineFiles, MachineCfgs
<1>2. CASE p \notin disk.peers
  <2>1. /\ disk' = [disk EXCEPT !.peers = disk.peers \cup {p}]
        /\ cfg' = [cfg EXCEPT !.peers = cfg.peers \cup {p}]
    BY <1>2 DEF M!AddPeer, M!Added
  <2> QED
    BY <2>1 DEF MachineBoth, M!TypeOK, MachineFiles, MachineCfgs
<1> QED
  BY <1>1, <1>2

LEMMA MachineDropPeerBoth ==
  ASSUME M!TypeOK, NEW p \in Peer, M!DropPeer(p)
  PROVE  MachineBoth
<1>1. CASE p \notin disk.peers
  BY <1>1 DEF M!DropPeer, MachineBoth, M!TypeOK, MachineFiles, MachineCfgs
<1>2. CASE p \in disk.peers
  <2>1. /\ disk' = [disk EXCEPT !.peers = disk.peers \ {p}]
        /\ cfg' = [cfg EXCEPT !.peers = cfg.peers \ {p}]
    BY <1>2 DEF M!DropPeer, M!CfgWithout
  <2> QED
    BY <2>1 DEF MachineBoth, M!TypeOK, MachineFiles, MachineCfgs
<1> QED
  BY <1>1, <1>2

LEMMA MachineRenamedBoth == ASSUME M!TypeOK, NEW n \in Name, M!Renamed(n) PROVE MachineBoth
  BY DEF M!Renamed, MachineBoth, M!TypeOK, MachineFiles, MachineCfgs

LEMMA MachineBothInv ==
  ASSUME MachineSized, MachineInv, MachineBoth, adding' \subseteq Peer,
         clicks' \in 0 .. MaxCalls, process # "off",
         UNCHANGED <<M!autoVars, M!diskVars, process, M!purgeVars, edited, crashes>>
  PROVE  MachineInv'
<1> USE DEF MachineInv, M!autoVars, M!diskVars, M!purgeVars
<1>1. M!TypeOK'
  BY DEF M!TypeOK, MachineBoth, MachineFiles, MachineCfgs
<1>2. M!ConfigAgrees' /\ M!StaysRemoved' /\ MachinePurging'
  BY DEF M!ConfigAgrees, M!StaysRemoved, MachinePurging, MachineBoth
<1> QED
  BY <1>1, <1>2

LEMMA MachinePeersInv ==
  ASSUME MachineSized, MachineInv, NEW p \in Peer,
         M!Connect(p) \/ M!Connected(p) \/ M!NotConnected(p) \/ M!RemovePeer(p)
  PROVE  MachineInv'
<1> USE DEF MachineSized, MachineInv, M!autoVars, M!diskVars, M!purgeVars
<1>1. UNCHANGED <<disk, cfg>> => MachineBoth
  BY DEF MachineBoth, M!TypeOK, MachineFiles, MachineCfgs
<1>2. adding \subseteq Peer /\ clicks \in 0 .. MaxCalls
  BY DEF M!TypeOK
<1>3. M!Called => clicks' \in 0 .. MaxCalls /\ process # "off"
  BY <1>2 DEF M!Called, M!Free
<1>4. CASE M!Connect(p)
  BY <1>1, <1>2, <1>3, <1>4, MachineBothInv DEF M!Connect
<1>5. CASE M!Connected(p)
  BY <1>2, <1>5, MachineAddPeerBoth, MachineBothInv DEF M!Connected, M!Free
<1>6. CASE M!NotConnected(p)
  BY <1>1, <1>2, <1>6, MachineBothInv DEF M!NotConnected, M!Free
<1>7. CASE M!RemovePeer(p)
  BY <1>2, <1>3, <1>7, MachineDropPeerBoth, MachineBothInv DEF M!RemovePeer
<1> QED
  BY <1>4, <1>5, <1>6, <1>7

LEMMA MachineRenameNodeInv ==
  ASSUME MachineSized, MachineInv, NEW n \in Name, M!RenameNode(n)
  PROVE  MachineInv'
<1> USE DEF MachineInv, M!autoVars, M!diskVars, M!purgeVars
<1>1. adding \subseteq Peer /\ clicks' \in 0 .. MaxCalls /\ process # "off"
  BY DEF M!TypeOK, M!RenameNode, M!Called, M!Free, MachineSized
<1> QED
  BY <1>1, MachineRenamedBoth, MachineBothInv DEF M!RenameNode

LEMMA MachineAutorunInv ==
  ASSUME MachineSized, MachineInv, M!AutorunEnable \/ M!AutorunDisable
  PROVE  MachineInv'
<1> USE DEF MachineSized, MachineInv, M!autoVars, M!diskVars, M!purgeVars
<1>1. /\ clicks' \in 0 .. MaxCalls /\ crashes' \in 0 .. MaxFaults /\ wiped' \subseteq wiped
      /\ UNCHANGED <<disk, cfg, program, work, left, process, starter, adding, todo, chosen,
                     edited>>
  BY DEF M!AutorunEnable, M!AutorunDisable, M!Called, M!Fault, M!Works, M!TypeOK
<1>2. task' \in BOOLEAN /\ key' \in BOOLEAN
  BY Zenon DEF M!AutorunEnable, M!AutorunDisable, M!TypeOK
<1>3. M!TypeOK'
  BY <1>1, <1>2 DEF M!TypeOK
<1>4. M!ConfigAgrees' /\ M!StaysRemoved' /\ MachinePurging'
  BY <1>1 DEF M!ConfigAgrees, M!StaysRemoved, MachinePurging
<1> QED
  BY <1>3, <1>4

LEMMA MachinePurgeInv ==
  ASSUME MachineSized, MachineInv, NEW items \in Choices, M!Purge(items)
  PROVE  MachineInv'
<1> USE DEF MachineSized, MachineInv, M!autoVars, M!diskVars
<1>1. todo' \subseteq M!Items /\ chosen' \subseteq M!Items
  <2>1. items \subseteq M!Items /\ "process" \in M!Items
    BY DEF M!Items, M!Order
  <2> QED
    BY <2>1 DEF M!Purge, M!TypeOK
<1>2. clicks' \in 0 .. MaxCalls
  BY DEF M!Purge, M!Called, M!TypeOK
<1>0. /\ process # "off"
      /\ UNCHANGED <<disk, cfg, task, key, program, work, left, process, starter, adding,
                     wiped, edited, crashes>>
  BY DEF M!Purge, M!Called, M!Free, M!Works
<1>3. M!TypeOK'
  BY <1>0, <1>1, <1>2 DEF M!TypeOK
<1>4. M!ConfigAgrees' /\ M!StaysRemoved' /\ MachinePurging'
  BY <1>0 DEF M!ConfigAgrees, M!StaysRemoved, MachinePurging
<1> QED
  BY <1>3, <1>4

\* An item leaves the file as it is or makes it one that was edited; only the
\* program's is reported for the program, which is not there then.
LEMMA MachinePurgeStepInv ==
  ASSUME MachineSized, MachineInv, M!PurgeStep
  PROVE  MachineInv'
<1> USE DEF MachineSized, MachineInv, M!autoVars, M!diskVars
<1>0. PICK i \in M!Items : M!Item(i) /\ wiped' \in {wiped, wiped \cup {i}}
  <2>1. \A i \in {"autorun_task", "autorun_registry", "config", "work_dir",
                 "update_leftovers", "exe", "process"} : M!Item(i) => i \in M!Items
    BY DEF M!Item, M!TypeOK
  <2> QED
    BY <2>1 DEF M!PurgeStep, M!PurgeTask, M!PurgeKey, M!PurgeConfig, M!PurgeWorkDir,
       M!PurgeLeftovers, M!PurgeExe, M!PurgeProcess, M!Wiped
<1>1. /\ todo' \subseteq M!Items /\ wiped' \subseteq M!Items /\ todo # {}
      /\ UNCHANGED <<cfg, adding, chosen, clicks>>
  BY <1>0 DEF M!Item, M!TypeOK
<1>2. crashes' \in 0 .. MaxFaults
  <2>1. M!Works \/ M!Fault
    BY DEF M!PurgeStep, M!PurgeTask, M!PurgeKey, M!PurgeConfig, M!PurgeWorkDir,
       M!PurgeLeftovers, M!PurgeExe, M!PurgeProcess, M!Works
  <2> QED
    BY <2>1 DEF M!Works, M!Fault, M!TypeOK
<1>3. task' \in BOOLEAN /\ key' \in BOOLEAN /\ work' \in BOOLEAN /\ left' \in BOOLEAN
  BY Zenon DEF M!PurgeStep, M!PurgeTask, M!PurgeKey, M!PurgeConfig, M!PurgeWorkDir,
     M!PurgeLeftovers, M!PurgeExe, M!PurgeProcess, M!TypeOK
<1>4. /\ disk' \in {disk, M!NoFile} /\ edited' \in BOOLEAN
      /\ ~edited' => ~edited /\ disk' = disk
  BY DEF M!PurgeStep, M!PurgeTask, M!PurgeKey, M!PurgeConfig, M!PurgeWorkDir,
     M!PurgeLeftovers, M!PurgeExe, M!PurgeProcess, M!TypeOK
<1>5. /\ program' \in {program, "renamed"}
      /\ Frozen /\ "exe" \in wiped' => "exe" \in wiped \/ program' = "renamed"
  BY DEF M!PurgeStep, M!PurgeTask, M!PurgeKey, M!PurgeConfig, M!PurgeWorkDir,
     M!PurgeLeftovers, M!PurgeExe, M!PurgeProcess, M!Program, M!Wiped
<1>6. /\ process' \in {process, "leaving"} /\ (process' # "off" => process # "off" \/ todo # {})
      /\ starter' \subseteq {"there", "renamed"}
  BY DEF M!PurgeStep, M!PurgeTask, M!PurgeKey, M!PurgeConfig, M!PurgeWorkDir,
     M!PurgeLeftovers, M!PurgeExe, M!PurgeProcess, M!Item, M!TypeOK
<1>7. disk' \in MachineFiles
  <2>1. disk \in MachineFiles /\ M!NoFile \in MachineFiles
    BY DEF M!NoFile, MachineFiles, M!TypeOK
  <2> QED
    BY <1>4, <2>1
<1>8. M!TypeOK'
  BY <1>1, <1>2, <1>3, <1>4, <1>5, <1>6, <1>7 DEF M!TypeOK, MachineFiles
<1>9. M!ConfigAgrees'
  BY <1>1, <1>4, <1>6 DEF M!ConfigAgrees, MachinePurging
<1>10. M!StaysRemoved' /\ MachinePurging'
  BY <1>1, <1>5, <1>6 DEF M!StaysRemoved, MachinePurging
<1> QED
  BY <1>8, <1>9, <1>10

LEMMA MachineStarterRunsInv ==
  ASSUME MachineSized, MachineInv, M!StarterRuns
  PROVE  MachineInv'
<1> USE DEF MachineInv, M!autoVars
<1>1. program' \in {program, "gone"} /\ starter' \subseteq starter
  BY DEF M!StarterRuns
<1>2. M!TypeOK'
  BY <1>1 DEF M!StarterRuns, M!TypeOK
<1>3. M!ConfigAgrees' /\ M!StaysRemoved' /\ MachinePurging'
  BY <1>1 DEF M!ConfigAgrees, M!StaysRemoved, MachinePurging, M!StarterRuns
<1> QED
  BY <1>2, <1>3

LEMMA MachineNextInv ==
  ASSUME MachineSized, MachineInv, [M!Next]_machineVars
  PROVE  MachineInv'
<1>1. CASE UNCHANGED machineVars
  BY <1>1 DEF machineVars, MachineInv, MachinePurging, M!TypeOK, M!ConfigAgrees,
     M!StaysRemoved
<1>2. ASSUME NEW items \in Choices, M!Purge(items) PROVE MachineInv'
  BY <1>2, MachinePurgeInv
<1> QED
  BY <1>1, <1>2, MachineStartsInv, MachineStopsInv, MachineHandEditsInv,
     MachinePeersInv, MachineRenameNodeInv, MachineAutorunInv, MachinePurgeStepInv,
     MachineStarterRunsInv DEF M!Next

LEMMA MachineSound == ASSUME MachineInv PROVE M!TypeOK /\ M!ConfigAgrees /\ M!StaysRemoved
  BY DEF MachineInv

-----------------------------------------------------------------------------
(* The loader: an instance is in the list, waits to be, or has been stopped.*)

LoaderSwaps == [pc : {"none", "queued", "stopped", "done"}, old : L!Version \cup {L!Never}]

LoaderTyped ==
    /\ phase \in {"boot", "starting", "up", "stopping", "down"}
    /\ made \in 0 .. MaxMade
    /\ modules \in Seq(L!Version \cup {L!Core}) /\ Len(modules) <= made + 1
    /\ pos \in 0 .. Len(modules) + 1
    /\ reg \in L!Version \cup {L!Never}
    /\ meth \in [Method -> L!Version \cup {L!Never}]
    /\ runs \in [L!Version -> 0 .. 2]
    /\ swap \in [L!Version -> LoaderSwaps]
    /\ away \in {"idle", "waits", "answered", "cut"}
    /\ overlap \in BOOLEAN /\ late \in BOOLEAN /\ early \in BOOLEAN
    /\ failures \in 0 .. MaxFaults

\* The list of the context: the core first, no module twice.
LoaderIn(v) == \E i \in DOMAIN modules : modules[i] = v
LoaderListed == /\ Len(modules) >= 1 /\ modules[1] = L!Core
                /\ \A i, j \in DOMAIN modules : modules[i] = modules[j] => i = j
LoaderTurn == /\ phase \in {"boot", "starting"} => pos >= 1
              /\ phase = "boot" => pos = 1
              /\ phase = "stopping" => pos <= Len(modules)

\* A version that was not made, or whose swap is not over, is not there yet.
LoaderWaiting(v) == v > made \/ swap[v].pc \in {"queued", "stopped"}
LoaderFresh == \A v \in L!Version : /\ LoaderWaiting(v) => ~LoaderIn(v) /\ runs[v] = 0
                                    /\ v > made => swap[v] = L!NoSwap
                                    /\ swap[v].pc # "none" => swap[v].old \in L!Version

\* A version is started by startup once and by its swap once.
LoaderAhead(v) == phase \in {"boot", "starting"} /\ \E i \in DOMAIN modules : i >= pos
   /\ modules[i] = v
LoaderCounted == \A v \in L!Version : /\ swap[v].pc # "done" => runs[v] <= 1
                                      /\ LoaderAhead(v) => runs[v] <= 1
                                      /\ LoaderAhead(v) /\ swap[v].pc # "done"
                                          => runs[v] = 0

\* A life without faults in which each swap has the node to itself.
LoaderCalm == ~overlap /\ ~late /\ failures = 0
LoaderSingle == \A v, w \in L!Unfinished : v = w
LoaderOrderly == /\ \A v \in L!Unfinished : LoaderIn(swap[v].old) /\ (~early
                    => swap[v].old = reg)
                 /\ reg # L!Never => LoaderIn(reg)
                 /\ ~early => \A i \in DOMAIN modules : modules[i] \in {L!Core, reg}
LoaderStopped(v) == \E w \in L!Version : swap[w].pc = "stopped" /\ swap[w].old = v
LoaderUpward == phase \in {"boot", "starting"} =>
            \A v \in L!Version :
                /\ swap[v].pc # "stopped" /\ runs[v] <= 1
                /\ runs[v] = 1 <=> \E i \in DOMAIN modules : i < pos /\ modules[i] = v
LoaderSteady == phase = "up" =>
            \A v \in L!Version : runs[v] <= 1 /\ (runs[v] = 1 <=> LoaderIn(v)
               /\ ~LoaderStopped(v))
LoaderDownward == /\ phase = "stopping" =>
                       \A v \in L!Version : runs[v] > 0 => \E i \in DOMAIN modules :
                                                              i <= pos /\ modules[i] = v
                  /\ phase = "down" => \A v \in L!Version : runs[v] = 0

LoaderInv == /\ LoaderTyped /\ LoaderListed /\ LoaderTurn /\ LoaderFresh
                /\ LoaderCounted /\ L!ServedWhole
             /\ LoaderCalm => LoaderSingle /\ LoaderOrderly /\ LoaderUpward
                 /\ LoaderSteady /\ LoaderDownward

LEMMA LoaderInitInv == ASSUME LoaderSized, L!Init PROVE LoaderInv
<1> USE DEF LoaderSized, L!Init
<1>1. LoaderTyped
  <2>1. modules \in Seq(L!Version \cup {L!Core})
           /\ Len(modules) = (IF made = 0 THEN 1 ELSE 2)
    <3>1. CASE made = 0
      <4>1. <<L!Core>> \in Seq(L!Version \cup {L!Core}) /\ Len(<<L!Core>>) = 1
        OBVIOUS
      <4> QED
        BY <3>1, <4>1
    <3>2. CASE made # 0
      <4>1. 1 \in L!Version
        BY DEF L!Version
      <4>2. <<L!Core, 1>> \in Seq(L!Version \cup {L!Core}) /\ Len(<<L!Core, 1>>) = 2
        BY <4>1
      <4> QED
        BY <3>2, <4>2
    <3> QED
      BY <3>1, <3>2
  <2>2. reg \in L!Version \cup {L!Never} /\ meth \in [Method -> L!Version \cup {L!Never}]
    BY DEF L!Version, L!Never, L!Nobody, L!Registered
  <2>3. swap \in [L!Version -> LoaderSwaps]
    BY DEF LoaderSwaps, L!Version, L!Never, L!NoSwap, L!Queued
  <2>4. made \in 0 .. MaxMade /\ Len(modules) <= made + 1 /\ pos \in 0 .. Len(modules) + 1
    BY <2>1
  <2>5. runs \in [L!Version -> 0 .. 2]
    OBVIOUS
  <2>6. phase = "boot" /\ away = "idle" /\ failures \in 0 .. MaxFaults
    OBVIOUS
  <2>7. overlap \in BOOLEAN /\ late \in BOOLEAN /\ early \in BOOLEAN
    BY Zenon
  <2> HIDE DEF L!Init, LoaderSized
  <2> QED
    BY <2>1, <2>2, <2>3, <2>4, <2>5, <2>6, <2>7 DEF LoaderTyped
<1>2. LoaderListed /\ LoaderTurn
  BY DEF LoaderListed, LoaderTurn, L!Version, L!Core
<1>3. \A v \in L!Version : LoaderIn(v) => v = 1 /\ made >= 1
  BY DEF LoaderIn, L!Version, L!Core
<1>4. \A v \in L!Version : swap[v] = L!NoSwap \/ (v = 2 /\ made = 2
         /\ swap[v] = L!Queued(1))
  OBVIOUS
<1>5. LoaderFresh
  BY <1>3, <1>4 DEF LoaderFresh, LoaderWaiting, L!NoSwap, L!Queued, L!Version
<1>6. LoaderCounted
  BY DEF LoaderCounted
<1>7. L!ServedWhole
  BY DEF L!ServedWhole, L!Nobody, L!Registered, L!Never
<1>8. LoaderSingle
  BY <1>4 DEF LoaderSingle, L!Unfinished, L!NoSwap
<1>9. LoaderOrderly
  BY <1>4 DEF LoaderOrderly, L!Unfinished, LoaderIn, L!NoSwap, L!Queued, L!Never, L!Core,
     L!Version
<1>10. LoaderUpward /\ LoaderSteady /\ LoaderDownward
  BY <1>4 DEF LoaderUpward, LoaderSteady, LoaderDownward, L!NoSwap, L!Queued
<1> QED
  BY <1>1, <1>2, <1>5, <1>6, <1>7, <1>8, <1>9, <1>10 DEF LoaderInv

\* What stays when neither the list nor the tables, the swaps and the counts do.
LEMMA LoaderStartupInv == ASSUME LoaderSized, LoaderInv, L!Startup PROVE LoaderInv'
<1> USE DEF L!Startup, LoaderInv, L!ctxVars, L!tableVars, L!ghostVars
<1>1. LoaderTyped' /\ LoaderListed' /\ LoaderTurn' /\ LoaderFresh' /\ L!ServedWhole'
  BY DEF LoaderTyped, LoaderListed, LoaderTurn, LoaderFresh, LoaderWaiting, LoaderIn,
     L!ServedWhole
<1>2. LoaderCounted'
  BY DEF LoaderCounted, LoaderAhead
<1>3. LoaderCalm' => LoaderSingle' /\ LoaderOrderly' /\ LoaderUpward' /\ LoaderSteady'
         /\ LoaderDownward'
  BY DEF LoaderCalm, LoaderSingle, LoaderOrderly, LoaderUpward, LoaderSteady,
     LoaderDownward, L!Unfinished, LoaderIn
<1> QED
  BY <1>1, <1>2, <1>3

LEMMA LoaderStartNextInv == ASSUME LoaderSized, LoaderInv, L!StartNext PROVE LoaderInv'
<1> USE DEF LoaderInv, L!tableVars, L!ghostVars
<1>0. /\ phase = "starting"
      /\ UNCHANGED <<modules, reg, meth, made, swap, away, overlap, late, early>>
      /\ pos \in 1 .. Len(modules) + 1
  BY DEF L!StartNext, LoaderTyped, LoaderTurn
<1>1. CASE phase' # "starting"
  <2>0. /\ UNCHANGED <<pos, runs>> /\ phase' \in {"up", "down"}
        /\ failures' \in 0 .. MaxFaults
        /\ (phase' = "up" /\ pos = Len(modules) + 1) \/ failures' # 0
    BY <1>0, <1>1 DEF L!StartNext, L!Fault, L!Works, L!Run, LoaderTyped, LoaderSized
  <2>1. LoaderTyped' /\ LoaderListed' /\ LoaderTurn' /\ LoaderFresh' /\ L!ServedWhole'
    BY <1>0, <2>0 DEF LoaderTyped, LoaderListed, LoaderTurn, LoaderFresh, LoaderWaiting,
       LoaderIn, L!ServedWhole
  <2>2. LoaderCounted'
    BY <1>0, <2>0 DEF LoaderCounted, LoaderAhead
  <2>3. ASSUME LoaderCalm'
        PROVE LoaderSingle' /\ LoaderOrderly' /\ LoaderUpward' /\ LoaderSteady'
                /\ LoaderDownward'
    <3>1. LoaderCalm /\ phase' = "up" /\ pos = Len(modules) + 1
      BY <1>0, <2>0, <2>3 DEF LoaderCalm, L!StartNext, L!Fault, L!Works, LoaderTyped
    <3>2. LoaderSingle' /\ LoaderOrderly' /\ LoaderUpward' /\ LoaderDownward'
      BY <1>0, <2>0, <3>1 DEF LoaderSingle, LoaderOrderly, LoaderUpward, LoaderDownward,
         L!Unfinished, LoaderIn
    <3>3. \A v \in L!Version : LoaderIn(v) <=> \E i \in DOMAIN modules : i < pos
             /\ modules[i] = v
      BY <3>1 DEF LoaderIn, LoaderTyped
    <3>4. LoaderSteady'
      BY <1>0, <2>0, <3>1, <3>3 DEF LoaderSteady, LoaderUpward, LoaderStopped, LoaderIn
    <3> QED
      BY <3>2, <3>4
  <2> QED
    BY <2>1, <2>2, <2>3
<1>2. CASE phase' = "starting"
  <2>0. /\ pos \in 1 .. Len(modules) /\ L!Run(modules[pos]) /\ pos' = pos + 1
        /\ UNCHANGED <<phase, failures>>
    BY <1>0, <1>2 DEF L!StartNext, L!Works
  <2>1. pos \in DOMAIN modules /\ modules[pos] \in L!Version \cup {L!Core}
    BY <2>0 DEF LoaderTyped
  <2>2. modules[pos] \in L!Version => LoaderAhead(modules[pos])
           /\ LoaderIn(modules[pos]) /\ ~LoaderWaiting(modules[pos])
    BY <1>0, <2>1, <2>0 DEF LoaderAhead, LoaderIn, LoaderFresh
  <2>3. \A v \in L!Version : IF v = modules[pos] THEN runs'[v] = runs[v] + 1 ELSE runs'[v] = runs[v]
    BY <2>0, <2>1 DEF L!Run, LoaderTyped, L!Core, L!Version
  <2>4. runs' \in [L!Version -> 0 .. 2]
    <3>1. CASE modules[pos] = L!Core
      BY <2>0, <3>1 DEF L!Run, LoaderTyped
    <3>2. CASE modules[pos] # L!Core
      <4>1. runs[modules[pos]] \in 0 .. 1
        BY <2>1, <2>2, <3>2 DEF LoaderCounted, LoaderTyped
      <4> QED
        BY <2>0, <2>1, <3>2, <4>1 DEF L!Run, LoaderTyped
    <3> QED
      BY <3>1, <3>2
  <2>5. LoaderTyped' /\ LoaderListed' /\ LoaderTurn' /\ L!ServedWhole'
    BY <1>0, <2>0, <2>4 DEF LoaderTyped, LoaderListed, LoaderTurn, L!ServedWhole
  <2>6. LoaderFresh'
    BY <1>0, <2>2, <2>3 DEF LoaderFresh, LoaderWaiting, LoaderIn
  <2>7. \A v \in L!Version : LoaderAhead(v)' => LoaderAhead(v) /\ v # modules[pos]
    BY <1>0, <2>0, <2>1 DEF LoaderAhead, LoaderListed, LoaderTyped
  <2>8. LoaderCounted'
    <3>1. \A v \in L!Version : v = modules[pos] => runs[v] \in 0 .. 1
             /\ (swap[v].pc # "done" => runs[v] = 0)
      BY <2>2 DEF LoaderCounted, LoaderTyped
    <3> QED
      BY <1>0, <2>3, <2>7, <3>1 DEF LoaderCounted, LoaderTyped
  <2>9. ASSUME LoaderCalm'
        PROVE LoaderSingle' /\ LoaderOrderly' /\ LoaderUpward' /\ LoaderSteady'
                /\ LoaderDownward'
    <3>1. LoaderCalm
      BY <1>0, <2>0, <2>9 DEF LoaderCalm
    <3>2. LoaderSingle' /\ LoaderOrderly' /\ LoaderSteady' /\ LoaderDownward'
      BY <1>0, <2>0, <3>1 DEF LoaderSingle, LoaderOrderly, LoaderSteady, LoaderDownward,
         L!Unfinished, LoaderIn
    <3>3. ASSUME NEW v \in L!Version
          PROVE  (\E i \in DOMAIN modules : i < pos + 1 /\ modules[i] = v)
                   <=> (v = modules[pos] \/ \E i \in DOMAIN modules : i < pos
                      /\ modules[i] = v)
      BY <2>0, <2>1 DEF LoaderTyped
    <3>4. \A v \in L!Version : v = modules[pos] => ~\E i \in DOMAIN modules : i < pos
             /\ modules[i] = v
      BY <2>1, <2>0 DEF LoaderListed
    <3>5. LoaderUpward'
      BY <1>0, <2>0, <2>3, <3>1, <3>3, <3>4 DEF LoaderUpward, LoaderTyped
    <3> QED
      BY <3>2, <3>5
  <2> QED
    BY <2>5, <2>6, <2>8, <2>9
<1> QED
  BY <1>1, <1>2

LEMMA LoaderShutdownInv == ASSUME LoaderSized, LoaderInv, L!Shutdown PROVE LoaderInv'
<1> USE DEF L!Shutdown, LoaderInv, L!ctxVars, L!tableVars, L!ghostVars
<1>1. LoaderTyped' /\ LoaderListed' /\ LoaderTurn' /\ LoaderFresh' /\ L!ServedWhole'
  BY DEF LoaderTyped, LoaderListed, LoaderTurn, LoaderFresh, LoaderWaiting, LoaderIn,
     L!ServedWhole
<1>2. LoaderCounted'
  BY DEF LoaderCounted, LoaderAhead
<1>3. ASSUME LoaderCalm'
      PROVE LoaderSingle' /\ LoaderOrderly' /\ LoaderUpward' /\ LoaderSteady'
              /\ LoaderDownward'
  <2>1. LoaderCalm
    BY <1>3 DEF LoaderCalm
  <2>2. LoaderSingle' /\ LoaderOrderly' /\ LoaderUpward' /\ LoaderSteady'
    BY <2>1 DEF LoaderSingle, LoaderOrderly, LoaderUpward, LoaderSteady, L!Unfinished,
       LoaderIn
  <2>3. LoaderDownward'
    BY <2>1 DEF LoaderDownward, LoaderSteady, LoaderIn, LoaderTyped
  <2> QED
    BY <2>2, <2>3
<1> QED
  BY <1>1, <1>2, <1>3

LEMMA LoaderStopNextInv == ASSUME LoaderSized, LoaderInv, L!StopNext PROVE LoaderInv'
<1> USE DEF LoaderInv, L!tableVars, L!ghostVars
<1>0. /\ phase = "stopping"
      /\ UNCHANGED <<modules, reg, meth, made, swap, away, overlap, late, early>>
      /\ pos \in 0 .. Len(modules) /\ phase' \in {"stopping", "down"}
  BY DEF L!StopNext, LoaderTyped, LoaderTurn
<1>1. /\ failures' \in 0 .. MaxFaults /\ pos' \in 0 .. Len(modules)
      /\ \/ pos = 0 /\ phase' = "down" /\ UNCHANGED <<pos, runs, failures>>
         \/ pos # 0 /\ L!Halt(modules[pos]) /\ pos' = pos - 1
             /\ UNCHANGED <<phase, failures>>
         \/ failures' # 0 /\ UNCHANGED <<pos, runs>>
  BY <1>0 DEF L!StopNext, L!Fault, L!Works, LoaderTyped, LoaderSized
<1>2. pos # 0 => modules[pos] \in L!Version \cup {L!Core}
  BY <1>0 DEF LoaderTyped
<1>3. runs' \in [L!Version -> 0 .. 2] /\ \A v \in L!Version : runs'[v] \in {0, runs[v]}
  BY <1>1, <1>2 DEF L!Halt, LoaderTyped
<1>4. LoaderTyped' /\ LoaderListed' /\ LoaderTurn' /\ L!ServedWhole'
  BY <1>0, <1>1, <1>3 DEF LoaderTyped, LoaderListed, LoaderTurn, L!ServedWhole
<1>5. LoaderFresh' /\ LoaderCounted'
  BY <1>0, <1>3 DEF LoaderFresh, LoaderWaiting, LoaderIn, LoaderCounted, LoaderAhead
<1>6. ASSUME LoaderCalm'
      PROVE LoaderSingle' /\ LoaderOrderly' /\ LoaderUpward' /\ LoaderSteady'
              /\ LoaderDownward'
  <2>1. LoaderCalm
    BY <1>0, <1>1, <1>6 DEF LoaderCalm, L!StopNext, L!Fault, L!Works, LoaderTyped
  <2>2. LoaderSingle' /\ LoaderOrderly' /\ LoaderUpward' /\ LoaderSteady'
    BY <1>0, <2>1 DEF LoaderSingle, LoaderOrderly, LoaderUpward, LoaderSteady,
       L!Unfinished, LoaderIn
  <2>3. CASE pos = 0 /\ phase' = "down" /\ UNCHANGED <<pos, runs, failures>>
    <3>1. ~\E i \in DOMAIN modules : i <= pos
      BY <2>3 DEF LoaderTyped
    <3>2. \A v \in L!Version : runs[v] = 0
      BY <1>0, <2>1, <3>1 DEF LoaderDownward, LoaderTyped
    <3> QED
      BY <2>2, <2>3, <3>2 DEF LoaderDownward
  <2>4. CASE pos # 0 /\ L!Halt(modules[pos]) /\ pos' = pos - 1
           /\ UNCHANGED <<phase, failures>>
    <3>1. ASSUME NEW v \in L!Version, runs'[v] > 0
          PROVE  \E i \in DOMAIN modules : i <= pos - 1 /\ modules[i] = v
      <4>1. runs[v] > 0 /\ v # modules[pos]
        BY <2>4, <3>1, <1>2 DEF L!Halt, LoaderTyped, L!Core, L!Version
      <4>2. PICK i \in DOMAIN modules : i <= pos /\ modules[i] = v
        BY <1>0, <2>1, <4>1 DEF LoaderDownward
      <4>3. i # pos
        BY <4>1, <4>2
      <4> QED
        BY <1>0, <4>2, <4>3
    <3>2. phase' = "stopping" /\ modules' = modules /\ pos' = pos - 1
      BY <1>0, <2>4
    <3>3. ~(phase' = "down")
      BY <3>2
    <3> QED
      BY <2>2, <3>1, <3>2, <3>3 DEF LoaderDownward
  <2> QED
    BY <1>1, <1>6, <2>2, <2>3, <2>4 DEF LoaderCalm
<1> QED
  BY <1>4, <1>5, <1>6

\* A version that is new goes to the end of the list, or waits for its swap.
LEMMA LoaderActivateInv ==
  ASSUME LoaderSized, LoaderInv, L!Change, L!Activate(made + 1)
  PROVE  LoaderInv'
<1> USE DEF LoaderInv
<1> DEFINE v == made + 1
<1>0. /\ phase \in {"boot", "starting", "up", "stopping"} /\ made < MaxMade
      /\ made' = v /\ (reg = L!Never \/ phase = "boot")
          /\ UNCHANGED <<phase, pos, runs, failures>>
      /\ reg' = v /\ meth' = L!Registered(meth, v) /\ modules' = Append(modules, v)
      /\ late' = (late \/ phase \in {"up", "stopping"}) /\ early' = (early \/ reg # L!Never)
      /\ UNCHANGED <<swap, overlap>> /\ away' \in {"idle", "waits", "answered", "cut"}
  <2>1. CASE reg = L!Never \/ phase = "boot"
    BY <2>1 DEF L!Change, L!Activate, L!Cut, L!ctxVars, LoaderTyped
  <2>2. CASE ~(reg = L!Never \/ phase = "boot")
    <3>1. UNCHANGED modules
      BY <2>2 DEF L!Change
    <3>2. modules' = Append(modules, v)
      BY DEF L!Activate
    <3>3. Len(modules') = Len(modules) + 1
      BY <3>2 DEF LoaderTyped
    <3> QED
      BY <3>1, <3>3 DEF LoaderTyped
  <2> QED
    BY <2>1, <2>2
<1>1. v \in L!Version /\ v \in Nat /\ v # L!Core /\ v # L!Never /\ ~LoaderIn(v)
         /\ swap[v] = L!NoSwap /\ runs[v] = 0
  BY <1>0 DEF LoaderSized, LoaderTyped, L!Version, L!Core, L!Never, LoaderFresh,
     LoaderWaiting
<1> HIDE DEF v
<1>2. /\ Len(modules') = Len(modules) + 1 /\ modules'[Len(modules) + 1] = v
      /\ \A i \in DOMAIN modules : modules'[i] = modules[i] /\ i \in DOMAIN modules'
      /\ DOMAIN modules' = DOMAIN modules \cup {Len(modules) + 1}
      /\ modules' \in Seq(L!Version \cup {L!Core}) /\ Len(modules) \in Nat
      /\ DOMAIN modules = 1 .. Len(modules)
  BY <1>0, <1>1 DEF LoaderTyped
<1>3. \A w : LoaderIn(w)' <=> LoaderIn(w) \/ w = v
  BY <1>2 DEF LoaderIn
<1>4. LoaderTyped'
  <2>1. made' \in 0 .. MaxMade /\ Len(modules') <= made' + 1
           /\ pos' \in 0 .. Len(modules') + 1
    BY <1>0, <1>2 DEF LoaderTyped, LoaderSized, v
  <2>2. meth' \in [Method -> L!Version \cup {L!Never}]
    BY <1>0, <1>1 DEF LoaderTyped, L!Registered
  <2>3. late' \in BOOLEAN /\ early' \in BOOLEAN
    BY <1>0
  <2> QED
    BY <1>0, <1>1, <1>2, <2>1, <2>2, <2>3 DEF LoaderTyped
<1>5. LoaderListed' /\ LoaderTurn'
  BY <1>0, <1>1, <1>2 DEF LoaderListed, LoaderTurn, LoaderIn, LoaderTyped
<1>6. LoaderFresh'
  BY <1>0, <1>1, <1>3 DEF LoaderFresh, LoaderWaiting, LoaderTyped, L!Version, L!NoSwap, v
<1>7. ASSUME NEW w \in L!Version, LoaderAhead(w)' PROVE LoaderAhead(w) \/ w = v
  BY <1>0, <1>2, <1>7 DEF LoaderAhead
<1>8. LoaderCounted'
  BY <1>0, <1>1, <1>7 DEF LoaderCounted
<1>9. L!ServedWhole'
  BY <1>0 DEF L!ServedWhole, L!Registered, L!Never, LoaderTyped
<1>10. ASSUME LoaderCalm'
       PROVE LoaderSingle' /\ LoaderOrderly' /\ LoaderUpward' /\ LoaderSteady'
               /\ LoaderDownward'
  <2>1. LoaderCalm /\ phase \in {"boot", "starting"}
    BY <1>0, <1>10 DEF LoaderCalm, LoaderTyped
  <2>2. LoaderSingle' /\ LoaderSteady' /\ LoaderDownward'
    BY <1>0, <2>1 DEF LoaderSingle, LoaderSteady, LoaderDownward, L!Unfinished
  <2>3. ~early' => L!Unfinished = {} /\ ~early /\ reg = L!Never
    <3> SUFFICES ASSUME ~early' PROVE L!Unfinished = {} /\ ~early /\ reg = L!Never
      OBVIOUS
    <3>1. ~early /\ reg = L!Never
      BY <1>0
    <3>2. \A w \in L!Unfinished : swap[w].old = reg /\ swap[w].old \in L!Version
      BY <2>1, <3>1 DEF LoaderOrderly, LoaderFresh, L!Unfinished
    <3>3. reg \notin L!Version
      BY <3>1 DEF L!Never, L!Version
    <3> QED
      BY <3>1, <3>2, <3>3
  <2>4. LoaderOrderly'
    BY <1>0, <1>1, <1>2, <1>3, <2>1, <2>3 DEF LoaderOrderly, L!Unfinished, L!Never, L!Core
  <2>5. pos <= Len(modules) + 1 /\ pos \in Nat
    BY DEF LoaderTyped
  <2>6. \A w \in L!Version : (\E i \in DOMAIN modules' : i < pos /\ modules'[i] = w)
                             <=> \E i \in DOMAIN modules : i < pos /\ modules[i] = w
    BY <1>2, <2>5
  <2>7. LoaderUpward'
    BY <1>0, <2>1, <2>6 DEF LoaderUpward
  <2> QED
    BY <2>2, <2>4, <2>7
<1> QED
  BY <1>4, <1>5, <1>6, <1>8, <1>9, <1>10

LEMMA LoaderQueueInv ==
  ASSUME LoaderSized, LoaderInv, L!Change, reg # L!Never, phase # "boot"
  PROVE  LoaderInv'
<1> USE DEF LoaderInv
<1> DEFINE v == made + 1
<1>0. /\ phase \in {"starting", "up", "stopping"} /\ made < MaxMade
      /\ made' = v
      /\ UNCHANGED <<phase, pos, runs, failures, modules, reg, meth, late, early>>
      /\ swap' = [swap EXCEPT ![v] = L!Queued(reg)]
      /\ overlap' = (overlap \/ phase # "up" \/ L!Unfinished # {})
      /\ away' \in {"idle", "waits", "answered", "cut"}
  BY DEF L!Change, L!Cut, L!ctxVars, L!tableVars, LoaderTyped
<1>1. v \in L!Version /\ v # L!Core /\ v # L!Never /\ ~LoaderIn(v) /\ swap[v] = L!NoSwap
         /\ runs[v] = 0
  BY <1>0 DEF LoaderSized, LoaderTyped, L!Version, L!Core, L!Never, LoaderFresh,
     LoaderWaiting
<1>2. /\ swap' \in [L!Version -> LoaderSwaps] /\ swap'[v].pc = "queued"
      /\ swap'[v].old = reg
      /\ \A w \in L!Version : w # v => swap'[w] = swap[w]
  BY <1>0, <1>1 DEF LoaderTyped, LoaderSwaps, L!Queued
<1>3. LoaderTyped'
  <2>1. made' \in 0 .. MaxMade /\ Len(modules') <= made' + 1 /\ overlap' \in BOOLEAN
    BY <1>0 DEF LoaderTyped, LoaderSized
  <2> QED
    BY <1>0, <1>2, <2>1 DEF LoaderTyped
<1>4. LoaderListed' /\ LoaderTurn' /\ L!ServedWhole'
  BY <1>0 DEF LoaderListed, LoaderTurn, L!ServedWhole
<1>5. LoaderFresh'
  BY <1>0, <1>1, <1>2 DEF LoaderFresh, LoaderWaiting, LoaderIn, LoaderTyped, L!Version,
     L!Never
<1>6. LoaderCounted'
  BY <1>0, <1>1, <1>2 DEF LoaderCounted, LoaderAhead, L!NoSwap
<1>7. ASSUME LoaderCalm'
      PROVE LoaderSingle' /\ LoaderOrderly' /\ LoaderUpward' /\ LoaderSteady'
              /\ LoaderDownward'
  <2>1. LoaderCalm /\ phase = "up" /\ L!Unfinished = {}
    BY <1>0, <1>7 DEF LoaderCalm, LoaderTyped
  <2>2. \A w \in L!Version : swap[w].pc \notin {"queued", "stopped"}
    BY <2>1 DEF L!Unfinished
  <2>3. \A w \in L!Unfinished' : w = v
    BY <1>2, <2>2 DEF L!Unfinished
  <2>4. LoaderSingle' /\ LoaderOrderly'
    BY <1>0, <1>2, <2>1, <2>3 DEF LoaderSingle, LoaderOrderly, LoaderIn
  <2>5. LoaderUpward' /\ LoaderDownward'
    BY <1>0, <2>1 DEF LoaderUpward, LoaderDownward
  <2>6. LoaderSteady'
    BY <1>0, <1>2, <2>1, <2>2 DEF LoaderSteady, LoaderStopped, LoaderIn
  <2> QED
    BY <2>4, <2>5, <2>6
<1> QED
  BY <1>3, <1>4, <1>5, <1>6, <1>7

LEMMA LoaderChangeInv == ASSUME LoaderSized, LoaderInv, L!Change PROVE LoaderInv'
  BY LoaderActivateInv, LoaderQueueInv DEF L!Change

LEMMA LoaderSwapStopsInv ==
  ASSUME LoaderSized, LoaderInv, NEW v \in L!Version, L!SwapStops(v)
  PROVE  LoaderInv'
<1> USE DEF LoaderInv
<1>0. /\ swap[v].pc = "queued" /\ phase \in {"starting", "up", "stopping"}
      /\ (L!Halts(v) /\ UNCHANGED failures) \/ (failures' = failures + 1
          /\ failures' \in 0 .. MaxFaults /\ UNCHANGED runs)
      /\ swap' = [swap EXCEPT ![v].pc = "stopped"]
      /\ overlap' = (overlap \/ phase # "up" \/ L!Unfinished # {v})
      /\ UNCHANGED <<phase, pos, modules, reg, meth, made, away, late, early>>
  BY DEF L!SwapStops, L!ctxVars, L!tableVars, L!Works, L!Fault, LoaderTyped, LoaderSized
<1>1. swap[v].old \in L!Version
  BY <1>0 DEF LoaderFresh
<1>2. runs' \in [L!Version -> 0 .. 2] /\ \A w \in L!Version : runs'[w] \in {0, runs[w]}
  BY <1>0, <1>1 DEF L!Halts, L!Halt, LoaderTyped
<1>3. /\ swap' \in [L!Version -> LoaderSwaps] /\ swap'[v].pc = "stopped"
      /\ swap'[v].old = swap[v].old
      /\ \A w \in L!Version : w # v => swap'[w] = swap[w]
  BY <1>0 DEF LoaderTyped, LoaderSwaps
<1>4. LoaderTyped'
  BY <1>0, <1>2, <1>3 DEF LoaderTyped
<1>5. LoaderListed' /\ LoaderTurn' /\ L!ServedWhole'
  BY <1>0 DEF LoaderListed, LoaderTurn, L!ServedWhole
<1>6. LoaderFresh'
  BY <1>0, <1>1, <1>2, <1>3 DEF LoaderFresh, LoaderWaiting, LoaderIn, L!NoSwap
<1>7. LoaderCounted'
  BY <1>0, <1>2, <1>3 DEF LoaderCounted, LoaderAhead
<1>8. ASSUME LoaderCalm'
      PROVE LoaderSingle' /\ LoaderOrderly' /\ LoaderUpward' /\ LoaderSteady'
              /\ LoaderDownward'
  <2>0. failures' = 0 /\ ~(failures' = failures + 1)
    BY <1>8 DEF LoaderCalm, LoaderTyped
  <2>1. LoaderCalm /\ phase = "up" /\ L!Unfinished = {v} /\ L!Halts(v)
    BY <1>0, <1>8, <2>0 DEF LoaderCalm
  <2>2. L!Unfinished' = L!Unfinished
    BY <1>0, <1>3 DEF L!Unfinished
  <2>3. LoaderSingle' /\ LoaderOrderly'
    BY <1>0, <1>3, <2>1, <2>2 DEF LoaderSingle, LoaderOrderly, LoaderIn
  <2>4. LoaderUpward' /\ LoaderDownward'
    BY <1>0, <2>1 DEF LoaderUpward, LoaderDownward
  <2>5. \A w \in L!Version : ~LoaderStopped(w)
    BY <1>0, <2>1 DEF LoaderStopped, L!Unfinished
  <2>6. \A w \in L!Version : LoaderStopped(w)' <=> w = swap[v].old
    BY <1>3, <2>5 DEF LoaderStopped
  <2>7. runs' = [runs EXCEPT ![swap[v].old] = 0]
    BY <1>1, <2>1 DEF L!Halts, L!Halt, L!Core, L!Version
  <2>8. LoaderSteady'
    BY <1>0, <1>1, <2>1, <2>5, <2>6, <2>7 DEF LoaderSteady, LoaderIn, LoaderTyped
  <2> QED
    BY <2>3, <2>4, <2>8
<1> QED
  BY <1>4, <1>5, <1>6, <1>7, <1>8

LEMMA LoaderSwapStartsInv ==
  ASSUME LoaderSized, LoaderInv, NEW v \in L!Version, L!SwapStarts(v)
  PROVE  LoaderInv'
<1> USE DEF LoaderInv
<1>0. /\ swap[v].pc = "stopped" /\ phase \in {"starting", "up", "stopping"}
      /\ modules' = [i \in DOMAIN modules |-> IF modules[i] = swap[v].old THEN v ELSE modules[i]]
      /\ reg' = v /\ meth' = L!Replaced(v)
      /\ (L!Run(v) /\ UNCHANGED failures) \/ (failures' = failures + 1
          /\ failures' \in 0 .. MaxFaults /\ UNCHANGED runs)
      /\ swap' = [swap EXCEPT ![v].pc = "done"]
      /\ overlap' = (overlap \/ phase # "up" \/ L!Unfinished # {v})
      /\ UNCHANGED <<phase, pos, made, away, late, early>>
  BY DEF L!SwapStarts, L!ctxVars, L!tableVars, L!Works, L!Fault, LoaderTyped, LoaderSized
<1>1. /\ swap[v].old \in L!Version /\ ~LoaderIn(v) /\ runs[v] = 0 /\ v <= made
      /\ v \in Nat /\ v # L!Core /\ v # L!Never
  BY <1>0 DEF LoaderFresh, LoaderWaiting, L!NoSwap, L!Version, L!Core, L!Never, LoaderTyped
<1>2. runs' \in [L!Version -> 0 .. 2] /\ runs'[v] <= 1 /\ \A w \in L!Version : w # v
         => runs'[w] = runs[w]
  BY <1>0, <1>1 DEF L!Run, LoaderTyped
<1>3. /\ swap' \in [L!Version -> LoaderSwaps] /\ swap'[v].pc = "done"
      /\ swap'[v].old = swap[v].old
      /\ \A w \in L!Version : w # v => swap'[w] = swap[w]
  BY <1>0 DEF LoaderTyped, LoaderSwaps
<1>4. /\ modules' \in Seq(L!Version \cup {L!Core}) /\ Len(modules') = Len(modules)
      /\ DOMAIN modules' = DOMAIN modules
      /\ \A i \in DOMAIN modules : /\ modules[i] = swap[v].old => modules'[i] = v
                                   /\ modules[i] # swap[v].old => modules'[i] = modules[i]
  <2>1. DOMAIN modules = 1 .. Len(modules) /\ Len(modules) \in Nat
        /\ \A i \in DOMAIN modules : modules[i] \in L!Version \cup {L!Core}
    BY DEF LoaderTyped
  <2>2. modules' \in [1 .. Len(modules) -> L!Version \cup {L!Core}]
    BY <1>0, <2>1
  <2>3. modules' \in Seq(L!Version \cup {L!Core}) /\ Len(modules') = Len(modules)
    BY <2>1, <2>2
  <2> QED
    BY <1>0, <2>1, <2>3
<1>5. \A w : LoaderIn(w)' => LoaderIn(w) \/ w = v
  BY <1>4 DEF LoaderIn
<1>6. LoaderTyped'
  <2>1. meth' \in [Method -> L!Version \cup {L!Never}]
    BY <1>0 DEF L!Replaced, L!Registered, L!Nobody
  <2> QED
    BY <1>0, <1>2, <1>3, <1>4, <2>1 DEF LoaderTyped
<1>7. LoaderListed'
  <2>1. modules'[1] = L!Core
    BY <1>1, <1>4 DEF LoaderListed, L!Core, L!Version, LoaderTyped
  <2>2. ASSUME NEW i \in DOMAIN modules, NEW j \in DOMAIN modules, modules'[i] = modules'[j]
        PROVE  i = j
    BY <1>1, <1>4, <2>2 DEF LoaderListed, LoaderIn
  <2> QED
    BY <1>4, <2>1, <2>2 DEF LoaderListed
<1>8. LoaderTurn' /\ L!ServedWhole'
  BY <1>0, <1>4 DEF LoaderTurn, L!ServedWhole, L!Replaced, L!Registered, L!Nobody
<1>9. LoaderFresh'
  BY <1>0, <1>1, <1>2, <1>3, <1>5 DEF LoaderFresh, LoaderWaiting, L!NoSwap
<1>10. \A w \in L!Version : w # v /\ LoaderAhead(w)' => LoaderAhead(w)
  BY <1>0, <1>4 DEF LoaderAhead
<1>11. LoaderCounted'
  BY <1>2, <1>3, <1>10 DEF LoaderCounted, LoaderTyped
<1>12. ASSUME LoaderCalm'
       PROVE LoaderSingle' /\ LoaderOrderly' /\ LoaderUpward' /\ LoaderSteady'
               /\ LoaderDownward'
  <2>0. failures' = 0 /\ ~(failures' = failures + 1)
    BY <1>12 DEF LoaderCalm, LoaderTyped
  <2>1. LoaderCalm /\ phase = "up" /\ L!Unfinished = {v} /\ L!Run(v)
    BY <1>0, <1>12, <2>0 DEF LoaderCalm
  <2>2. L!Unfinished' = {}
    BY <1>3, <2>1 DEF L!Unfinished
  <2>3. PICK k \in DOMAIN modules : modules[k] = swap[v].old
    BY <2>1 DEF LoaderOrderly, LoaderIn
  <2>4. LoaderIn(v)'
    BY <1>4, <2>3 DEF LoaderIn
  <2>5. LoaderSingle' /\ LoaderOrderly'
    BY <1>0, <1>4, <2>1, <2>2, <2>4 DEF LoaderSingle, LoaderOrderly
  <2>6. LoaderUpward' /\ LoaderDownward'
    BY <1>0, <2>1 DEF LoaderUpward, LoaderDownward
  <2>7. \A w \in L!Version : LoaderStopped(w) <=> w = swap[v].old
    BY <1>0, <2>1 DEF LoaderStopped, L!Unfinished
  <2>8. \A w \in L!Version : ~LoaderStopped(w)'
    BY <2>2 DEF LoaderStopped, L!Unfinished
  <2>9. runs'[v] = 1
    BY <1>1, <2>1 DEF L!Run, LoaderTyped
  <2>10. \A w \in L!Version : w # v => (LoaderIn(w)' <=> LoaderIn(w) /\ w # swap[v].old)
    BY <1>4 DEF LoaderIn
  <2>11. LoaderSteady'
    BY <1>0, <1>2, <2>1, <2>4, <2>7, <2>8, <2>9, <2>10 DEF LoaderSteady
  <2> QED
    BY <2>5, <2>6, <2>11
<1> QED
  BY <1>6, <1>7, <1>8, <1>9, <1>11, <1>12

LEMMA LoaderRetireInv ==
  ASSUME LoaderSized, LoaderInv, NEW v \in L!Version, L!Retire(v)
  PROVE  LoaderInv'
<1> USE DEF LoaderInv
<1>0. /\ runs' = [runs EXCEPT ![v] = 0] /\ reg' = L!Never /\ meth' = L!Nobody
      /\ failures' = failures + 1 /\ failures' \in 0 .. MaxFaults
      /\ UNCHANGED <<phase, pos, modules, made, swap, away, overlap, late, early>>
  BY DEF L!Retire, L!Fault, L!ctxVars, L!ghostVars, LoaderTyped, LoaderSized
<1>1. runs' \in [L!Version -> 0 .. 2] /\ \A w \in L!Version : runs'[w] \in {0, runs[w]}
  BY <1>0 DEF LoaderTyped
<1>2. LoaderTyped' /\ LoaderListed' /\ LoaderTurn' /\ L!ServedWhole'
  BY <1>0, <1>1 DEF LoaderTyped, LoaderListed, LoaderTurn, L!ServedWhole, L!Nobody
<1>3. LoaderFresh' /\ LoaderCounted'
  BY <1>0, <1>1 DEF LoaderFresh, LoaderWaiting, LoaderIn, LoaderCounted, LoaderAhead
<1>4. ~LoaderCalm'
  BY <1>0 DEF LoaderCalm, LoaderTyped
<1> QED
  BY <1>2, <1>3, <1>4

LEMMA LoaderAwayInv ==
  ASSUME LoaderSized, LoaderInv,
         L!NotMade \/ L!CallAway \/ L!AnswerAway \/ UNCHANGED loaderVars
  PROVE  LoaderInv'
<1> USE DEF LoaderInv
<1>0. /\ away' \in {"idle", "waits", "answered", "cut"} /\ failures' \in 0 .. MaxFaults
      /\ failures' = 0 => failures = 0
      /\ UNCHANGED <<phase, pos, modules, reg, meth, runs, made, swap, overlap, late, early>>
  BY DEF L!NotMade, L!CallAway, L!AnswerAway, L!Cut, L!Fault, L!ctxVars, L!tableVars,
     L!ghostVars, loaderVars, LoaderTyped, LoaderSized
<1>1. LoaderTyped' /\ LoaderListed' /\ LoaderTurn' /\ L!ServedWhole' /\ LoaderFresh'
         /\ LoaderCounted'
  BY <1>0 DEF LoaderTyped, LoaderListed, LoaderTurn, L!ServedWhole, LoaderFresh,
     LoaderWaiting, LoaderIn, LoaderCounted, LoaderAhead
<1>2. LoaderCalm' => LoaderSingle' /\ LoaderOrderly' /\ LoaderUpward' /\ LoaderSteady'
         /\ LoaderDownward'
  BY <1>0 DEF LoaderCalm, LoaderSingle, LoaderOrderly, LoaderUpward, LoaderSteady,
     LoaderDownward, L!Unfinished, LoaderIn, LoaderStopped
<1> QED
  BY <1>1, <1>2

LEMMA LoaderNextInv == ASSUME LoaderSized, LoaderInv, [L!Next]_loaderVars PROVE LoaderInv'
  BY LoaderStartupInv, LoaderStartNextInv, LoaderShutdownInv, LoaderStopNextInv,
     LoaderChangeInv, LoaderSwapStopsInv,
     LoaderSwapStartsInv, LoaderRetireInv, LoaderAwayInv DEF L!Next

LEMMA LoaderSound == ASSUME LoaderSized, LoaderInv PROVE L!TypeOK /\ L!LoaderSound
<1> USE DEF LoaderInv
<1>1. L!TypeOK
  BY DEF L!TypeOK, LoaderTyped, LoaderSwaps, LoaderSized
<1>2. L!RunsAlone
  <2> SUFFICES ASSUME L!Rest, ~overlap, ~late, ~early
               PROVE  L!Running = {reg} \ {L!Never} /\ L!ToSet(modules) = {L!Core, reg}
    BY DEF L!RunsAlone
  <2>1. LoaderCalm /\ phase = "up" /\ L!Unfinished = {}
    BY DEF L!Rest, LoaderCalm
  <2>2. \A v \in L!Version : runs[v] = 1 <=> LoaderIn(v)
    BY <2>1 DEF LoaderSteady, LoaderStopped, L!Unfinished
  <2>3. \A v : LoaderIn(v) <=> v \in {L!Core, reg}
    BY <2>1 DEF LoaderOrderly, LoaderIn, LoaderListed, LoaderTyped, L!Core, L!Never
  <2>4. L!Running = {reg} \ {L!Never}
    BY <2>1, <2>2, <2>3 DEF L!Running, LoaderSteady, LoaderTyped, L!Core, L!Never, L!Version
  <2> QED
    BY <2>3, <2>4 DEF L!ToSet, LoaderIn
<1>3. L!AllStopped
  BY DEF L!AllStopped, LoaderDownward, LoaderCalm, L!Running
<1> QED
  BY <1>1, <1>2, <1>3 DEF L!LoaderSound

-----------------------------------------------------------------------------
(* The node.                                                                *)

NodeInv == /\ which \in Parts
           /\ UpdateInv /\ ConfigInv /\ TransferInv /\ CertsInv
           /\ PanelInv /\ MachineInv /\ LoaderInv

LEMMA NodeInitInv == Init => NodeInv
  BY Sizes, UpdateInitInv, ConfigInitInv, TransferInitInv, CertsInitInv, PanelInitInv,
     MachineInitInv, LoaderInitInv
  DEF Init, NodeInv

\* What runs makes a step of its own, and the others make none.
LEMMA NodeSteps ==
  ASSUME [Next]_vars
  PROVE  /\ which' = which
         /\ [U!Next]_updateVars /\ [C!Next]_configVars /\ [T!Next]_streamVars
         /\ [S!Next]_certVars /\ [P!Next]_panelVars /\ [M!Next]_machineVars
         /\ [L!Next]_loaderVars
<1>1. CASE Updates
  BY <1>1 DEF Updates
<1>2. CASE Edits
  BY <1>2 DEF Edits
<1>3. CASE Downloads
  BY <1>3 DEF Downloads
<1>4. CASE Certifying
  BY <1>4 DEF Certifying
<1>5. CASE Looking
  BY <1>5 DEF Looking
<1>6. CASE Keeping
  BY <1>6 DEF Keeping
<1>7. CASE Loading
  BY <1>7 DEF Loading
<1>8. CASE UNCHANGED vars
  BY <1>8 DEF vars
<1> QED
  BY <1>1, <1>2, <1>3, <1>4, <1>5, <1>6, <1>7, <1>8 DEF Next

LEMMA NodeNextInv == NodeInv /\ [Next]_vars => NodeInv'
<1> SUFFICES ASSUME NodeInv, [Next]_vars PROVE NodeInv'
  OBVIOUS
<1>1. UpdateInv' /\ ConfigInv' /\ TransferInv' /\ CertsInv'
  BY Sizes, NodeSteps, UpdateNextInv, ConfigNextInv, TransferNextInv, CertsNextInv DEF NodeInv
<1>2. PanelInv' /\ MachineInv' /\ LoaderInv'
  BY Sizes, NodeSteps, PanelNextInv, MachineNextInv, LoaderNextInv DEF NodeInv
<1> QED
  BY <1>1, <1>2, NodeSteps DEF NodeInv

LEMMA NodeInvSafe == NodeInv => TypesOK /\ ProgramsSafe /\ ConfigSound /\ HeldAsTold
<1> SUFFICES ASSUME NodeInv PROVE TypesOK /\ ProgramsSafe /\ ConfigSound /\ HeldAsTold
  OBVIOUS
<1>1. U!TypeOK /\ U!RollbackReady /\ U!NotUnderfoot
  BY UpdateSound DEF NodeInv
<1>2. C!TypeOK /\ C!FileRecoverable /\ C!SavedIsLive
  BY Sizes, ConfigKept DEF NodeInv
<1>3. T!TypeOK /\ T!FileIsWhole
  BY TransferSound DEF NodeInv
<1>4. S!TypeOK /\ S!OffersHeld /\ S!InstalledIsThere
  BY CertsSound DEF NodeInv
<1>5. P!TypeOK /\ P!OneHeard /\ P!NothingLeft /\ P!PanelIsOwn
  BY PanelSound DEF NodeInv
<1>6. M!TypeOK /\ M!ConfigAgrees /\ M!StaysRemoved
  BY MachineSound DEF NodeInv
<1>7. L!TypeOK /\ L!LoaderSound
  BY Sizes, LoaderSound DEF NodeInv
<1> QED
  BY <1>1, <1>2, <1>3, <1>4, <1>5, <1>6, <1>7 DEF TypesOK, ProgramsSafe, ConfigSound, HeldAsTold

\* The variables of every part keep their types, with any number of versions,
\* edits, downloads, chunks, certificates, tabs and reloads: no pipe of a download
\* takes more than it holds (memory.py), no more backups of config.yaml are kept
\* than MAX_BACKUPS (config/service.py), no list of services names what was never
\* made (loader.py).
THEOREM TypesHold == Spec => []TypesOK
<1>1. NodeInv => TypesOK
  BY NodeInvSafe
<1> QED
  BY <1>1, NodeInitInv, NodeNextInv, PTL DEF Spec

\* Wherever power fails in an update or a rollback, the helper is a program that
\* runs, an unconfirmed version has another one to go back to, and no helper
\* replaces the image of a node at work (updater.py, update.py); however tabs, calls
\* and nodes come and go, one client of the panel is heard and the panel is the
\* node's own (webpanel/service.py); of a service loaded anew any number of times the
\* instance that answers runs alone and is stopped, when each swap had the node to
\* itself (loader.py).
THEOREM WhatRunsIsRight == Spec => []ProgramsSafe
<1>1. NodeInv => ProgramsSafe
  BY NodeInvSafe
<1> QED
  BY <1>1, NodeInitInv, NodeNextInv, PTL DEF Spec

\* However saves and restores of config.yaml, failures and restarts interleave, no
\* text that does not validate reaches the file or the node; what a call that
\* nothing overlapped replaces is the newest backup, and what it saved is what the
\* node uses (config/service.py); peers and name in memory are those of the file
\* until somebody edits or purges it (config.py), and a program that was purged
\* does not come back (purge/service.py).
THEOREM ConfigStaysSound == Spec => []ConfigSound
<1>1. NodeInv => ConfigSound
  BY NodeInvSafe
<1> QED
  BY <1>1, NodeInitInv, NodeNextInv, PTL DEF Spec

\* A file of any number of chunks that is under its name is whole, although links
\* break and a download is taken up again in the middle (files/service.py); a
\* certificate that a node offers it held once, and one reported as installed is
\* there until somebody takes it away (certs_index.py, certstool/service.py); of a
\* call that returned no label is left and no answer it took (rpc_client.py).
THEOREM WhatIsToldIsThere == Spec => []HeldAsTold
<1>1. NodeInv => HeldAsTold
  BY NodeInvSafe
<1> QED
  BY <1>1, NodeInitInv, NodeNextInv, PTL DEF Spec

=============================================================================
