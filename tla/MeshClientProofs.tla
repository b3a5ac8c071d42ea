-------------------------- MODULE MeshClientProofs --------------------------
(* MeshClient keeps its types, its table of pending calls holds calls that  *)
(* are under way, and it implements MeshCall, for any finite set of calls   *)
(* and any sockets.                                                         *)
EXTENDS MeshClient, FiniteSetTheorems, TLAPS

\* Callers whose request cannot have reached the server yet.
Unsent == {"idle", "refused", "checked", "registered", "sending"}

\* An answer belongs to a request that was sent; what is on the wire or being
\* handled is an answer, and a request in the server's hands has none yet.
AnswersOK ==
    /\ \A c \in Call : pc[c] \in Unsent => answer[c] = "none"
    /\ \A c \in asked : pc[c] \notin Unsent /\ answer[c] = "none"
    /\ \A c \in wire : answer[c] # "none"
    /\ rpc = "got" => frame \in Call /\ answer[frame] # "none"

\* A result in a dict is an answer of the server, and a caller that was woken
\* finds its dict filled.
BoxesOK ==
    /\ \A c \in Call : "result" \in box[c] => answer[c] = "response"
    /\ \A c \in Call : ev[c] => box[c] # {}
    /\ \A c \in Call : pc[c] = "woken" => ev[c]

\* A call has an outcome exactly when it is over.
OutcomesOK == \A c \in Call : (outcome[c] = "none") <=> (pc[c] \notin {"refused", "ended"})

IInv == TypeOK /\ PendingOwned /\ AnswersOK /\ BoxesOK /\ OutcomesOK

LEMMA InitInv == Init => IInv
  <1> SUFFICES ASSUME Init PROVE IInv
    OBVIOUS
  <1>1. TypeOK
    <2>1. walk \in [size : Nat, seen : SUBSET Call]
      BY DEF Init, NoWalk
    <2>2. pc \in [Call -> CallerPc] /\ rpc \in ReceiverPc
      BY DEF Init, CallerPc, ReceiverPc
    <2>3. QED
      BY <2>1, <2>2 DEF Init, TypeOK, NoFrame
  <1>2. PendingOwned /\ BoxesOK /\ OutcomesOK
    BY DEF Init, PendingOwned, BoxesOK, OutcomesOK
  <1>3. AnswersOK
    BY DEF Init, AnswersOK, Unsent
  <1>4. QED
    BY <1>1, <1>2, <1>3 DEF IInv

\* Callers.
LEMMA CallerKeeps ==
    ASSUME IInv, NEW c \in Call, CallerStep(c)
    PROVE  IInv'
  <1> USE ThreadAssumption, NullAssumption DEF callerVars, tableVars, linkVars, netVars, stopVars
  <1>1. CASE Check(c)
    <2>1. TypeOK'
      BY <1>1 DEF IInv, AnswersOK, TypeOK, CallerPc, ReceiverPc, NoFrame, NoWalk, Free, Check
    <2>2. PendingOwned' /\ OutcomesOK'
      BY <1>1 DEF IInv, TypeOK, PendingOwned, OutcomesOK, Check
    <2>3. AnswersOK'
      BY <1>1 DEF IInv, TypeOK, AnswersOK, Unsent, Check
    <2>4. BoxesOK'
      BY <1>1 DEF IInv, TypeOK, AnswersOK, BoxesOK, Unsent, Check
    <2>5. QED
      BY <2>1, <2>2, <2>3, <2>4 DEF IInv
  <1>2. CASE Register(c)
    <2>1. TypeOK'
      BY <1>2 DEF IInv, AnswersOK, TypeOK, CallerPc, ReceiverPc, NoFrame, NoWalk, Free, Register
    <2>2. PendingOwned' /\ OutcomesOK'
      BY <1>2 DEF IInv, TypeOK, PendingOwned, OutcomesOK, Register
    <2>3. AnswersOK'
      BY <1>2 DEF IInv, TypeOK, AnswersOK, Unsent, Register
    <2>4. BoxesOK'
      BY <1>2 DEF IInv, TypeOK, AnswersOK, BoxesOK, Unsent, Register
    <2>5. QED
      BY <2>1, <2>2, <2>3, <2>4 DEF IInv
  <1>3. CASE Acquire(c)
    <2>1. TypeOK'
      BY <1>3 DEF IInv, AnswersOK, TypeOK, CallerPc, ReceiverPc, NoFrame, NoWalk, Free, Acquire
    <2>2. PendingOwned' /\ OutcomesOK'
      BY <1>3 DEF IInv, TypeOK, PendingOwned, OutcomesOK, Acquire
    <2>3. AnswersOK'
      BY <1>3 DEF IInv, TypeOK, AnswersOK, Unsent, Acquire
    <2>4. BoxesOK'
      BY <1>3 DEF IInv, TypeOK, AnswersOK, BoxesOK, Unsent, Acquire
    <2>5. QED
      BY <2>1, <2>2, <2>3, <2>4 DEF IInv
  <1>4. CASE Send(c)
    <2>1. TypeOK'
      BY <1>4 DEF IInv, AnswersOK, TypeOK, CallerPc, ReceiverPc, NoFrame, NoWalk, Free, Send
    <2>2. PendingOwned' /\ OutcomesOK'
      BY <1>4 DEF IInv, TypeOK, PendingOwned, OutcomesOK, Send
    <2>3. AnswersOK'
      BY <1>4 DEF IInv, TypeOK, AnswersOK, Unsent, Send
    <2>4. BoxesOK'
      BY <1>4 DEF IInv, TypeOK, AnswersOK, BoxesOK, Unsent, Send
    <2>5. QED
      BY <2>1, <2>2, <2>3, <2>4 DEF IInv
  <1>5. CASE SendFails(c)
    <2>1. TypeOK'
      BY <1>5 DEF IInv, AnswersOK, TypeOK, CallerPc, ReceiverPc, NoFrame, NoWalk, Free, SendFails
    <2>2. PendingOwned' /\ OutcomesOK'
      BY <1>5 DEF IInv, TypeOK, PendingOwned, OutcomesOK, SendFails
    <2>3. AnswersOK'
      BY <1>5 DEF IInv, TypeOK, AnswersOK, Unsent, SendFails
    <2>4. BoxesOK'
      BY <1>5 DEF IInv, TypeOK, AnswersOK, BoxesOK, Unsent, SendFails
    <2>5. QED
      BY <2>1, <2>2, <2>3, <2>4 DEF IInv
  <1>6. CASE Withdraw(c)
    <2>1. TypeOK'
      BY <1>6 DEF IInv, AnswersOK, TypeOK, CallerPc, ReceiverPc, NoFrame, NoWalk, Free, Withdraw
    <2>2. PendingOwned' /\ OutcomesOK'
      BY <1>6 DEF IInv, TypeOK, PendingOwned, OutcomesOK, Withdraw
    <2>3. AnswersOK'
      BY <1>6 DEF IInv, TypeOK, AnswersOK, Unsent, Withdraw
    <2>4. BoxesOK'
      BY <1>6 DEF IInv, TypeOK, AnswersOK, BoxesOK, Unsent, Withdraw
    <2>5. QED
      BY <2>1, <2>2, <2>3, <2>4 DEF IInv
  <1>7. CASE DropConn(c)
    <2>1. TypeOK'
      BY <1>7 DEF IInv, AnswersOK, TypeOK, CallerPc, ReceiverPc, NoFrame, NoWalk, Free, DropConn, CloseSock
    <2>2. PendingOwned' /\ OutcomesOK'
      BY <1>7 DEF IInv, TypeOK, PendingOwned, OutcomesOK, DropConn, CloseSock
    <2>3. AnswersOK'
      BY <1>7 DEF IInv, TypeOK, AnswersOK, Unsent, DropConn, CloseSock
    <2>4. BoxesOK'
      BY <1>7 DEF IInv, TypeOK, AnswersOK, BoxesOK, Unsent, DropConn, CloseSock
    <2>5. QED
      BY <2>1, <2>2, <2>3, <2>4 DEF IInv
  <1>8. CASE Wake(c)
    <2>1. TypeOK'
      BY <1>8 DEF IInv, AnswersOK, TypeOK, CallerPc, ReceiverPc, NoFrame, NoWalk, Free, Wake
    <2>2. PendingOwned' /\ OutcomesOK'
      BY <1>8 DEF IInv, TypeOK, PendingOwned, OutcomesOK, Wake
    <2>3. AnswersOK'
      BY <1>8 DEF IInv, TypeOK, AnswersOK, Unsent, Wake
    <2>4. BoxesOK'
      BY <1>8 DEF IInv, TypeOK, AnswersOK, BoxesOK, Unsent, Wake
    <2>5. QED
      BY <2>1, <2>2, <2>3, <2>4 DEF IInv
  <1>9. CASE Expire(c)
    <2>1. TypeOK'
      BY <1>9 DEF IInv, AnswersOK, TypeOK, CallerPc, ReceiverPc, NoFrame, NoWalk, Free, Expire
    <2>2. PendingOwned' /\ OutcomesOK'
      BY <1>9 DEF IInv, TypeOK, PendingOwned, OutcomesOK, Expire
    <2>3. AnswersOK'
      BY <1>9 DEF IInv, TypeOK, AnswersOK, Unsent, Expire
    <2>4. BoxesOK'
      BY <1>9 DEF IInv, TypeOK, AnswersOK, BoxesOK, Unsent, Expire
    <2>5. QED
      BY <2>1, <2>2, <2>3, <2>4 DEF IInv
  <1>10. CASE Forget(c)
    <2>1. TypeOK'
      BY <1>10 DEF IInv, AnswersOK, TypeOK, CallerPc, ReceiverPc, NoFrame, NoWalk, Free, Forget
    <2>2. PendingOwned' /\ OutcomesOK'
      BY <1>10 DEF IInv, TypeOK, PendingOwned, OutcomesOK, Forget
    <2>3. AnswersOK'
      BY <1>10 DEF IInv, TypeOK, AnswersOK, Unsent, Forget
    <2>4. BoxesOK'
      BY <1>10 DEF IInv, TypeOK, AnswersOK, BoxesOK, Unsent, Forget
    <2>5. QED
      BY <2>1, <2>2, <2>3, <2>4 DEF IInv
  <1>11. CASE Take(c)
    <2>1. TypeOK'
      BY <1>11 DEF IInv, AnswersOK, TypeOK, CallerPc, ReceiverPc, NoFrame, NoWalk, Free, Take, Returned
    <2>2. PendingOwned' /\ OutcomesOK'
      BY <1>11 DEF IInv, TypeOK, PendingOwned, OutcomesOK, Take, Returned
    <2>3. AnswersOK'
      BY <1>11 DEF IInv, TypeOK, AnswersOK, Unsent, Take, Returned
    <2>4. BoxesOK'
      BY <1>11 DEF IInv, TypeOK, AnswersOK, BoxesOK, Unsent, Take, Returned
    <2>5. QED
      BY <2>1, <2>2, <2>3, <2>4 DEF IInv
  <1>12. QED
    BY <1>1, <1>2, <1>3, <1>4, <1>5, <1>6, <1>7, <1>8, <1>9, <1>10, <1>11 DEF CallerStep

\* The receiver.
LEMMA ReceiverKeeps ==
    ASSUME IInv, ReceiverStep
    PROVE  IInv'
  <1> USE ThreadAssumption, NullAssumption DEF callerVars, tableVars, linkVars, netVars, stopVars
  <1>1. CASE Run
    <2>1. TypeOK'
      BY <1>1 DEF IInv, AnswersOK, TypeOK, CallerPc, ReceiverPc, NoFrame, NoWalk, Free, Run
    <2>2. PendingOwned' /\ OutcomesOK'
      BY <1>1 DEF IInv, TypeOK, PendingOwned, OutcomesOK, Run
    <2>3. AnswersOK'
      BY <1>1 DEF IInv, TypeOK, AnswersOK, Unsent, Run
    <2>4. BoxesOK'
      BY <1>1 DEF IInv, TypeOK, AnswersOK, BoxesOK, Unsent, Run
    <2>5. QED
      BY <2>1, <2>2, <2>3, <2>4 DEF IInv
  <1>2. CASE DialSucceeds
    <2>1. TypeOK'
      BY <1>2 DEF IInv, AnswersOK, TypeOK, CallerPc, ReceiverPc, NoFrame, NoWalk, Free, DialSucceeds, FreeSock
    <2>2. PendingOwned' /\ OutcomesOK'
      BY <1>2 DEF IInv, TypeOK, PendingOwned, OutcomesOK, DialSucceeds, FreeSock
    <2>3. AnswersOK'
      BY <1>2 DEF IInv, TypeOK, AnswersOK, Unsent, DialSucceeds, FreeSock
    <2>4. BoxesOK'
      BY <1>2 DEF IInv, TypeOK, AnswersOK, BoxesOK, Unsent, DialSucceeds, FreeSock
    <2>5. QED
      BY <2>1, <2>2, <2>3, <2>4 DEF IInv
  <1>3. CASE DialFails
    <2>1. TypeOK'
      BY <1>3 DEF IInv, AnswersOK, TypeOK, CallerPc, ReceiverPc, NoFrame, NoWalk, Free, DialFails
    <2>2. PendingOwned' /\ OutcomesOK'
      BY <1>3 DEF IInv, TypeOK, PendingOwned, OutcomesOK, DialFails
    <2>3. AnswersOK'
      BY <1>3 DEF IInv, TypeOK, AnswersOK, Unsent, DialFails
    <2>4. BoxesOK'
      BY <1>3 DEF IInv, TypeOK, AnswersOK, BoxesOK, Unsent, DialFails
    <2>5. QED
      BY <2>1, <2>2, <2>3, <2>4 DEF IInv
  <1>4. CASE Recv
    <2>1. TypeOK'
      BY <1>4 DEF IInv, AnswersOK, TypeOK, CallerPc, ReceiverPc, NoFrame, NoWalk, Free, Recv
    <2>2. PendingOwned' /\ OutcomesOK'
      BY <1>4 DEF IInv, TypeOK, PendingOwned, OutcomesOK, Recv
    <2>3. AnswersOK'
      BY <1>4 DEF IInv, TypeOK, AnswersOK, Unsent, Recv
    <2>4. BoxesOK'
      BY <1>4 DEF IInv, TypeOK, AnswersOK, BoxesOK, Unsent, Recv
    <2>5. QED
      BY <2>1, <2>2, <2>3, <2>4 DEF IInv
  <1>5. CASE ReadAnswer
    <2>1. TypeOK'
      BY <1>5 DEF IInv, AnswersOK, TypeOK, CallerPc, ReceiverPc, NoFrame, NoWalk, Free, ReadAnswer
    <2>2. PendingOwned' /\ OutcomesOK'
      BY <1>5 DEF IInv, TypeOK, PendingOwned, OutcomesOK, ReadAnswer
    <2>3. AnswersOK'
      BY <1>5 DEF IInv, TypeOK, AnswersOK, Unsent, ReadAnswer
    <2>4. BoxesOK'
      BY <1>5 DEF IInv, TypeOK, AnswersOK, BoxesOK, Unsent, ReadAnswer
    <2>5. QED
      BY <2>1, <2>2, <2>3, <2>4 DEF IInv
  <1>6. CASE ReadTimeout
    <2>1. TypeOK'
      BY <1>6 DEF IInv, AnswersOK, TypeOK, CallerPc, ReceiverPc, NoFrame, NoWalk, Free, ReadTimeout
    <2>2. PendingOwned' /\ OutcomesOK'
      BY <1>6 DEF IInv, TypeOK, PendingOwned, OutcomesOK, ReadTimeout
    <2>3. AnswersOK'
      BY <1>6 DEF IInv, TypeOK, AnswersOK, Unsent, ReadTimeout
    <2>4. BoxesOK'
      BY <1>6 DEF IInv, TypeOK, AnswersOK, BoxesOK, Unsent, ReadTimeout
    <2>5. QED
      BY <2>1, <2>2, <2>3, <2>4 DEF IInv
  <1>7. CASE ReadPartly
    <2>1. TypeOK'
      BY <1>7 DEF IInv, AnswersOK, TypeOK, CallerPc, ReceiverPc, NoFrame, NoWalk, Free, ReadPartly
    <2>2. PendingOwned' /\ OutcomesOK'
      BY <1>7 DEF IInv, TypeOK, PendingOwned, OutcomesOK, ReadPartly
    <2>3. AnswersOK'
      BY <1>7 DEF IInv, TypeOK, AnswersOK, Unsent, ReadPartly
    <2>4. BoxesOK'
      BY <1>7 DEF IInv, TypeOK, AnswersOK, BoxesOK, Unsent, ReadPartly
    <2>5. QED
      BY <2>1, <2>2, <2>3, <2>4 DEF IInv
  <1>8. CASE ReadFails
    <2>1. TypeOK'
      BY <1>8 DEF IInv, AnswersOK, TypeOK, CallerPc, ReceiverPc, NoFrame, NoWalk, Free, ReadFails
    <2>2. PendingOwned' /\ OutcomesOK'
      BY <1>8 DEF IInv, TypeOK, PendingOwned, OutcomesOK, ReadFails
    <2>3. AnswersOK'
      BY <1>8 DEF IInv, TypeOK, AnswersOK, Unsent, ReadFails
    <2>4. BoxesOK'
      BY <1>8 DEF IInv, TypeOK, AnswersOK, BoxesOK, Unsent, ReadFails
    <2>5. QED
      BY <2>1, <2>2, <2>3, <2>4 DEF IInv
  <1>9. CASE Resolve
    <2>1. TypeOK'
      <3>1. box' \in [Call -> SUBSET {"result", "error"}]
        <4>1. BoxKey(answer[frame]) \in {"result", "error"}
          BY DEF BoxKey
        <4>2. QED
          BY <1>9, <4>1 DEF Resolve, IInv, TypeOK
      <3>2. ev' \in [Call -> BOOLEAN]
        BY <1>9 DEF Resolve, IInv, TypeOK
      <3>3. QED
        BY <1>9, <3>1, <3>2 DEF IInv, TypeOK, ReceiverPc, NoFrame, Resolve
    <2>2. PendingOwned' /\ OutcomesOK'
      BY <1>9 DEF IInv, TypeOK, PendingOwned, OutcomesOK, Resolve, BoxKey
    <2>3. AnswersOK'
      BY <1>9 DEF IInv, TypeOK, AnswersOK, Unsent, Resolve, BoxKey
    <2>4. BoxesOK'
      BY <1>9 DEF IInv, TypeOK, AnswersOK, BoxesOK, Unsent, Resolve, BoxKey
    <2>5. QED
      BY <2>1, <2>2, <2>3, <2>4 DEF IInv
  <1>10. CASE Closing
    <2>1. TypeOK'
      BY <1>10 DEF IInv, AnswersOK, TypeOK, CallerPc, ReceiverPc, NoFrame, NoWalk, Free, Closing
    <2>2. PendingOwned' /\ OutcomesOK'
      BY <1>10 DEF IInv, TypeOK, PendingOwned, OutcomesOK, Closing
    <2>3. AnswersOK'
      BY <1>10 DEF IInv, TypeOK, AnswersOK, Unsent, Closing
    <2>4. BoxesOK'
      BY <1>10 DEF IInv, TypeOK, AnswersOK, BoxesOK, Unsent, Closing
    <2>5. QED
      BY <2>1, <2>2, <2>3, <2>4 DEF IInv
  <1>11. CASE Clearing
    <2>1. TypeOK'
      BY <1>11 DEF IInv, AnswersOK, TypeOK, CallerPc, ReceiverPc, NoFrame, NoWalk, Free, Clearing
    <2>2. PendingOwned' /\ OutcomesOK'
      BY <1>11 DEF IInv, TypeOK, PendingOwned, OutcomesOK, Clearing
    <2>3. AnswersOK'
      BY <1>11 DEF IInv, TypeOK, AnswersOK, Unsent, Clearing
    <2>4. BoxesOK'
      BY <1>11 DEF IInv, TypeOK, AnswersOK, BoxesOK, Unsent, Clearing
    <2>5. QED
      BY <2>1, <2>2, <2>3, <2>4 DEF IInv
  <1>12. CASE ResolveAll
    <2>1. TypeOK'
      <3>1. Cardinality(pending) \in Nat
        BY CallAssumption, FS_Subset, FS_CardinalityType DEF IInv, TypeOK
      <3>2. walk' \in [size : Nat, seen : SUBSET Call]
        BY <1>12, <3>1 DEF ResolveAll
      <3>3. QED
        BY <1>12, <3>2 DEF IInv, TypeOK, ReceiverPc, ResolveAll
    <2>2. PendingOwned' /\ OutcomesOK'
      BY <1>12 DEF IInv, TypeOK, PendingOwned, OutcomesOK, ResolveAll
    <2>3. AnswersOK'
      BY <1>12 DEF IInv, TypeOK, AnswersOK, Unsent, ResolveAll
    <2>4. BoxesOK'
      BY <1>12 DEF IInv, TypeOK, AnswersOK, BoxesOK, Unsent, ResolveAll
    <2>5. QED
      BY <2>1, <2>2, <2>3, <2>4 DEF IInv
  <1>13. CASE WalkOn
    <2>1. TypeOK'
      BY <1>13 DEF IInv, AnswersOK, TypeOK, CallerPc, ReceiverPc, NoFrame, NoWalk, Free, WalkOn
    <2>2. PendingOwned' /\ OutcomesOK'
      BY <1>13 DEF IInv, TypeOK, PendingOwned, OutcomesOK, WalkOn
    <2>3. AnswersOK'
      BY <1>13 DEF IInv, TypeOK, AnswersOK, Unsent, WalkOn
    <2>4. BoxesOK'
      BY <1>13 DEF IInv, TypeOK, AnswersOK, BoxesOK, Unsent, WalkOn
    <2>5. QED
      BY <2>1, <2>2, <2>3, <2>4 DEF IInv
  <1>14. CASE WalkBreaks
    <2>1. TypeOK'
      BY <1>14 DEF IInv, AnswersOK, TypeOK, CallerPc, ReceiverPc, NoFrame, NoWalk, Free, WalkBreaks
    <2>2. PendingOwned' /\ OutcomesOK'
      BY <1>14 DEF IInv, TypeOK, PendingOwned, OutcomesOK, WalkBreaks
    <2>3. AnswersOK'
      BY <1>14 DEF IInv, TypeOK, AnswersOK, Unsent, WalkBreaks
    <2>4. BoxesOK'
      BY <1>14 DEF IInv, TypeOK, AnswersOK, BoxesOK, Unsent, WalkBreaks
    <2>5. QED
      BY <2>1, <2>2, <2>3, <2>4 DEF IInv
  <1>15. CASE WalkEnds
    <2>1. TypeOK'
      BY <1>15 DEF IInv, AnswersOK, TypeOK, CallerPc, ReceiverPc, NoFrame, NoWalk, Free, WalkEnds
    <2>2. PendingOwned' /\ OutcomesOK'
      BY <1>15 DEF IInv, TypeOK, PendingOwned, OutcomesOK, WalkEnds
    <2>3. AnswersOK'
      BY <1>15 DEF IInv, TypeOK, AnswersOK, Unsent, WalkEnds
    <2>4. BoxesOK'
      BY <1>15 DEF IInv, TypeOK, AnswersOK, BoxesOK, Unsent, WalkEnds
    <2>5. QED
      BY <2>1, <2>2, <2>3, <2>4 DEF IInv
  <1>16. CASE Empty
    <2>1. TypeOK'
      BY <1>16 DEF IInv, AnswersOK, TypeOK, CallerPc, ReceiverPc, NoFrame, NoWalk, Free, Empty
    <2>2. PendingOwned' /\ OutcomesOK'
      BY <1>16 DEF IInv, TypeOK, PendingOwned, OutcomesOK, Empty
    <2>3. AnswersOK'
      BY <1>16 DEF IInv, TypeOK, AnswersOK, Unsent, Empty
    <2>4. BoxesOK'
      BY <1>16 DEF IInv, TypeOK, AnswersOK, BoxesOK, Unsent, Empty
    <2>5. QED
      BY <2>1, <2>2, <2>3, <2>4 DEF IInv
  <1>17. CASE Pause
    <2>1. TypeOK'
      BY <1>17 DEF IInv, AnswersOK, TypeOK, CallerPc, ReceiverPc, NoFrame, NoWalk, Free, Pause
    <2>2. PendingOwned' /\ OutcomesOK'
      BY <1>17 DEF IInv, TypeOK, PendingOwned, OutcomesOK, Pause
    <2>3. AnswersOK'
      BY <1>17 DEF IInv, TypeOK, AnswersOK, Unsent, Pause
    <2>4. BoxesOK'
      BY <1>17 DEF IInv, TypeOK, AnswersOK, BoxesOK, Unsent, Pause
    <2>5. QED
      BY <2>1, <2>2, <2>3, <2>4 DEF IInv
  <1>18. QED
    BY <1>1, <1>2, <1>3, <1>4, <1>5, <1>6, <1>7, <1>8, <1>9, <1>10, <1>11, <1>12, <1>13, <1>14, <1>15, <1>16, <1>17 DEF ReceiverStep

\* Stopping, and the network.
LEMMA RestKeeps ==
    ASSUME IInv, Stop \/ StopCloses \/ Lose
    PROVE  IInv'
  <1> USE ThreadAssumption, NullAssumption DEF callerVars, tableVars, linkVars, netVars, stopVars
  <1>1. CASE Stop
    <2>1. TypeOK'
      BY <1>1 DEF IInv, AnswersOK, TypeOK, CallerPc, ReceiverPc, NoFrame, NoWalk, Free, Stop
    <2>2. PendingOwned' /\ OutcomesOK'
      BY <1>1 DEF IInv, TypeOK, PendingOwned, OutcomesOK, Stop
    <2>3. AnswersOK'
      BY <1>1 DEF IInv, TypeOK, AnswersOK, Unsent, Stop
    <2>4. BoxesOK'
      BY <1>1 DEF IInv, TypeOK, AnswersOK, BoxesOK, Unsent, Stop
    <2>5. QED
      BY <2>1, <2>2, <2>3, <2>4 DEF IInv
  <1>2. CASE StopCloses
    <2>1. TypeOK'
      BY <1>2 DEF IInv, AnswersOK, TypeOK, CallerPc, ReceiverPc, NoFrame, NoWalk, Free, StopCloses, CloseSock
    <2>2. PendingOwned' /\ OutcomesOK'
      BY <1>2 DEF IInv, TypeOK, PendingOwned, OutcomesOK, StopCloses, CloseSock
    <2>3. AnswersOK'
      BY <1>2 DEF IInv, TypeOK, AnswersOK, Unsent, StopCloses, CloseSock
    <2>4. BoxesOK'
      BY <1>2 DEF IInv, TypeOK, AnswersOK, BoxesOK, Unsent, StopCloses, CloseSock
    <2>5. QED
      BY <2>1, <2>2, <2>3, <2>4 DEF IInv
  <1>3. CASE Lose
    <2>1. TypeOK'
      BY <1>3 DEF IInv, AnswersOK, TypeOK, CallerPc, ReceiverPc, NoFrame, NoWalk, Free, Lose
    <2>2. PendingOwned' /\ OutcomesOK'
      BY <1>3 DEF IInv, TypeOK, PendingOwned, OutcomesOK, Lose
    <2>3. AnswersOK'
      BY <1>3 DEF IInv, TypeOK, AnswersOK, Unsent, Lose
    <2>4. BoxesOK'
      BY <1>3 DEF IInv, TypeOK, AnswersOK, BoxesOK, Unsent, Lose
    <2>5. QED
      BY <2>1, <2>2, <2>3, <2>4 DEF IInv
  <1>4. QED
    BY <1>1, <1>2, <1>3 DEF IInv

LEMMA ServeKeeps ==
    ASSUME IInv, NEW c \in Call, NEW a \in {"response", "error"}, Serve(c, a)
    PROVE  IInv'
  <1> USE DEF callerVars, tableVars, linkVars, stopVars
  <1>1. TypeOK'
    BY DEF IInv, TypeOK, Serve
  <1>2. PendingOwned' /\ OutcomesOK'
    BY DEF IInv, TypeOK, PendingOwned, OutcomesOK, Serve
  <1>3. AnswersOK'
    BY DEF IInv, TypeOK, AnswersOK, Serve
  <1>4. BoxesOK'
    BY DEF IInv, TypeOK, AnswersOK, BoxesOK, Serve
  <1>5. QED
    BY <1>1, <1>2, <1>3, <1>4 DEF IInv

LEMMA StutterKeeps ==
    ASSUME IInv, UNCHANGED vars
    PROVE  IInv'
  BY DEF IInv, TypeOK, PendingOwned, AnswersOK, BoxesOK, OutcomesOK, vars, callerVars,
         tableVars, linkVars, netVars, stopVars

\* The invariant is preserved by every step.
THEOREM Inductive == Spec => []IInv
  <1>1. IInv /\ [Next]_vars => IInv'
    <2> SUFFICES ASSUME IInv, [Next]_vars PROVE IInv'
      OBVIOUS
    <2>1. ASSUME NEW c \in Call, CallerStep(c) PROVE IInv'
      BY <2>1, CallerKeeps
    <2>2. ASSUME NEW c \in Call, NEW a \in {"response", "error"}, Serve(c, a) PROVE IInv'
      BY <2>2, ServeKeeps
    <2>3. CASE ReceiverStep
      BY <2>3, ReceiverKeeps
    <2>4. CASE Stop \/ StopCloses \/ Lose
      BY <2>4, RestKeeps
    <2>5. CASE UNCHANGED vars
      BY <2>5, StutterKeeps
    <2>6. QED
      BY <2>1, <2>2, <2>3, <2>4, <2>5 DEF Next
  <1>2. QED
    BY InitInv, <1>1, PTL DEF Spec

\* The variables of the bridge keep their types, whatever its threads do.
THEOREM TypeCorrect == Spec => []TypeOK
  <1>1. IInv => TypeOK
    BY DEF IInv
  <1>2. QED
    BY Inductive, <1>1, PTL

\* No entry of _pending outlives its call (MeshClient.call, _resolve_all).
THEOREM PendingIsOwned == Spec => []PendingOwned
  <1>1. IInv => PendingOwned
    BY DEF IInv
  <1>2. QED
    BY Inductive, <1>1, PTL

-----------------------------------------------------------------------------
(* Refinement: a call is made when its entry is, answered by the server, and *)
(* finished by the step that gives it its outcome; all else stutters.        *)

Made == {c \in Call : pc[c] \notin {"idle", "refused", "checked"}}

LEMMA InitPromise == Init => Promise!Init
  BY DEF Init, Promise!Init

\* Steps that leave the places of the callers, or only move one within a call.
LEMMA Stutters ==
    ASSUME UNCHANGED <<answer, outcome>>, Made' = Made
    PROVE  UNCHANGED Promise!callVars
  BY DEF Promise!callVars, Made

LEMMA CallerPromise ==
    ASSUME IInv, NEW c \in Call, CallerStep(c)
    PROVE  [Promise!Next]_(Promise!callVars)
  <1> USE DEF callerVars, tableVars, linkVars, netVars, stopVars
  <1>0. pc \in [Call -> CallerPc] /\ outcome \in [Call -> {"none", "result", "failed", "nothing"}]
    BY DEF IInv, TypeOK
  <1>1. CASE Check(c) /\ pc'[c] = "refused"
    <2>1. Promise!Finish(c, "failed")
      BY <1>0, <1>1 DEF Check, Promise!Finish, IInv, OutcomesOK
    <2>2. QED
      BY <2>1 DEF Promise!Next
  <1>2. CASE Check(c) /\ pc'[c] # "refused"
    <2>1. UNCHANGED <<answer, outcome>> /\ Made' = Made
      BY <1>0, <1>2 DEF Check, Made
    <2>2. QED
      BY <2>1, Stutters
  <1>3. CASE Register(c)
    <2>1. Made' = Made \cup {c} /\ c \notin Made
      BY <1>0, <1>3 DEF Register, Made
    <2>2. Promise!Make(c)
      BY <1>3, <2>1 DEF Register, Promise!Make, Made
    <2>3. QED
      BY <2>2 DEF Promise!Next
  <1>4. CASE Acquire(c) \/ Send(c) \/ SendFails(c) \/ Withdraw(c) \/ Wake(c) \/ Expire(c)
    <2>1. UNCHANGED <<answer, outcome>> /\ Made' = Made
      BY <1>0, <1>4 DEF Acquire, Send, SendFails, Withdraw, Wake, Expire, Made
    <2>2. QED
      BY <2>1, Stutters
  <1>5. CASE DropConn(c) \/ Forget(c)
    <2>1. Made' = Made
      BY <1>0, <1>5 DEF DropConn, Forget, Made
    <2>2. Promise!Finish(c, "failed")
      BY <1>0, <1>5, <2>1 DEF DropConn, Forget, Promise!Finish, Made, IInv, OutcomesOK
    <2>3. QED
      BY <2>2 DEF Promise!Next
  <1>6. CASE Take(c)
    <2>1. Made' = Made
      BY <1>0, <1>6 DEF Take, Made
    <2>2. outcome[c] = "none" /\ outcome' = [outcome EXCEPT ![c] = Returned(c)]
      BY <1>0, <1>6 DEF Take, IInv, OutcomesOK
    <2>3. Returned(c) \in {"result", "failed", "nothing"}
      BY DEF Returned
    <2>4. Returned(c) = "result" => answer[c] = "response"
      <3>1. box[c] # {} /\ box[c] \subseteq {"result", "error"}
        BY <1>6 DEF Take, IInv, TypeOK, BoxesOK
      <3>2. Returned(c) = "result" => "result" \in box[c]
        BY <3>1 DEF Returned
      <3>3. QED
        BY <3>2 DEF IInv, BoxesOK
    <2>5. Promise!Finish(c, Returned(c))
      BY <1>6, <2>1, <2>2, <2>4 DEF Take, Promise!Finish, Made
    <2>6. QED
      BY <2>3, <2>5 DEF Promise!Next
  <1>7. QED
    BY <1>1, <1>2, <1>3, <1>4, <1>5, <1>6 DEF CallerStep

LEMMA ServePromise ==
    ASSUME IInv, NEW c \in Call, NEW a \in {"response", "error"}, Serve(c, a)
    PROVE  [Promise!Next]_(Promise!callVars)
  <1>1. c \in Made /\ answer[c] = "none" /\ Made' = Made
    BY DEF Serve, Made, IInv, AnswersOK, Unsent, callerVars
  <1>2. Promise!Answer(c, a)
    BY <1>1 DEF Serve, Promise!Answer, Made, callerVars
  <1>3. QED
    BY <1>2 DEF Promise!Next

LEMMA RestPromise ==
    ASSUME IInv, ReceiverStep \/ Stop \/ StopCloses \/ Lose \/ UNCHANGED vars
    PROVE  [Promise!Next]_(Promise!callVars)
  <1> USE DEF callerVars, tableVars, linkVars, netVars, stopVars, Made
  <1>1. CASE ReceiverStep
    <2>1. UNCHANGED <<answer, outcome>> /\ Made' = Made
      BY <1>1 DEF ReceiverStep, Run, DialSucceeds, DialFails, Recv, ReadAnswer, ReadTimeout,
             ReadPartly, ReadFails, Resolve, Closing, Clearing, ResolveAll, WalkOn, WalkBreaks,
             WalkEnds, Empty, Pause
    <2>2. QED
      BY <2>1, Stutters
  <1>2. CASE Stop \/ StopCloses \/ Lose \/ UNCHANGED vars
    <2>1. UNCHANGED <<answer, outcome>> /\ Made' = Made
      BY <1>2 DEF Stop, StopCloses, Lose, vars
    <2>2. QED
      BY <2>1, Stutters
  <1>3. QED
    BY <1>1, <1>2

\* The bridge keeps the promise of MeshCall: one outcome for each call, and no
\* result the server has not given (MeshClient.call, _resolve, _resolve_all).
THEOREM PromiseKept == Spec => Implements
  <1>1. IInv /\ [Next]_vars => [Promise!Next]_(Promise!callVars)
    <2> SUFFICES ASSUME IInv, [Next]_vars PROVE [Promise!Next]_(Promise!callVars)
      OBVIOUS
    <2>1. ASSUME NEW c \in Call, CallerStep(c) PROVE [Promise!Next]_(Promise!callVars)
      BY <2>1, CallerPromise
    <2>2. ASSUME NEW c \in Call, NEW a \in {"response", "error"}, Serve(c, a)
          PROVE  [Promise!Next]_(Promise!callVars)
      BY <2>2, ServePromise
    <2>3. CASE ReceiverStep \/ Stop \/ StopCloses \/ Lose \/ UNCHANGED vars
      BY <2>3, RestPromise
    <2>4. QED
      BY <2>1, <2>2, <2>3 DEF Next
  <1>2. QED
    BY Inductive, InitPromise, <1>1, PTL DEF Spec, Implements, Promise!Spec

=============================================================================
