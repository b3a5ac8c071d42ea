----------------------------- MODULE MeshClient -----------------------------
(* The bridge of the HTTP server to the mesh (netpulse/mesh.py): threads    *)
(* that call, one thread that connects and receives, and one that stops.    *)
(* A lock guards sending, receiving and resolving, but neither the table of *)
(* pending calls when a caller changes it, nor the reference to the socket. *)
EXTENDS FiniteSets, Naturals

CONSTANTS Call,      \* calls, each with its own label and thread
          Sock,      \* sockets, reused when nobody refers to them
          NoSock,    \* no socket: None
          Receiver,  \* the thread p2p-mesh
          Stopper,   \* the thread that stops the bridge
          Nobody     \* the lock is free

ASSUME CallAssumption == IsFiniteSet(Call)
ASSUME NullAssumption == NoSock \notin Sock
ASSUME ThreadAssumption == /\ Receiver # Stopper
                           /\ {Receiver, Stopper, Nobody} \cap Call = {}
                           /\ Nobody \notin {Receiver, Stopper}

VARIABLES pc,        \* where a caller stands
          with,      \* the socket a caller is sending on
          pending,   \* the labels in _pending
          box,       \* the dict of a pending call
          ev,        \* the event of a pending call
          outcome,   \* what a call returned or raised
          rpc,       \* where the receiver stands
          frame,     \* the answer it is handling
          walk,      \* its walk through the table: size at the start, seen
          ws,        \* _ws
          connected, \* connected
          sock,      \* sockets: open, gone (the other end left) or closed
          aligned,   \* the stream is read from the start of a frame
          lock,      \* who holds _lock
          stopping,  \* _stop
          stopWs,    \* the socket stop has read
          asked,     \* requests the server has of this connection
          answer,    \* how the server answered
          wire       \* answers on their way to the client

callerVars == <<pc, with, outcome>>
tableVars == <<pending, box, ev>>
linkVars == <<ws, connected, aligned>>
netVars == <<asked, answer, wire>>
stopVars == <<stopping, stopWs>>
vars == <<callerVars, tableVars, rpc, frame, walk, linkVars, sock, lock,
          stopVars, netVars>>

CallerPc == {"idle", "refused", "checked", "registered", "sending", "waiting",
             "woken", "expired", "failed", "dropping", "ended"}
ReceiverPc == {"run", "dialling", "recv", "reading", "got", "closing",
               "clearing", "resolving", "walking", "emptying", "pause", "done"}
NoFrame == "none"
NoWalk == [size |-> 0, seen |-> {}]

TypeOK ==
    /\ pc \in [Call -> CallerPc]
    /\ with \in [Call -> Sock \cup {NoSock}]
    /\ pending \subseteq Call
    /\ box \in [Call -> SUBSET {"result", "error"}]
    /\ ev \in [Call -> BOOLEAN]
    /\ outcome \in [Call -> {"none", "result", "failed", "nothing"}]
    /\ rpc \in ReceiverPc
    /\ frame \in Call \cup {NoFrame}
    /\ walk \in [size : Nat, seen : SUBSET Call]
    /\ ws \in Sock \cup {NoSock}
    /\ connected \in BOOLEAN
    /\ sock \in [Sock -> {"open", "gone", "closed"}]
    /\ aligned \in BOOLEAN
    /\ lock \in Call \cup {Receiver, Stopper, Nobody}
    /\ stopping \in BOOLEAN
    /\ stopWs \in Sock \cup {NoSock}
    /\ asked \subseteq Call
    /\ answer \in [Call -> {"none", "response", "error"}]
    /\ wire \subseteq Call

Init ==
    /\ pc = [c \in Call |-> "idle"]
    /\ with = [c \in Call |-> NoSock]
    /\ pending = {}
    /\ box = [c \in Call |-> {}]
    /\ ev = [c \in Call |-> FALSE]
    /\ outcome = [c \in Call |-> "none"]
    /\ rpc = "run"
    /\ frame = NoFrame
    /\ walk = NoWalk
    /\ ws = NoSock
    /\ connected = FALSE
    /\ sock = [s \in Sock |-> "closed"]
    /\ aligned = TRUE
    /\ lock = Nobody
    /\ stopping = FALSE
    /\ stopWs = NoSock
    /\ asked = {}
    /\ answer = [c \in Call |-> "none"]
    /\ wire = {}

Free == lock = Nobody

\* _WS.close: what was under way to this end is lost, and the server loses the
\* connection with the requests it had of it.
CloseSock(s) ==
    /\ sock' = [sock EXCEPT ![s] = "closed"]
    /\ IF s = ws THEN /\ wire' = {}
                      /\ asked' = {}
                 ELSE UNCHANGED <<wire, asked>>

-----------------------------------------------------------------------------
(* A caller *)

\* The check at the head of call.
Check(c) ==
    /\ pc[c] = "idle"
    /\ IF connected /\ ws # NoSock
          THEN /\ pc' = [pc EXCEPT ![c] = "checked"]
               /\ UNCHANGED outcome
          ELSE /\ pc' = [pc EXCEPT ![c] = "refused"]
               /\ outcome' = [outcome EXCEPT ![c] = "failed"]
    /\ UNCHANGED <<with, tableVars, rpc, frame, walk, linkVars, sock, lock, stopVars, netVars>>

\* The entry is made without the lock.
Register(c) ==
    /\ pc[c] = "checked"
    /\ pending' = pending \cup {c}
    /\ pc' = [pc EXCEPT ![c] = "registered"]
    /\ UNCHANGED <<with, outcome, box, ev, rpc, frame, walk, linkVars, sock, lock, stopVars, netVars>>

\* The socket is whatever _ws is once the lock is there.
Acquire(c) ==
    /\ pc[c] = "registered" /\ Free
    /\ lock' = c
    /\ with' = [with EXCEPT ![c] = ws]
    /\ pc' = [pc EXCEPT ![c] = "sending"]
    /\ UNCHANGED <<outcome, tableVars, rpc, frame, walk, linkVars, sock, stopVars, netVars>>

\* Sent, though perhaps into a connection whose other end has gone.
Send(c) ==
    /\ pc[c] = "sending" /\ with[c] # NoSock /\ sock[with[c]] # "closed"
    /\ asked' = IF with[c] = ws /\ sock[ws] = "open" THEN asked \cup {c} ELSE asked
    /\ lock' = Nobody
    /\ with' = [with EXCEPT ![c] = NoSock]
    /\ pc' = [pc EXCEPT ![c] = "waiting"]
    /\ UNCHANGED <<outcome, tableVars, rpc, frame, walk, linkVars, sock, stopVars, answer, wire>>

\* No socket, a closed one, or one whose other end has gone.
SendFails(c) ==
    /\ pc[c] = "sending" /\ (with[c] # NoSock => sock[with[c]] # "open")
    /\ lock' = Nobody
    /\ with' = [with EXCEPT ![c] = NoSock]
    /\ pc' = [pc EXCEPT ![c] = "failed"]
    /\ UNCHANGED <<outcome, tableVars, rpc, frame, walk, linkVars, sock, stopVars, netVars>>

\* The except clause takes the entry out,
Withdraw(c) ==
    /\ pc[c] = "failed"
    /\ pending' = pending \ {c}
    /\ pc' = [pc EXCEPT ![c] = "dropping"]
    /\ UNCHANGED <<with, outcome, box, ev, rpc, frame, walk, linkVars, sock, lock, stopVars, netVars>>

\* and closes the socket _ws names by now, with no lock (_drop_conn).
DropConn(c) ==
    /\ pc[c] = "dropping"
    /\ IF ws = NoSock THEN UNCHANGED <<sock, wire, asked>> ELSE CloseSock(ws)
    /\ pc' = [pc EXCEPT ![c] = "ended"]
    /\ outcome' = [outcome EXCEPT ![c] = "failed"]
    /\ UNCHANGED <<with, tableVars, rpc, frame, walk, linkVars, lock, stopVars, answer>>

\* ev.wait returns True,
Wake(c) ==
    /\ pc[c] = "waiting" /\ ev[c]
    /\ pc' = [pc EXCEPT ![c] = "woken"]
    /\ UNCHANGED <<with, outcome, tableVars, rpc, frame, walk, linkVars, sock, lock, stopVars, netVars>>

\* or False after the timeout.
Expire(c) ==
    /\ pc[c] = "waiting" /\ ~ev[c]
    /\ pc' = [pc EXCEPT ![c] = "expired"]
    /\ UNCHANGED <<with, outcome, tableVars, rpc, frame, walk, linkVars, sock, lock, stopVars, netVars>>

\* Mutant: the entry of a call that timed out stays.
ForgetNothing(c) ==
    /\ pc[c] = "expired"
    /\ pc' = [pc EXCEPT ![c] = "ended"]
    /\ outcome' = [outcome EXCEPT ![c] = "failed"]
    /\ UNCHANGED <<with, pending, box, ev, rpc, frame, walk, linkVars, sock, lock, stopVars, netVars>>

Forget(c) ==
    /\ pc[c] = "expired"
    /\ pending' = pending \ {c}
    /\ pc' = [pc EXCEPT ![c] = "ended"]
    /\ outcome' = [outcome EXCEPT ![c] = "failed"]
    /\ UNCHANGED <<with, box, ev, rpc, frame, walk, linkVars, sock, lock, stopVars, netVars>>

\* Mutant: the error is not looked for.
ReturnedAnyway(c) == IF c \notin pending THEN "nothing" ELSE "result"

\* What the dict of the entry amounts to: an error goes before a result, and a
\* missing entry counts as an empty dict, which returns None.
Returned(c) == IF c \notin pending THEN "nothing"
               ELSE IF "error" \in box[c] THEN "failed" ELSE "result"

Take(c) ==
    /\ pc[c] = "woken"
    /\ outcome' = [outcome EXCEPT ![c] = Returned(c)]
    /\ pending' = pending \ {c}
    /\ pc' = [pc EXCEPT ![c] = "ended"]
    /\ UNCHANGED <<with, box, ev, rpc, frame, walk, linkVars, sock, lock, stopVars, netVars>>

-----------------------------------------------------------------------------
(* The receiver: _run, _connect_and_loop, _recv_loop *)

Run ==
    /\ rpc = "run"
    /\ rpc' = IF stopping THEN "done" ELSE "dialling"
    /\ UNCHANGED <<callerVars, tableVars, frame, walk, linkVars, sock, lock, stopVars, netVars>>

\* Sockets nobody refers to.
FreeSock == {s \in Sock : s \notin {ws, stopWs} /\ \A c \in Call : with[c] # s}

\* The handshake, whose last step took the lock; which socket does not matter.
DialSucceeds ==
    /\ rpc = "dialling" /\ Free /\ FreeSock # {}
    /\ ws' = CHOOSE s \in FreeSock : TRUE
    /\ sock' = [sock EXCEPT ![ws'] = "open"]
    /\ connected' = TRUE
    /\ aligned' = TRUE
    /\ rpc' = "recv"
    /\ UNCHANGED <<callerVars, tableVars, frame, walk, lock, stopVars, netVars>>

DialFails ==
    /\ rpc = "dialling" /\ Free
    /\ rpc' = "pause"
    /\ UNCHANGED <<callerVars, tableVars, frame, walk, linkVars, sock, lock, stopVars, netVars>>

\* The head of the loop; the lock is held while the receiver reads.
Recv ==
    /\ rpc = "recv"
    /\ IF stopping THEN /\ rpc' = "closing"
                        /\ UNCHANGED lock
                   ELSE /\ Free
                        /\ lock' = Receiver
                        /\ rpc' = "reading"
    /\ UNCHANGED <<callerVars, tableVars, frame, walk, linkVars, sock, stopVars, netVars>>

\* A whole answer has been read.
ReadAnswer ==
    /\ rpc = "reading" /\ aligned /\ sock[ws] # "closed"
    /\ \E c \in wire : /\ frame' = c
                       /\ wire' = wire \ {c}
    /\ lock' = Nobody
    /\ rpc' = "got"
    /\ UNCHANGED <<callerVars, tableVars, walk, linkVars, sock, stopVars, asked, answer>>

\* Nothing within two seconds, or a frame that is none of these.
ReadTimeout ==
    /\ rpc = "reading" /\ sock[ws] # "closed"
    /\ lock' = Nobody
    /\ rpc' = "recv"
    /\ UNCHANGED <<callerVars, tableVars, frame, walk, linkVars, sock, stopVars, netVars>>

\* The timeout in the middle of a frame loses its beginning; what follows is
\* taken for the head of one and answers are swallowed.
ReadPartly ==
    /\ rpc = "reading" /\ sock[ws] # "closed"
    /\ \E c \in wire : wire' = wire \ {c}
    /\ aligned' = FALSE
    /\ lock' = Nobody
    /\ rpc' = "recv"
    /\ UNCHANGED <<callerVars, tableVars, frame, walk, ws, connected, sock, stopVars, asked, answer>>

\* The connection has ended, or what was read says so.
ReadFails ==
    /\ rpc = "reading" /\ (sock[ws] # "open" \/ ~aligned)
    /\ lock' = Nobody
    /\ rpc' = "closing"
    /\ UNCHANGED <<callerVars, tableVars, frame, walk, linkVars, sock, stopVars, netVars>>

\* Mutant: the type of the packet as it is.
BoxKeyRaw(a) == a

\* _on_pack: where the answer goes in the dict.
BoxKey(a) == IF a = "response" THEN "result" ELSE "error"

\* _resolve: an answer to a label that is no longer pending is dropped.
Resolve ==
    /\ rpc = "got" /\ Free
    /\ IF frame \in pending
          THEN /\ box' = [box EXCEPT ![frame] = @ \cup {BoxKey(answer[frame])}]
               /\ ev' = [ev EXCEPT ![frame] = TRUE]
          ELSE UNCHANGED <<box, ev>>
    /\ frame' = NoFrame
    /\ rpc' = "recv"
    /\ UNCHANGED <<callerVars, pending, walk, linkVars, sock, lock, stopVars, netVars>>

\* The finally clause, one assignment after the other.
Closing ==
    /\ rpc = "closing"
    /\ connected' = FALSE
    /\ rpc' = "clearing"
    /\ UNCHANGED <<callerVars, tableVars, frame, walk, ws, aligned, sock, lock, stopVars, netVars>>

\* The server loses the connection with the last reference to the socket; a
\* caller that still has it may send on it or fail.
Clearing ==
    /\ rpc = "clearing"
    /\ sock' = [sock EXCEPT ![ws] = IF @ = "open" /\ \E c \in Call : with[c] = ws
                                       THEN "gone" ELSE "closed"]
    /\ ws' = NoSock
    /\ wire' = {}
    /\ asked' = {}
    /\ rpc' = "resolving"
    /\ UNCHANGED <<callerVars, tableVars, frame, walk, connected, aligned, lock, stopVars, answer>>

\* _resolve_all starts to walk through the table.
ResolveAll ==
    /\ rpc = "resolving" /\ Free
    /\ lock' = Receiver
    /\ walk' = [size |-> Cardinality(pending), seen |-> {}]
    /\ rpc' = "walking"
    /\ UNCHANGED <<callerVars, tableVars, frame, linkVars, sock, stopVars, netVars>>

SameSize == Cardinality(pending) = walk.size

WalkOn ==
    /\ rpc = "walking" /\ SameSize
    /\ \E c \in pending \ walk.seen :
          /\ box' = [box EXCEPT ![c] = @ \cup {"error"}]
          /\ ev' = [ev EXCEPT ![c] = TRUE]
          /\ walk' = [walk EXCEPT !.seen = @ \cup {c}]
    /\ UNCHANGED <<callerVars, pending, rpc, frame, linkVars, sock, lock, stopVars, netVars>>

\* Mutant: the error leaves the lock held.
WalkBreaksLocked ==
    /\ rpc = "walking" /\ ~SameSize
    /\ walk' = NoWalk
    /\ rpc' = "pause"
    /\ UNCHANGED <<callerVars, tableVars, frame, linkVars, sock, lock, stopVars, netVars>>

\* A caller has added or removed an entry: RuntimeError, and the table stays.
WalkBreaks ==
    /\ rpc = "walking" /\ ~SameSize
    /\ lock' = Nobody
    /\ walk' = NoWalk
    /\ rpc' = "pause"
    /\ UNCHANGED <<callerVars, tableVars, frame, linkVars, sock, stopVars, netVars>>

WalkEnds ==
    /\ rpc = "walking" /\ SameSize /\ pending \subseteq walk.seen
    /\ walk' = NoWalk
    /\ rpc' = "emptying"
    /\ UNCHANGED <<callerVars, tableVars, frame, linkVars, sock, lock, stopVars, netVars>>

\* Clears also what a caller has added since.
Empty ==
    /\ rpc = "emptying"
    /\ pending' = {}
    /\ lock' = Nobody
    /\ rpc' = "pause"
    /\ UNCHANGED <<callerVars, box, ev, frame, walk, linkVars, sock, stopVars, netVars>>

\* reconnect_sec, in steps that look at _stop.
Pause ==
    /\ rpc = "pause"
    /\ rpc' = IF stopping THEN "done" ELSE "run"
    /\ UNCHANGED <<callerVars, tableVars, frame, walk, linkVars, sock, lock, stopVars, netVars>>

-----------------------------------------------------------------------------
(* stop, and the network *)

Stop ==
    /\ ~stopping
    /\ stopping' = TRUE
    /\ stopWs' = ws
    /\ UNCHANGED <<callerVars, tableVars, rpc, frame, walk, linkVars, sock, lock, netVars>>

StopCloses ==
    /\ stopWs # NoSock /\ Free
    /\ CloseSock(stopWs)
    /\ stopWs' = NoSock
    /\ UNCHANGED <<callerVars, tableVars, rpc, frame, walk, linkVars, lock, stopping, answer>>

\* The server answers a request over the connection it came by.
Serve(c, a) ==
    /\ c \in asked
    /\ asked' = asked \ {c}
    /\ answer' = [answer EXCEPT ![c] = a]
    /\ wire' = wire \cup {c}
    /\ UNCHANGED <<callerVars, tableVars, rpc, frame, walk, linkVars, sock, lock, stopVars>>

\* The other end closes, or the network does; answers under way may arrive.
Lose ==
    /\ ws # NoSock /\ sock[ws] = "open"
    /\ sock' = [sock EXCEPT ![ws] = "gone"]
    /\ asked' = {}
    /\ \E lost \in {{}, wire} : wire' = wire \ lost
    /\ UNCHANGED <<callerVars, tableVars, rpc, frame, walk, linkVars, lock, stopVars, answer>>

-----------------------------------------------------------------------------

CallerStep(c) == \/ Check(c) \/ Register(c) \/ Acquire(c) \/ Send(c) \/ SendFails(c)
                 \/ Withdraw(c) \/ DropConn(c) \/ Wake(c) \/ Expire(c) \/ Forget(c)
                 \/ Take(c)

ReceiverStep == \/ Run \/ DialSucceeds \/ DialFails \/ Recv \/ ReadAnswer
                \/ ReadTimeout \/ ReadPartly \/ ReadFails \/ Resolve \/ Closing
                \/ Clearing \/ ResolveAll \/ WalkOn \/ WalkBreaks \/ WalkEnds
                \/ Empty \/ Pause

Next == \/ \E c \in Call : CallerStep(c) \/ \E a \in {"response", "error"} : Serve(c, a)
        \/ ReceiverStep
        \/ Stop \/ StopCloses
        \/ Lose

Spec == Init /\ [][Next]_vars

\* The receiver runs; it gets the lock, since each caller takes it once; a
\* caller that has the lock sends and gives it back; a server that can be
\* reached again and again is reached; a lost connection is noticed.
FairSpec == /\ Spec
            /\ WF_vars(ReceiverStep)
            /\ SF_vars(DialSucceeds) /\ SF_vars(ReadFails /\ sock[ws] # "open")
            /\ \A c \in Call : WF_vars(Send(c) \/ SendFails(c))

-----------------------------------------------------------------------------

\* The table holds the labels of calls that are under way, whatever became of
\* them and of the connection (call: each way out takes its entry).
PendingOwned ==
    \A c \in pending : pc[c] \notin {"idle", "refused", "checked", "dropping", "ended"}

\* A call gets one outcome, and a result only if the server gave it: late
\* answers, reconnections and the walk of _resolve_all notwithstanding.
Promise == INSTANCE MeshCall
               WITH made <- {c \in Call : pc[c] \notin {"idle", "refused", "checked"}}
Implements == Promise!Spec

\* The bridge comes back, and ends when it is stopped: a caller that spoils the
\* walk of _resolve_all must not take the thread along (_run).
ReceiverGoesOn == /\ []<>(connected \/ rpc = "done")
                  /\ stopping ~> rpc = "done"

\* call "returns the data of the answer" (its docstring).
ReturnsAnswer == \A c \in Call : outcome[c] # "nothing"

=============================================================================
