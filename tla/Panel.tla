------------------------------- MODULE Panel -------------------------------
(* The web panel of a node: the process that webpanel/service.py starts and *)
(* stops, the browser tabs of streamlit_app.py, each with a client of its   *)
(* own (rpc_client.py) under one and the same node id, the login of auth.py *)
(* and the calls that the threads of the tabs wait for.                     *)
EXTENDS Naturals, FiniteSets

CONSTANTS Tab,
          Call, Of,      \* calls, and [Call -> the tab that makes it]
          MaxFaults

VARIABLES node,     \* the node runs
          port,     \* the process on the port of the panel
          guard,    \* webpanel.auth.enabled, as config.yaml says
          tab,      \* [Tab -> its login and its client]
          peer,     \* the tab whose socket the node keeps for the id
          call,     \* [Call -> where it stands]
          pending, results,   \* calls the clients know, answers they keep
          barred,   \* at its last start the node could not look at the ports
          faults

vars == <<node, port, guard, tab, peer, call, pending, results, barred, faults>>

None == "none"
NoClient == [user |-> FALSE, ws |-> None, connected |-> FALSE, reconnecting |-> FALSE,
             recv |-> FALSE]
\* A client that close() has left, or whose constructor failed.
Closed(t) == [tab[t] EXCEPT !.ws = None, !.connected = FALSE, !.reconnecting = FALSE,
                            !.recv = FALSE]

TypeOK ==
    /\ node \in BOOLEAN
    /\ port \in {None, "own", "orphan"}
    /\ guard \in BOOLEAN
    /\ tab \in [Tab -> [user : BOOLEAN, ws : {None, "open", "closed", "broken"},
                        connected : BOOLEAN, reconnecting : BOOLEAN, recv : BOOLEAN]]
    /\ peer \in Tab \cup {None, "unheard"}
    /\ call \in [Call -> [pc : {"idle", "sent", "answered", "late", "lost", "done"},
                          to : Tab \cup {None},
                          result : {None, "data", "timeout", "raised"}]]
    /\ pending \subseteq Call /\ results \subseteq Call
    /\ barred \in BOOLEAN
    /\ faults \in 0 .. MaxFaults

Init ==
    /\ node = FALSE /\ port = None /\ guard \in BOOLEAN
    /\ tab = [t \in Tab |-> NoClient]
    /\ peer = None
    /\ call = [c \in Call |-> [pc |-> "idle", to |-> None, result |-> None]]
    /\ pending = {} /\ results = {}
    /\ barred = FALSE /\ faults = 0

Fault == faults < MaxFaults /\ faults' = faults + 1
callVars == <<call, pending, results>>

-----------------------------------------------------------------------------
\* The process.
\* With the process go the tabs, their clients and what they wait for.
TabsGo == /\ tab' = [t \in Tab |-> NoClient]
          /\ call' = [c \in Call |-> IF call[c].pc \in {"idle", "done"} THEN call[c]
                                     ELSE [call[c] EXCEPT !.pc = "done", !.result = "raised"]]
          /\ pending' = {} /\ results' = {}

\* Mutant: what still listens on the port is left alone.
KillsNobody == port
Killed == None

\* WebPanel.start: a panel of an earlier run is killed, when the scan of the
\* ports is allowed; a new one finds the port taken otherwise, and ends.
NodeStarts ==
    /\ ~node /\ node' = TRUE
    /\ \/ /\ port' = IF Killed = None THEN "own" ELSE port
          /\ IF Killed = None THEN TabsGo ELSE UNCHANGED <<tab, callVars>>
          /\ barred' = FALSE /\ UNCHANGED faults
       \/ /\ port # None /\ barred' = TRUE
          /\ UNCHANGED <<port, tab, callVars, faults>>
    /\ UNCHANGED <<guard, peer>>

\* WebPanel.stop: terminate, two seconds, kill.
NodeStops ==
    /\ node /\ Fault
    /\ node' = FALSE /\ peer' = None
    /\ IF port = "own" THEN port' = None /\ TabsGo
       ELSE /\ port' = port
            /\ tab' = [t \in Tab |-> IF tab[t].ws = "open" THEN [tab[t] EXCEPT !.ws = "closed"]
                                     ELSE tab[t]]
            /\ UNCHANGED callVars
    /\ UNCHANGED <<guard, barred>>

\* A node that dies leaves the process of the panel behind.
NodeDies ==
    /\ node /\ Fault
    /\ node' = FALSE /\ peer' = None
    /\ port' = IF port = None THEN None ELSE "orphan"
    /\ tab' = [t \in Tab |-> IF tab[t].ws = "open" THEN [tab[t] EXCEPT !.ws = "broken"]
                             ELSE tab[t]]
    /\ UNCHANGED <<guard, barred, callVars>>

-----------------------------------------------------------------------------
\* A run of the script of a tab.
EditGuard == Fault /\ guard' = ~guard /\ UNCHANGED <<node, port, barred, tab, peer, callVars>>

Login(t) ==
    /\ port # None /\ guard /\ ~tab[t].user
    /\ tab' = [tab EXCEPT ![t].user = TRUE]
    /\ UNCHANGED <<node, port, guard, barred, peer, callVars, faults>>

\* The client stays where it is.
Logout(t) ==
    /\ guard /\ tab[t].user
    /\ tab' = [tab EXCEPT ![t].user = FALSE]
    /\ UNCHANGED <<node, port, guard, barred, peer, callVars, faults>>

Shown(t) == port # None /\ (~guard \/ tab[t].user)
InUse(t) == tab[t].connected \/ tab[t].reconnecting

\* The node takes a new socket for the id and closes the one it had.
\* Mutant: the old socket is left open.
BesideOld(t, tabs) == tabs
Instead(t, tabs) ==
    [u \in Tab |-> IF u = peer /\ u # t /\ tabs[u].ws = "open"
                   THEN [tabs[u] EXCEPT !.ws = "closed"] ELSE tabs[u]]

\* get_rpc: a client in use is kept; any other is closed and replaced.  The
\* node may have taken a socket whose HELLO_ACK does not come in time.
GetRpc(t) ==
    /\ Shown(t) /\ ~InUse(t)
    /\ \/ /\ node
          /\ tab' = Instead(t, [tab EXCEPT ![t] = [user |-> tab[t].user, ws |-> "open",
                                  connected |-> TRUE, reconnecting |-> FALSE, recv |-> TRUE]])
          /\ peer' = t /\ UNCHANGED faults
       \/ /\ node /\ Fault
          /\ tab' = Instead(t, [tab EXCEPT ![t] = Closed(t)])
          /\ peer' = "unheard"
       \/ /\ ~node /\ tab[t].ws # None
          /\ tab' = [tab EXCEPT ![t] = Closed(t)]
          /\ UNCHANGED <<peer, faults>>
    /\ UNCHANGED <<node, port, guard, barred, callVars>>

\* A connection breaks; the node may not have noticed.
Breaks(t) ==
    /\ tab[t].ws = "open" /\ Fault
    /\ tab' = [tab EXCEPT ![t].ws = "broken"]
    /\ peer' \in {peer, None}
    /\ UNCHANGED <<node, port, guard, barred, callVars>>

\* _receive_loop: a normal close ends the iteration, and with it the task;
\* nothing else is told.
ReceiveEnds(t) ==
    /\ tab[t].ws = "closed" /\ tab[t].recv
    /\ tab' = [tab EXCEPT ![t].recv = FALSE]
    /\ UNCHANGED <<node, port, guard, barred, peer, callVars, faults>>

\* Any other end calls _reconnect, in the task that _reconnect then cancels: it
\* does not come back from its first sleep.
ReceiveBreaks(t) ==
    /\ tab[t].ws = "broken" /\ tab[t].recv
    /\ tab' = [tab EXCEPT ![t].reconnecting = TRUE, ![t].connected = FALSE, ![t].recv = FALSE]
    /\ UNCHANGED <<node, port, guard, barred, peer, callVars, faults>>

-----------------------------------------------------------------------------
\* Calls.
Stands(c, pc) == call[c].pc = pc
Ends(c, result) == call' = [call EXCEPT ![c].pc = "done", ![c].result = result]
Rest == UNCHANGED <<node, port, guard, barred, tab, peer, faults>>

\* NodeRPC.call up to the sending; one that fails leaves its label behind.
Begin(c) ==
    /\ Stands(c, "idle") /\ Shown(Of[c]) /\ InUse(Of[c])
    /\ IF tab[Of[c]].reconnecting THEN Ends(c, "raised") /\ UNCHANGED pending
       ELSE /\ pending' = pending \cup {c}
            /\ CASE tab[Of[c]].ws = "open" -> call' = [call EXCEPT ![c].pc = "sent"]
                 [] tab[Of[c]].ws = "closed" -> Ends(c, "raised")
                 [] OTHER -> \/ call' = [call EXCEPT ![c].pc = "lost"]
                             \/ Ends(c, "raised")
    /\ UNCHANGED results /\ Rest

\* The node answers to the socket it has for the id.
NodeAnswers(c) ==
    /\ Stands(c, "sent") /\ node /\ peer \in Tab
    /\ call' = [call EXCEPT ![c].pc = "answered", ![c].to = peer]
    /\ UNCHANGED <<pending, results>> /\ Rest

\* _resolve, of the client that got the answer.
Resolve(c) ==
    /\ call[c].to \in Tab /\ tab[call[c].to].ws = "open" /\ tab[call[c].to].recv
    /\ results' = IF call[c].to = Of[c] /\ c \in pending THEN results \cup {c} ELSE results
    /\ call' = [call EXCEPT ![c].to = None]
    /\ UNCHANGED pending /\ Rest

Waits(c) == call[c].pc \in {"sent", "answered", "lost"}

\* The event was set, and the answer is taken.
Returns(c) ==
    /\ Waits(c) /\ c \in results
    /\ Ends(c, "data")
    /\ pending' = pending \ {c} /\ results' = results \ {c}
    /\ Rest

\* The wait ends without it, and then the label is taken out under the lock.
WaitEnds(c) ==
    /\ Waits(c) /\ c \notin results
    /\ call' = [call EXCEPT ![c].pc = "late"]
    /\ UNCHANGED <<pending, results>> /\ Rest

\* Mutant: the label of a call that timed out stays.
PoppedNot(c) == pending
Popped(c) == pending \ {c}
TimesOut(c) ==
    /\ Stands(c, "late")
    /\ Ends(c, "timeout")
    /\ pending' = Popped(c)
    /\ UNCHANGED results /\ Rest

Next ==
    \/ NodeStarts \/ NodeStops \/ NodeDies \/ EditGuard
    \/ \E t \in Tab : \/ Login(t) \/ Logout(t) \/ GetRpc(t) \/ Breaks(t)
                      \/ ReceiveEnds(t) \/ ReceiveBreaks(t)
    \/ \E c \in Call : \/ Begin(c) \/ NodeAnswers(c) \/ Resolve(c) \/ Returns(c)
                       \/ WaitEnds(c) \/ TimesOut(c)

Spec == Init /\ [][Next]_vars

-----------------------------------------------------------------------------
\* The tabs share an id, and the node hears one: a socket that is open is the
\* one that it answers to (network.py:193).
OneHeard == \A t \in Tab : tab[t].ws = "open" => peer = t

\* What a client remembers of a call goes when the call returns, except for the
\* label of one that was not sent and the answer that came between the end of
\* the wait and the lock (rpc_client.py:233).
NothingLeft ==
    \A c \in Call : /\ call[c].result \in {"data", "timeout"} => c \notin pending
                    /\ c \in results => call[c].result # "data"

\* After a start that may look at the ports the panel is the one of this node
\* (service.py:93).
PanelIsOwn == node /\ ~barred => port = "own"

\* rpc_client.py:3: a client whose connection ended gets a new one.
Fairness == /\ WF_vars(NodeStarts)
            /\ \A t \in Tab : /\ WF_vars(GetRpc(t)) /\ WF_vars(ReceiveEnds(t))
                              /\ WF_vars(ReceiveBreaks(t)) /\ WF_vars(Login(t))
Reconnects == \A t \in Tab : tab[t].ws \in {"closed", "broken"} ~> tab[t].ws \in {"open", None}

\* rpc_client.py:41: _connected stays true while it reconnects.
ConnectedKept == \A t \in Tab : tab[t].reconnecting => tab[t].connected

=============================================================================
