-------------------------------- MODULE Rpc ---------------------------------
(***************************************************************************)
(* Remote calls through the mesh (p2p_core/networking/router.py, with      *)
(* sessions.py and executor.py): a request is forwarded hop by hop, its    *)
(* path grows on the way, and the answer goes back along that path.  Nodes *)
(* call with Router.call, clients (netpulse/mesh.py, the web panel) send   *)
(* to the node they are connected to.                                      *)
(*                                                                         *)
(* Abstracted: the data, destinations named by alias or host, streams.     *)
(* Routing tables change at any time (Mesh has their rules).  The reader   *)
(* of a connection differs by end: the server starts a task per request,   *)
(* the end that dialled handles one packet after the other.                *)
(***************************************************************************)
EXTENDS Naturals, Sequences, SequencesExt, FiniteSets

CONSTANTS
    Node,
    Client,      \* nodes that only send requests
    Link,        \* connections that may exist: <<who dials, who serves>>
    Via,         \* Via[n][d]: the neighbor n sends to for d at first, or NoNode
    Call,
    Origin, Dest,  \* of each call
    Parent,      \* the call whose method makes this one, or NoCall
    NoNode, NoCall,
    Ttl,         \* DEFAULT_TTL
    MaxChanges   \* bound: lost and new connections, changed routes

ASSUME ConstantAssumption ==
    /\ Client \subseteq Node /\ NoNode \notin Node /\ NoCall \notin Call
    /\ Link \subseteq Node \X Node
    /\ \A n, m \in Node : <<n, m>> \in Link => n # m /\ <<m, n>> \notin Link
    /\ Via \in [Node -> [Node -> Node \cup {NoNode}]]
    /\ Origin \in [Call -> Node] /\ Dest \in [Call -> Node \ Client]
    /\ Parent \in [Call -> Call \cup {NoCall}]
    /\ \A l \in Call : /\ Origin[l] # Dest[l]
                       /\ Parent[l] # NoCall => Origin[l] = Dest[Parent[l]]
    /\ Ttl \in Nat \ {0, 1} /\ MaxChanges \in Nat

VARIABLES
    link,       \* connections that exist
    peers,      \* peers[n]: the nodes n holds a socket of
    route,      \* via of the neighbor table
    wire,       \* wire[a][b]: packets from a to b
    busy,       \* busy[a][b]: the call that b's reader of packets from a is executing
    state,      \* of each call at its caller
    sessions,   \* SessionTable, and the client's _pending
    wsPending,  \* Router._ws_pending
    running,    \* methods being executed
    executed,   \* history: how often a call's method was started
    changes

net  == <<link, peers, route, changes>>
vars == <<net, wire, busy, state, sessions, wsPending, running, executed>>

Packet == [type : {"request", "forwarded", "response", "error"}, call : Call,
           path : Seq(Node), ttl : 0..Ttl]

TypeOK ==
    /\ link \subseteq Link
    /\ peers \in [Node -> SUBSET Node]
    /\ route \in [Node -> [Node -> Node \cup {NoNode}]]
    /\ wire \in [Node -> [Node -> Seq(Packet)]]
    /\ busy \in [Node -> [Node -> Call \cup {NoCall}]]
    /\ state \in [Call -> {"idle", "waiting", "ok", "error", "timeout", "noroute", "raised", "lost"}]
    /\ sessions \subseteq Call
    /\ wsPending \in [Node -> SUBSET Call]
    /\ running \subseteq [call : Call, path : Seq(Node)]
    /\ executed \in [Call -> Nat]
    /\ changes \in 0..MaxChanges

Connected(a, b) == <<a, b>> \in link \/ <<b, a>> \in link
Dialled(n, m) == <<n, m>> \in Link

Init ==
    /\ link = Link
    /\ peers = [n \in Node |-> {m \in Node : Dialled(n, m) \/ Dialled(m, n)}]
    /\ route = Via
    /\ wire = [a \in Node |-> [b \in Node |-> <<>>]]
    /\ busy = [a \in Node |-> [b \in Node |-> NoCall]]
    /\ state = [l \in Call |-> "idle"]
    /\ sessions = {}
    /\ wsPending = [n \in Node |-> {}]
    /\ running = {}
    /\ executed = [l \in Call |-> 0]
    /\ changes = 0

-----------------------------------------------------------------------------
(* _forward and _route_back                                                *)

\* A packet sent on a connection that is gone is lost.
Sent(w, n, m, p) == IF Connected(n, m) THEN [w EXCEPT ![n][m] = Append(@, p)] ELSE w

\* A socket of the destination itself, or of the relay in the table.
NextHop(n, d) == IF d \in peers[n] THEN d
                 ELSE IF route[n][d] \in peers[n] THEN route[n][d] ELSE NoNode

Extended(path, n) == IF path = <<>> \/ Last(path) # n THEN Append(path, n) ELSE path

\* Only a packet for a relay becomes "forwarded".
Relayed(n, p) ==
    [p EXCEPT !.path = Extended(@, n), !.ttl = @ - 1,
              !.type = IF Dest[p.call] \in peers[n] THEN @ ELSE "forwarded"]

\* _forward on wires w; without a route the packet goes no further.
Forwarded(w, n, p) ==
    LET hop == NextHop(n, Dest[p.call])
    IN  IF hop = NoNode THEN w ELSE Sent(w, n, hop, Relayed(n, p))

\* The path without this node at its end.
Back(path, n) == IF path # <<>> /\ Last(path) = n THEN Front(path) ELSE path

\* The part of _route_back that sends; a broken return path drops the answer.
RoutedBack(w, n, p) ==
    LET path == Back(p.path, n)
    IN  IF Last(path) \in peers[n] THEN Sent(w, n, Last(path), [p EXCEPT !.path = path]) ELSE w

Reply(type, l, path) == [type |-> type, call |-> l, path |-> path, ttl |-> Ttl]

-----------------------------------------------------------------------------
(* Callers                                                                 *)

MayStart(l) ==
    /\ state[l] = "idle"
    /\ Parent[l] # NoCall => \E t \in running : t.call = Parent[l]

\* Router.call.  Only NoRouteToHost takes the session back: when the send
\* raises, as it may on a connection that is gone, the session stays.
CallNode(l) ==
    LET n == Origin[l]  p == Reply("request", l, <<n>>)
    IN  /\ MayStart(l) /\ n \notin Client
        /\ \/ /\ NextHop(n, Dest[l]) = NoNode
              /\ state' = [state EXCEPT ![l] = "noroute"]
              /\ UNCHANGED <<sessions, wire>>
           \/ /\ NextHop(n, Dest[l]) # NoNode
              /\ sessions' = sessions \cup {l}
              /\ \/ /\ state' = [state EXCEPT ![l] = "waiting"]
                    /\ wire' = Forwarded(wire, n, p)
                 \/ /\ ~Connected(n, NextHop(n, Dest[l]))
                    /\ state' = [state EXCEPT ![l] = "raised"]
                    /\ UNCHANGED wire
        /\ UNCHANGED <<net, busy, wsPending, running, executed>>

\* MeshClient.call: the request goes to the node it is connected to.
CallClient(l) ==
    LET n == Origin[l]
    IN  /\ MayStart(l) /\ n \in Client
        /\ \/ \E m \in peers[n] :
                /\ state' = [state EXCEPT ![l] = "waiting"]
                /\ sessions' = sessions \cup {l}
                /\ wire' = Sent(wire, n, m, Reply("request", l, <<>>))
           \/ /\ \A m \in peers[n] : ~Connected(n, m)   \* no connection, or the send raises
              /\ state' = [state EXCEPT ![l] = "raised"]
              /\ UNCHANGED <<sessions, wire>>
        /\ UNCHANGED <<net, busy, wsPending, running, executed>>

\* Mutant: a timeout forgets the session's entry.
TimeoutKeepsSession(l) ==
    /\ state[l] = "waiting"
    /\ state' = [state EXCEPT ![l] = "timeout"]
    /\ UNCHANGED <<net, wire, busy, sessions, wsPending, running, executed>>

\* Mutant: a call is repeated instead of given up.
TimeoutRetries(l) ==
    /\ state[l] = "waiting" /\ Origin[l] \notin Client
    /\ wire' = Forwarded(wire, Origin[l], Reply("request", l, <<Origin[l]>>))
    /\ UNCHANGED <<net, state, sessions, busy, wsPending, running, executed>>

\* Mutant: only a client's call ends by itself.
TimeoutOfClients(l) ==
    /\ state[l] = "waiting" /\ Origin[l] \in Client
    /\ state' = [state EXCEPT ![l] = "timeout"]
    /\ sessions' = sessions \ {l}
    /\ UNCHANGED <<net, wire, busy, wsPending, running, executed>>

\* The wait of Router.call, or of the client, ends: its session goes.
Timeout(l) ==
    /\ state[l] = "waiting"
    /\ state' = [state EXCEPT ![l] = "timeout"]
    /\ sessions' = sessions \ {l}
    /\ UNCHANGED <<net, wire, busy, wsPending, running, executed>>

-----------------------------------------------------------------------------
(* Router.handle                                                           *)

Arrives(a, b) == wire[a][b] # <<>> /\ busy[a][b] = NoCall
Taken(a, b) == [wire EXCEPT ![a][b] = Tail(@)]

\* The executor starts the method; the end that dialled waits for it.
Start(a, b, l, path) ==
    /\ running' = running \cup {[call |-> l, path |-> path]}
    /\ executed' = [executed EXCEPT ![l] = @ + 1]
    /\ busy' = [busy EXCEPT ![a][b] = IF Dialled(b, a) THEN l ELSE @]

\* A request for this node, from a neighbor or a client.
OnRequest(a, b) ==
    /\ Arrives(a, b)
    /\ LET p == Head(wire[a][b])
       IN  /\ p.type = "request" /\ Dest[p.call] = b
           /\ Start(a, b, p.call, p.path)
    /\ wire' = Taken(a, b)
    /\ UNCHANGED <<net, state, sessions, wsPending>>

\* _on_remote_request: remember whose it is, then forward it.
OnRemoteRequest(a, b) ==
    /\ Arrives(a, b)
    /\ LET p == Head(wire[a][b])
           q == [p EXCEPT !.path = Append(@, b), !.ttl = @ - 1]
       IN  /\ p.type = "request" /\ Dest[p.call] # b
           /\ IF NextHop(b, Dest[p.call]) = NoNode
              THEN /\ wire' = Sent(Taken(a, b), b, a, Reply("error", p.call, <<>>))
                   /\ UNCHANGED wsPending
              ELSE /\ wire' = Forwarded(Taken(a, b), b, q)
                   /\ wsPending' = [wsPending EXCEPT ![b] = @ \cup {p.call}]
    /\ UNCHANGED <<net, busy, state, sessions, running, executed>>

\* Mutant: the path is not looked at.
DroppedOnTtl(p, n) == p.ttl = 0

\* _on_forwarded's checks.
Dropped(p, n) == p.ttl = 0 \/ \E i \in DOMAIN p.path : p.path[i] = n

\* _on_forwarded.  A relay without a route answers nothing.
OnForwarded(a, b) ==
    /\ Arrives(a, b)
    /\ LET p == Head(wire[a][b])
           q == [p EXCEPT !.path = Append(@, b)]
       IN  /\ p.type = "forwarded"
           /\ \/ /\ Dropped(p, b)
                 /\ wire' = Taken(a, b)
                 /\ UNCHANGED <<busy, running, executed>>
              \/ /\ ~Dropped(p, b) /\ Dest[p.call] = b
                 /\ wire' = Taken(a, b)
                 /\ Start(a, b, p.call, q.path)
              \/ /\ ~Dropped(p, b) /\ Dest[p.call] # b
                 /\ wire' = Forwarded(Taken(a, b), b, q)
                 /\ UNCHANGED <<busy, running, executed>>
    /\ UNCHANGED <<net, state, sessions, wsPending>>

\* Mutant: an ERROR is delivered like a RESPONSE.
ResolveAlwaysOk(p) ==
    /\ state' = [state EXCEPT ![p.call] =
                    IF p.call \notin sessions \/ @ # "waiting" THEN @ ELSE "ok"]
    /\ sessions' = sessions \ {p.call}

\* Mutant: the caller is handed the packet's type.
ResolveType(p) ==
    /\ state' = [state EXCEPT ![p.call] =
                    IF p.call \notin sessions \/ @ # "waiting" THEN @ ELSE p.type]
    /\ sessions' = sessions \ {p.call}

\* SessionTable.resolve: nothing without a session.
Resolve(p) ==
    /\ state' = [state EXCEPT ![p.call] =
                    IF p.call \notin sessions \/ @ # "waiting" THEN @
                    ELSE IF p.type = "response" THEN "ok" ELSE "error"]
    /\ sessions' = sessions \ {p.call}

\* RESPONSE and ERROR: to the client that asked, back along the path, or home.
OnReply(a, b) ==
    /\ Arrives(a, b)
    /\ LET p == Head(wire[a][b])
       IN  /\ p.type \in {"response", "error"}
           /\ \/ /\ p.call \in wsPending[b]
                 /\ wsPending' = [wsPending EXCEPT ![b] = @ \ {p.call}]
                 /\ wire' = Sent(Taken(a, b), b, Origin[p.call], p)
                 /\ UNCHANGED <<state, sessions>>
              \/ /\ p.call \notin wsPending[b] /\ Back(p.path, b) # <<>>
                 /\ b \notin Client
                 /\ wire' = RoutedBack(Taken(a, b), b, p)
                 /\ UNCHANGED <<state, sessions, wsPending>>
              \/ /\ p.call \notin wsPending[b]
                 /\ Back(p.path, b) = <<>> \/ b \in Client
                 /\ IF Origin[p.call] = b THEN Resolve(p) ELSE UNCHANGED <<state, sessions>>
                 /\ wire' = Taken(a, b)
                 /\ UNCHANGED wsPending
    /\ UNCHANGED <<net, busy, running, executed>>

\* The method returns or raises, after the calls it made; _on_request answers.
Finish(t) ==
    /\ t \in running
    /\ \A l \in Call : Parent[l] = t.call => state[l] # "waiting"
    /\ \E type \in {"response", "error"} :
          LET n == Dest[t.call]
              p == Reply(type, t.call, t.path)
          IN  wire' = IF t.path # <<>> THEN RoutedBack(wire, n, p)
                      ELSE IF Origin[t.call] \in peers[n] THEN Sent(wire, n, Origin[t.call], p)
                      ELSE wire
    /\ running' = running \ {t}
    /\ busy' = [a \in Node |-> [b \in Node |->
                  IF busy[a][b] = t.call /\ b = Dest[t.call] THEN NoCall ELSE busy[a][b]]]
    /\ UNCHANGED <<net, state, sessions, wsPending, executed>>

\* sweep_ws_pending: by age, whether or not the client waits longer than that.
SweepPending(n) ==
    /\ \E l \in wsPending[n] : wsPending' = [wsPending EXCEPT ![n] = @ \ {l}]
    /\ UNCHANGED <<net, wire, busy, state, sessions, running, executed>>

-----------------------------------------------------------------------------
(* Connections and routes                                                  *)

LinkDown(a, b) ==
    /\ <<a, b>> \in link /\ changes < MaxChanges
    /\ link' = link \ {<<a, b>>}
    /\ wire' = [wire EXCEPT ![a][b] = <<>>, ![b][a] = <<>>]
    /\ changes' = changes + 1
    /\ UNCHANGED <<peers, route, busy, state, sessions, wsPending, running, executed>>

\* Mutant: the end of a connection leaves the requests waiting on it.
NoticeKeepsPending(n, m) ==
    /\ m \in peers[n] /\ ~Connected(n, m) /\ busy[m][n] = NoCall
    /\ peers' = [peers EXCEPT ![n] = @ \ {m}]
    /\ UNCHANGED <<link, route, changes, wire, busy, state, sessions, wsPending, running, executed>>

\* One end's reader ends: the socket is unregistered, a client's requests are
\* forgotten (cleanup_ws_pending), and a client's own calls end (_resolve_all).
Notice(n, m) ==
    /\ m \in peers[n] /\ ~Connected(n, m) /\ busy[m][n] = NoCall
    /\ peers' = [peers EXCEPT ![n] = @ \ {m}]
    /\ wsPending' = [wsPending EXCEPT ![n] = {l \in @ : Origin[l] # m}]
    /\ state' = [l \in Call |-> IF n \in Client /\ Origin[l] = n /\ state[l] = "waiting"
                                THEN "lost" ELSE state[l]]
    /\ sessions' = {l \in sessions : ~(n \in Client /\ Origin[l] = n)}
    /\ UNCHANGED <<link, route, changes, wire, busy, running, executed>>

LinkUp(a, b) ==
    /\ <<a, b>> \in Link \ link /\ changes < MaxChanges
    /\ b \notin peers[a] /\ a \notin peers[b]
    /\ link' = link \cup {<<a, b>>}
    /\ peers' = [peers EXCEPT ![a] = @ \cup {b}, ![b] = @ \cup {a}]
    /\ changes' = changes + 1
    /\ UNCHANGED <<route, wire, busy, state, sessions, wsPending, running, executed>>

\* The table learns or forgets a route over a neighbor it had.
RouteChange(n, d, v) ==
    /\ changes < MaxChanges /\ n \notin Client /\ n # d /\ v \notin {n, d}
    /\ v = NoNode \/ (v \notin Client /\ (Dialled(n, v) \/ Dialled(v, n)))
    /\ route[n][d] # v
    /\ route' = [route EXCEPT ![n][d] = v]
    /\ changes' = changes + 1
    /\ UNCHANGED <<link, peers, wire, busy, state, sessions, wsPending, running, executed>>

Handle(a, b) ==
    \/ OnRequest(a, b)
    \/ OnRemoteRequest(a, b)
    \/ OnForwarded(a, b)
    \/ OnReply(a, b)

Next ==
    \/ \E l \in Call : CallNode(l) \/ CallClient(l) \/ Timeout(l)
    \/ \E a, b \in Node : Handle(a, b) \/ LinkDown(a, b) \/ LinkUp(a, b) \/ Notice(a, b)
    \/ \E t \in running : Finish(t)
    \/ \E n \in Node : SweepPending(n)
    \/ \E n, d \in Node, v \in Node \cup {NoNode} : RouteChange(n, d, v)

Spec == Init /\ [][Next]_vars

\* Readers read and methods return; nothing has to time out.
Fairness ==
    /\ \A a, b \in Node : WF_vars(Handle(a, b)) /\ WF_vars(Notice(a, b))
    /\ WF_vars(\E t \in running : Finish(t))

FairSpec == Spec /\ Fairness

\* With the timeouts of Router.call.
TimedSpec == FairSpec /\ \A l \in Call : WF_vars(Timeout(l))

-----------------------------------------------------------------------------

Traces(l) ==
    {x \in Node \X Node \X (1..Cardinality(Call)) :
        x[3] \in DOMAIN wire[x[1]][x[2]] /\ wire[x[1]][x[2]][x[3]].call = l}

\* A call is on its way, being executed or on its way back, never two of
\* these and never twice, whatever path it takes; so no method runs twice
\* (_forward, _on_forwarded, _route_back).
AtMostOnce ==
    \A l \in Call : /\ executed[l] <= 1
                    /\ Cardinality(Traces(l)) + Cardinality({t \in running : t.call = l}) <= 1

\* What the caller is told is true: a result is the result of a finished
\* execution, and without a route nothing was or will be executed.
AnswerIsTrue ==
    \A l \in Call :
        /\ state[l] = "ok" => executed[l] = 1 /\ \A t \in running : t.call # l
        /\ state[l] = "noroute" => executed[l] = 0 /\ Traces(l) = {}

\* A request never visits a node twice, although the tables it is forwarded by
\* change under way and may form a loop, and its path and ttl say how far it
\* went (Extended, _on_forwarded, _on_remote_request).
PathsLoopFree ==
    \A a, b \in Node : \A i \in DOMAIN wire[a][b] :
        LET p == wire[a][b][i]
        IN  p.type = "forwarded" =>
                /\ \A j, k \in DOMAIN p.path : p.path[j] = p.path[k] => j = k
                /\ p.ttl + Len(p.path) \in {Ttl, Ttl - 1}

\* A call is made once, on a path without a loop, and answered with what came
\* of it (_forward, _on_forwarded, _route_back, call).
CallsSound == AtMostOnce /\ AnswerIsTrue /\ PathsLoopFree

\* Only calls that wait, or whose first send raised, have a session.
SessionsReleased == \A l \in sessions : state[l] \in {"waiting", "raised"}

\* A node remembers requests only of clients it still has a socket of
\* (_on_remote_request, cleanup_ws_pending).
PendingOwned == \A n \in Node : \A l \in wsPending[n] : Origin[l] \in peers[n]

\* Nothing is kept of a call that is over, at the caller or under way.
NothingKept == SessionsReleased /\ PendingOwned

\* While connections and routes stay as they are, no call needs its timeout,
\* the calls made by the method of another call included.
AnsweredWithoutFailures ==
    (MaxChanges = 0) => \A l \in Call : state[l] = "waiting" ~> state[l] \in {"ok", "error", "timeout"}

\* A reader that executes a method itself reads on some day, also when the
\* answers to the calls the method makes are lost.
ReaderFreed == \A a, b \in Node : busy[a][b] # NoCall ~> busy[a][b] = NoCall

=============================================================================
