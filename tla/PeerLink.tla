------------------------------ MODULE PeerLink ------------------------------
(***************************************************************************)
(* One node's links with one peer: the WebSocket server's endpoint         *)
(* (p2p_core/networking/network.py), the outgoing connectors               *)
(* (node_connector.py) and what both write: nodes_manager's entry,         *)
(* Router._client_ws, Router's transport cache and the peer's status in    *)
(* the neighbor table.  Everything runs on one event loop, so an action is *)
(* the code between two awaits.                                            *)
(*                                                                         *)
(* Abstracted: the time since the peer's last frame has three values       *)
(* (KEEPALIVE_TIMEOUT and DEAD_TIMEOUT are the borders); a connector's     *)
(* socket is named by its connector; handshakes refused before the         *)
(* endpoint registers anything change no state and are left out.           *)
(***************************************************************************)
EXTENDS FiniteSets

CONSTANTS
    Inbound,     \* server-side connections that may exist at a time
    Connector,   \* connectors of this peer
    Configured,  \* those started with the node, from local.peers
    Greater,     \* the node's name is greater than the peer's (lex rule)
    NoSock

ASSUME ConstantAssumption ==
    /\ Inbound \cap Connector = {}
    /\ NoSock \notin Inbound \cup Connector
    /\ Configured \subseteq Connector
    /\ Greater \in BOOLEAN

Sock == Inbound \cup Connector

VARIABLES
    nodeWs,    \* nodes_manager's socket of the peer
    clientWs,  \* Router._client_ws
    cache,     \* Router._transport_cache
    status,    \* NeighborInfo.status, "absent" without an entry
    quiet,     \* time since last_ts
    alive,     \* the other end has not closed the socket, nor have we
    inPc, inOld,        \* websocket_endpoint, and the socket it is replacing
    lexPc,              \* its _lex_reverse_keep_inbound task
    conPc,              \* _connect_loop
    kaPc, kaSock, kaDead  \* _keepalive_loop: socket being pinged, elapsed > DEAD_TIMEOUT

table    == <<status, quiet>>
inVars   == <<inPc, inOld, lexPc>>
kaVars   == <<kaPc, kaSock, kaDead>>
registry == <<nodeWs, clientWs, cache>>
vars == <<registry, table, alive, inVars, conPc, kaVars>>

TypeOK ==
    /\ nodeWs \in Inbound \cup {NoSock}
    /\ clientWs \in Connector \cup {NoSock}
    /\ cache \in Sock \cup {NoSock}
    /\ status \in {"absent", "connected", "known", "unreachable"}
    /\ quiet \in {"fresh", "quiet", "dead"}
    /\ alive \in [Sock -> BOOLEAN]
    /\ inPc \in [Inbound -> {"none", "replacing", "ack", "open"}]
    /\ inOld \in [Inbound -> Inbound \cup {NoSock}]
    /\ lexPc \in [Inbound -> {"none", "sleeping", "waiting"}]
    /\ conPc \in [Connector -> {"boot", "off", "deferred", "loop", "dialing",
                                "handshake", "refused", "open"}]
    /\ kaPc \in [Connector -> {"off", "sleep", "ping"}]
    /\ kaSock \in [Connector -> Sock \cup {NoSock}]
    /\ kaDead \in [Connector -> BOOLEAN]

Init ==
    /\ nodeWs = NoSock /\ clientWs = NoSock /\ cache = NoSock
    /\ status = "absent" /\ quiet = "fresh"
    /\ alive = [s \in Sock |-> FALSE]
    /\ inPc = [c \in Inbound |-> "none"]
    /\ inOld = [c \in Inbound |-> NoSock]
    /\ lexPc = [c \in Inbound |-> "none"]
    /\ conPc = [k \in Connector |-> IF k \in Configured THEN "boot" ELSE "off"]
    /\ kaPc = [k \in Connector |-> "off"]
    /\ kaSock = [k \in Connector |-> NoSock]
    /\ kaDead = [k \in Connector |-> FALSE]

-----------------------------------------------------------------------------
(* Router and NeighborTable                                                *)

\* get_transport_to: the cached transport, the server-side socket, ours.
Transport == IF cache # NoSock THEN cache
             ELSE IF nodeWs # NoSock THEN nodeWs ELSE clientWs

\* It caches what it returns.
UseTransport == cache' = Transport

RegisterConnected == status' = "connected" /\ quiet' = "fresh"

MarkUnreachable ==
    /\ status' = IF status = "absent" THEN "absent" ELSE "unreachable"
    /\ UNCHANGED quiet

-----------------------------------------------------------------------------
(* websocket_endpoint                                                      *)

\* A valid HELLO, no connection registered.
InAccept(c) ==
    /\ inPc[c] = "none" /\ lexPc[c] = "none"
    /\ nodeWs = NoSock
    /\ nodeWs' = c /\ cache' = NoSock
    /\ RegisterConnected
    /\ inPc' = [inPc EXCEPT ![c] = "ack"]
    /\ alive' = [alive EXCEPT ![c] = TRUE]
    /\ UNCHANGED <<clientWs, inOld, lexPc, conPc, kaVars>>

\* A valid HELLO while another connection is registered: the new one takes
\* its place first, then the old one is closed, and that is awaited.
InReplace(c) ==
    /\ inPc[c] = "none" /\ lexPc[c] = "none"
    /\ nodeWs # NoSock
    /\ nodeWs' = c
    /\ inOld' = [inOld EXCEPT ![c] = nodeWs]
    /\ inPc' = [inPc EXCEPT ![c] = "replacing"]
    /\ alive' = [alive EXCEPT ![c] = TRUE, ![nodeWs] = FALSE]
    /\ UNCHANGED <<clientWs, cache, table, lexPc, conPc, kaVars>>

\* Mutant: the cached transport survives the replacement.
InReplacedKeepsCache(c) ==
    /\ inPc[c] = "replacing"
    /\ RegisterConnected
    /\ inPc' = [inPc EXCEPT ![c] = "ack"]
    /\ inOld' = [inOld EXCEPT ![c] = NoSock]
    /\ UNCHANGED <<registry, alive, lexPc, conPc, kaVars>>

InReplaced(c) ==
    /\ inPc[c] = "replacing"
    /\ cache' = NoSock
    /\ RegisterConnected
    /\ inPc' = [inPc EXCEPT ![c] = "ack"]
    /\ inOld' = [inOld EXCEPT ![c] = NoSock]
    /\ UNCHANGED <<nodeWs, clientWs, alive, lexPc, conPc, kaVars>>

\* HELLO_ACK is out.  The greater name is the one that should have dialled:
\* a task tries that while the inbound connection is kept.
InAck(c) ==
    /\ inPc[c] = "ack"
    /\ inPc' = [inPc EXCEPT ![c] = "open"]
    /\ lexPc' = [lexPc EXCEPT ![c] = IF Greater /\ clientWs = NoSock THEN "sleeping" ELSE @]
    /\ UNCHANGED <<registry, table, alive, inOld, conPc, kaVars>>

\* Mutant: the endpoint removes whatever is registered for the peer.
InEndAnyway(c) ==
    /\ inPc[c] \in {"ack", "open"} /\ ~alive[c]
    /\ nodeWs' = NoSock /\ cache' = NoSock
    /\ MarkUnreachable
    /\ inPc' = [inPc EXCEPT ![c] = "none"]
    /\ UNCHANGED <<clientWs, alive, inOld, lexPc, conPc, kaVars>>

\* Mutant: the endpoint leaves without removing its registration.
InEndForgets(c) ==
    /\ inPc[c] \in {"ack", "open"} /\ ~alive[c]
    /\ inPc' = [inPc EXCEPT ![c] = "none"]
    /\ UNCHANGED <<registry, table, alive, inOld, lexPc, conPc, kaVars>>

\* The finally clause: undo the registration unless it is another's by now.
InEnd(c) ==
    /\ inPc[c] \in {"ack", "open"} /\ ~alive[c]
    /\ \/ nodeWs = c /\ nodeWs' = NoSock /\ cache' = NoSock /\ MarkUnreachable
       \/ nodeWs # c /\ UNCHANGED <<nodeWs, cache, table>>
    /\ inPc' = [inPc EXCEPT ![c] = "none"]
    /\ UNCHANGED <<clientWs, alive, inOld, lexPc, conPc, kaVars>>

-----------------------------------------------------------------------------
(* NodeConnector                                                           *)

AlreadyConnected == status = "connected" \/ Transport # NoSock

\* _already_connected asks the router only when the table does not answer.
LookAtTransport == IF status = "connected" THEN UNCHANGED cache ELSE UseTransport

\* start: connected by then, it never dials.
Start(k) ==
    /\ conPc' = [conPc EXCEPT ![k] = IF AlreadyConnected THEN "deferred" ELSE "loop"]
    /\ kaPc' = [kaPc EXCEPT ![k] = "sleep"]
    /\ LookAtTransport
    /\ UNCHANGED <<nodeWs, clientWs, table, alive, kaSock, kaDead>>

StartConfigured(k) ==
    /\ conPc[k] = "boot"
    /\ Start(k)
    /\ UNCHANGED inVars

\* connect_to, called by system.connect_to_node.
ConnectTo(k) ==
    /\ conPc[k] = "off"
    /\ status # "connected"
    /\ Start(k)
    /\ UNCHANGED inVars

\* The head of _connect_loop.
Look(k) ==
    /\ conPc[k] = "loop"
    /\ LookAtTransport
    /\ conPc' = [conPc EXCEPT ![k] = IF AlreadyConnected THEN "loop" ELSE "dialing"]
    /\ UNCHANGED <<nodeWs, clientWs, table, alive, inVars, kaVars>>

\* Mutant: the outgoing socket is registered as the peer's incoming one.
DialSucceedsAsNode(k) ==
    /\ conPc[k] = "dialing"
    /\ nodeWs' = k /\ cache' = NoSock
    /\ alive' = [alive EXCEPT ![k] = TRUE]
    /\ conPc' = [conPc EXCEPT ![k] = "handshake"]
    /\ UNCHANGED <<clientWs, table, inVars, kaVars>>

DialSucceeds(k) ==
    /\ conPc[k] = "dialing"
    /\ clientWs' = k /\ cache' = NoSock
    /\ alive' = [alive EXCEPT ![k] = TRUE]
    /\ conPc' = [conPc EXCEPT ![k] = "handshake"]
    /\ UNCHANGED <<nodeWs, table, inVars, kaVars>>

\* Mutant: only an open connection is unregistered.
FinallyKeepsRefused(k) ==
    /\ clientWs' = IF conPc[k] = "refused" THEN clientWs ELSE NoSock
    /\ cache' = nodeWs
    /\ IF nodeWs = NoSock THEN MarkUnreachable ELSE UNCHANGED table
    /\ alive' = [alive EXCEPT ![k] = FALSE]
    /\ UNCHANGED <<nodeWs, inVars>>

\* The finally clause of _connect_loop.
Finally(k) ==
    /\ clientWs' = NoSock
    /\ cache' = nodeWs
    /\ IF nodeWs = NoSock THEN MarkUnreachable ELSE UNCHANGED table
    /\ alive' = [alive EXCEPT ![k] = FALSE]
    /\ UNCHANGED <<nodeWs, inVars>>

HandshakeAccepted(k) ==
    /\ conPc[k] = "handshake"
    /\ RegisterConnected
    /\ conPc' = [conPc EXCEPT ![k] = "open"]
    /\ UNCHANGED <<registry, alive, inVars, kaVars>>

\* HELLO_REJECT, another frame, or no answer: wait for the backoff, inside
\* the connection's context.
HandshakeRefused(k) ==
    /\ conPc[k] = "handshake"
    /\ conPc' = [conPc EXCEPT ![k] = "refused"]
    /\ UNCHANGED <<registry, table, alive, inVars, kaVars>>

\* The dial failed, the backoff is over, or the socket closed.
ConnectorEnd(k) ==
    /\ \/ conPc[k] \in {"dialing", "refused"}
       \/ conPc[k] \in {"handshake", "open"} /\ ~alive[k]
    /\ Finally(k)
    /\ conPc' = [conPc EXCEPT ![k] = "loop"]
    /\ UNCHANGED kaVars

\* remove_peer stops the connector: both tasks are cancelled.
RemovePeer(k) ==
    /\ conPc[k] \notin {"boot", "off"}
    /\ \/ conPc[k] \in {"dialing", "handshake", "refused", "open"} /\ Finally(k)
       \/ conPc[k] \in {"deferred", "loop"} /\ UNCHANGED <<registry, table, alive, inVars>>
    /\ conPc' = [conPc EXCEPT ![k] = "off"]
    /\ kaPc' = [kaPc EXCEPT ![k] = "off"]
    /\ UNCHANGED <<kaSock, kaDead>>

\* _keepalive_loop without a transport to the peer.
KeepaliveNoTransport(k) ==
    /\ kaPc[k] = "sleep" /\ status # "absent" /\ quiet = "dead"
    /\ Transport = NoSock
    /\ MarkUnreachable
    /\ alive' = [alive EXCEPT ![k] = FALSE]
    /\ UNCHANGED <<registry, inVars, conPc, kaVars>>

KeepalivePing(k) ==
    /\ kaPc[k] = "sleep" /\ status # "absent" /\ quiet # "fresh"
    /\ Transport # NoSock
    /\ UseTransport
    /\ kaPc' = [kaPc EXCEPT ![k] = "ping"]
    /\ kaSock' = [kaSock EXCEPT ![k] = Transport]
    /\ kaDead' = [kaDead EXCEPT ![k] = (quiet = "dead")]
    /\ UNCHANGED <<nodeWs, clientWs, table, alive, inVars, conPc>>

\* The send returned, or raised on a closed socket: then the peer is given up
\* on what was measured before the send.
KeepaliveDone(k) ==
    /\ kaPc[k] = "ping"
    /\ \/ UNCHANGED <<table, alive>>
       \/ /\ ~alive[kaSock[k]] /\ kaDead[k]
          /\ MarkUnreachable
          /\ alive' = [alive EXCEPT ![k] = FALSE]
    /\ kaPc' = [kaPc EXCEPT ![k] = "sleep"]
    /\ kaSock' = [kaSock EXCEPT ![k] = NoSock]
    /\ kaDead' = [kaDead EXCEPT ![k] = FALSE]
    /\ UNCHANGED <<registry, inVars, conPc>>

\* _lex_reverse_keep_inbound, after its pause: dial unless it cannot.
LexDial(c) ==
    /\ lexPc[c] = "sleeping"
    /\ \/ /\ clientWs # NoSock \/ status = "connected"
          /\ lexPc' = [lexPc EXCEPT ![c] = "none"]
          /\ UNCHANGED <<registry, table, alive, conPc, kaVars>>
       \/ /\ clientWs = NoSock /\ status # "connected"
          /\ \E k \in Connector : conPc[k] = "off" /\ Start(k)
          /\ lexPc' = [lexPc EXCEPT ![c] = "waiting"]
    /\ UNCHANGED <<inPc, inOld>>

\* An outgoing socket has appeared: close the inbound one.  Or time is up.
LexEnd(c) ==
    /\ lexPc[c] = "waiting"
    /\ alive' = [alive EXCEPT ![c] = @ /\ ~(clientWs # NoSock /\ nodeWs = c)]
    /\ lexPc' = [lexPc EXCEPT ![c] = "none"]
    /\ UNCHANGED <<registry, table, inPc, inOld, conPc, kaVars>>

-----------------------------------------------------------------------------
(* The peer, the network, the other nodes, and time                        *)

SocketCloses(s) ==
    /\ alive[s]
    /\ alive' = [alive EXCEPT ![s] = FALSE]
    /\ UNCHANGED <<registry, table, inVars, conPc, kaVars>>

\* Router.handle, for any packet that names the peer as its source.
Touch ==
    /\ status # "absent"
    /\ quiet' = "fresh"
    /\ UNCHANGED <<registry, status, alive, inVars, conPc, kaVars>>

\* merge_gossip of another node's table, as far as this peer is concerned.
Gossip ==
    /\ status # "connected"
    /\ \/ status' = "known"
       \/ status = "unreachable" /\ UNCHANGED status
    /\ quiet' = "fresh"
    /\ UNCHANGED <<registry, alive, inVars, conPc, kaVars>>

\* Any send asks for the transport.
Send ==
    /\ UseTransport
    /\ UNCHANGED <<nodeWs, clientWs, table, alive, inVars, conPc, kaVars>>

\* sweep: stale, or cascaded from its relay; removed when silent for long.
Sweep ==
    /\ \/ status = "known" /\ status' = "unreachable"
       \/ status = "unreachable" /\ quiet = "dead" /\ status' = "absent"
    /\ UNCHANGED <<registry, quiet, alive, inVars, conPc, kaVars>>

Tick ==
    /\ \/ quiet = "fresh" /\ quiet' = "quiet"
       \/ quiet = "quiet" /\ quiet' = "dead"
    /\ UNCHANGED <<registry, status, alive, inVars, conPc, kaVars>>

Endpoint(c) == InReplaced(c) \/ InAck(c) \/ InEnd(c)

ConnectLoop(k) ==
    \/ Look(k)
    \/ DialSucceeds(k)
    \/ HandshakeAccepted(k)
    \/ HandshakeRefused(k)
    \/ ConnectorEnd(k)

Keepalive(k) ==
    \/ KeepaliveNoTransport(k)
    \/ KeepalivePing(k)
    \/ KeepaliveDone(k)

Next ==
    \/ \E c \in Inbound : InAccept(c) \/ InReplace(c) \/ Endpoint(c) \/ LexDial(c) \/ LexEnd(c)
    \/ \E k \in Connector : \/ StartConfigured(k) \/ ConnectTo(k) \/ ConnectLoop(k)
                            \/ RemovePeer(k) \/ Keepalive(k)
    \/ \E s \in Sock : SocketCloses(s)
    \/ Touch
    \/ Gossip
    \/ Send
    \/ Sweep
    \/ Tick

Spec == Init /\ [][Next]_vars

\* The event loop runs every task that can go on; a dial, a handshake and a
\* close end one way or the other (each has a timeout).
FairSpec ==
    /\ Spec
    /\ \A c \in Inbound : WF_vars(Endpoint(c))
    /\ \A k \in Connector : WF_vars(ConnectLoop(k)) /\ WF_vars(Keepalive(k))

-----------------------------------------------------------------------------

\* The cached transport is a registered socket, except while the endpoint
\* that replaced it still waits for its close (get_transport_to and the three
\* places that invalidate).
CacheSound ==
    cache # NoSock =>
        \/ cache \in {nodeWs, clientWs}
        \/ \E c \in Inbound : inPc[c] = "replacing" /\ inOld[c] = cache

\* Both registries name sockets whose owner still runs and will remove them.
RegistriesOwned ==
    /\ nodeWs # NoSock => inPc[nodeWs] # "none"
    /\ clientWs # NoSock => conPc[clientWs] \in {"handshake", "refused", "open"}

\* A live connection past its HELLO is the registered one: reconnects leave
\* at most one, and the end of a replaced one does not disturb it.
OneLiveInbound ==
    \A c \in Inbound : inPc[c] # "none" /\ alive[c] => nodeWs = c

\* What the registries and the cache hold of a peer is a socket that somebody
\* serves and will remove, and of those that came in only one.
RegistriesSound == CacheSound /\ RegistriesOwned /\ OneLiveInbound

\* A closed socket leaves the registries.
DeadSocketLeaves ==
    \A s \in Sock : (s \in {nodeWs, clientWs} /\ ~alive[s]) ~> (s \notin {nodeWs, clientWs} \/ alive[s])

\* _keepalive_loop's comment: both paths are checked so that a living
\* neighbor is not buried.
LiveNeighbourNotBuried ==
    \A k \in Connector : conPc[k] = "open" /\ clientWs = k /\ alive[k] => status # "unreachable"

=============================================================================
