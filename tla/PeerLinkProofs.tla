--------------------------- MODULE PeerLinkProofs ---------------------------
(* Machine-checked proofs for PeerLink, for any number of connections and   *)
(* connectors: the registries and the transport cache never name a socket   *)
(* that nobody will clean up, and reconnects leave one live connection.     *)
EXTENDS PeerLink, TLAPS

IInv == TypeOK /\ RegistriesOwned /\ CacheSound /\ OneLiveInbound

LEMMA InitInv == Init => IInv
  BY ConstantAssumption
     DEF Init, IInv, TypeOK, RegistriesOwned, CacheSound, OneLiveInbound, Sock

\* What get_transport_to may put into the cache.
LEMMA TransportSound ==
    ASSUME IInv
    PROVE  /\ Transport \in Sock \cup {NoSock}
           /\ Transport \in {cache, nodeWs, clientWs}
           /\ cache # NoSock => Transport = cache
  BY DEF IInv, TypeOK, Transport, Sock

\* Using the transport keeps the invariant when nothing else is touched.
LEMMA CacheUseKeeps ==
    ASSUME IInv, UseTransport \/ UNCHANGED cache, UNCHANGED <<nodeWs, clientWs, inPc, inOld>>
    PROVE  CacheSound' /\ cache' \in Sock \cup {NoSock}
  <1>1. cache' = cache \/ (cache = NoSock /\ cache' \in {NoSock, nodeWs, clientWs})
    <2>1. CASE UseTransport
      BY <2>1 DEF UseTransport, Transport
    <2>2. CASE UNCHANGED cache
      BY <2>2
    <2>3. QED
      BY <2>1, <2>2
  <1>2. CASE cache' = cache
    BY <1>2 DEF IInv, TypeOK, CacheSound
  <1>3. CASE cache = NoSock /\ cache' \in {NoSock, nodeWs, clientWs}
    BY <1>3 DEF IInv, TypeOK, CacheSound, Sock
  <1>4. QED
    BY <1>1, <1>2, <1>3

\* The endpoint's steps.
LEMMA InboundKeeps ==
    ASSUME IInv, NEW c \in Inbound, InAccept(c) \/ InReplace(c) \/ Endpoint(c) \/ LexEnd(c)
    PROVE  IInv'
  <1> USE ConstantAssumption DEF IInv
  <1>0. c \in Sock /\ c # NoSock
    BY DEF Sock
  <1>1. CASE InAccept(c)
    <2>1. TypeOK'
      BY <1>0, <1>1 DEF InAccept, RegisterConnected, TypeOK, kaVars
    <2>2. RegistriesOwned' /\ CacheSound'
      BY <1>0, <1>1 DEF InAccept, TypeOK, RegistriesOwned, CacheSound
    <2>3. OneLiveInbound'
      BY <1>0, <1>1 DEF InAccept, TypeOK, OneLiveInbound, Sock
    <2>4. QED
      BY <2>1, <2>2, <2>3
  <1>2. CASE InReplace(c)
    <2>0. nodeWs \in Inbound /\ nodeWs \in Sock /\ nodeWs # c
      BY <1>0, <1>2 DEF InReplace, TypeOK, RegistriesOwned, Sock
    <2>1. TypeOK'
      BY <1>0, <1>2, <2>0 DEF InReplace, TypeOK, kaVars, table
    <2>2. RegistriesOwned'
      BY <1>0, <1>2 DEF InReplace, TypeOK, RegistriesOwned
    <2>3. CacheSound'
      BY <1>0, <1>2, <2>0 DEF InReplace, TypeOK, CacheSound
    <2>4. OneLiveInbound'
      BY <1>0, <1>2, <2>0 DEF InReplace, TypeOK, OneLiveInbound, Sock
    <2>5. QED
      BY <2>1, <2>2, <2>3, <2>4
  <1>3. CASE InReplaced(c)
    BY <1>0, <1>3 DEF InReplaced, RegisterConnected, TypeOK, RegistriesOwned, CacheSound, OneLiveInbound, kaVars
  <1>4. CASE InAck(c)
    <2>1. TypeOK' /\ RegistriesOwned' /\ OneLiveInbound'
      BY <1>0, <1>4 DEF InAck, TypeOK, RegistriesOwned, OneLiveInbound, kaVars, table, registry
    <2>2. CacheSound'
      BY <1>0, <1>4 DEF InAck, TypeOK, CacheSound, registry
    <2>3. QED
      BY <2>1, <2>2
  <1>5. CASE InEnd(c)
    <2>1. TypeOK'
      BY <1>0, <1>5 DEF InEnd, MarkUnreachable, TypeOK, kaVars, table
    <2>2. RegistriesOwned' /\ OneLiveInbound'
      BY <1>0, <1>5 DEF InEnd, TypeOK, RegistriesOwned, OneLiveInbound
    <2>3. CacheSound'
      BY <1>0, <1>5 DEF InEnd, TypeOK, CacheSound
    <2>4. QED
      BY <2>1, <2>2, <2>3
  <1>6. CASE LexEnd(c)
    <2>1. TypeOK'
      <3>1. alive' \in [Sock -> BOOLEAN]
        BY <1>0, <1>6 DEF LexEnd, TypeOK
      <3>2. QED
        BY <1>6, <3>1 DEF LexEnd, TypeOK, kaVars, table, registry
    <2>2. RegistriesOwned' /\ CacheSound' /\ OneLiveInbound'
      BY <1>0, <1>6 DEF LexEnd, TypeOK, RegistriesOwned, CacheSound, OneLiveInbound, registry, Sock
    <2>3. QED
      BY <2>1, <2>2
  <1>7. QED
    BY <1>1, <1>2, <1>3, <1>4, <1>5, <1>6 DEF Endpoint

\* Starting a connector registers no socket.
LEMMA StartKeeps ==
    ASSUME IInv, NEW k \in Connector, conPc[k] \in {"boot", "off"}, Start(k),
           UNCHANGED <<inPc, inOld>>, lexPc' \in [Inbound -> {"none", "sleeping", "waiting"}]
    PROVE  IInv'
  <1> USE DEF IInv
  <1>1. CacheSound' /\ cache' \in Sock \cup {NoSock}
    BY CacheUseKeeps DEF Start, LookAtTransport
  <1>2. TypeOK'
    BY <1>1 DEF Start, TypeOK, table
  <1>3. RegistriesOwned' /\ OneLiveInbound'
    BY DEF Start, TypeOK, RegistriesOwned, OneLiveInbound
  <1>4. QED
    BY <1>1, <1>2, <1>3

\* The finally clause leaves no client socket and a cache that is current.
LEMMA FinallyKeeps ==
    ASSUME IInv, NEW k \in Connector, Finally(k),
           NEW pc \in {"loop", "off"}, conPc' = [conPc EXCEPT ![k] = pc],
           kaPc' \in [Connector -> {"off", "sleep", "ping"}], UNCHANGED <<kaSock, kaDead>>
    PROVE  IInv'
  <1> USE ConstantAssumption DEF IInv
  <1>1. TypeOK'
    BY DEF Finally, MarkUnreachable, TypeOK, table, inVars, Sock
  <1>2. RegistriesOwned' /\ CacheSound'
    BY DEF Finally, TypeOK, RegistriesOwned, CacheSound, inVars
  <1>3. OneLiveInbound'
    BY DEF Finally, TypeOK, OneLiveInbound, inVars, Sock
  <1>4. QED
    BY <1>1, <1>2, <1>3

\* The connector's two tasks.
LEMMA ConnectorKeeps ==
    ASSUME IInv, NEW k \in Connector, ConnectLoop(k) \/ RemovePeer(k) \/ Keepalive(k)
    PROVE  IInv'
  <1> USE ConstantAssumption DEF IInv
  <1>0. k \in Sock /\ k # NoSock /\ k \notin Inbound
    BY DEF Sock
  <1>1. CASE Look(k)
    <2>1. CacheSound' /\ cache' \in Sock \cup {NoSock}
      BY <1>1, CacheUseKeeps DEF Look, LookAtTransport, inVars
    <2>2. TypeOK' /\ RegistriesOwned' /\ OneLiveInbound'
      BY <1>1, <2>1 DEF Look, TypeOK, RegistriesOwned, OneLiveInbound, table, inVars, kaVars
    <2>3. QED
      BY <2>1, <2>2
  <1>2. CASE DialSucceeds(k)
    <2>1. TypeOK' /\ RegistriesOwned' /\ CacheSound'
      BY <1>0, <1>2 DEF DialSucceeds, TypeOK, RegistriesOwned, CacheSound, table, inVars, kaVars
    <2>2. OneLiveInbound'
      BY <1>0, <1>2 DEF DialSucceeds, TypeOK, OneLiveInbound, inVars, Sock
    <2>3. QED
      BY <2>1, <2>2
  <1>3. CASE HandshakeAccepted(k)
    BY <1>0, <1>3 DEF HandshakeAccepted, RegisterConnected, TypeOK, RegistriesOwned, CacheSound,
                      OneLiveInbound, registry, inVars, kaVars
  <1>4. CASE HandshakeRefused(k)
    BY <1>0, <1>4 DEF HandshakeRefused, TypeOK, RegistriesOwned, CacheSound,
                      OneLiveInbound, registry, table, inVars, kaVars
  <1>5. CASE ConnectorEnd(k)
    BY <1>5, FinallyKeeps DEF ConnectorEnd, TypeOK, kaVars
  <1>6. CASE RemovePeer(k)
    <2>1. kaPc' \in [Connector -> {"off", "sleep", "ping"}]
      BY <1>6 DEF RemovePeer, TypeOK
    <2>2. CASE Finally(k)
      BY <1>6, <2>1, <2>2, FinallyKeeps DEF RemovePeer
    <2>3. CASE conPc[k] \in {"deferred", "loop"} /\ UNCHANGED <<registry, table, alive, inVars>>
      BY <1>6, <2>1, <2>3 DEF RemovePeer, TypeOK, RegistriesOwned, CacheSound, OneLiveInbound,
                              registry, table, inVars
    <2>4. QED
      BY <1>6, <2>2, <2>3 DEF RemovePeer
  <1>7. CASE KeepaliveNoTransport(k)
    <2>1. TypeOK'
      BY <1>0, <1>7 DEF KeepaliveNoTransport, MarkUnreachable, TypeOK, registry, inVars, kaVars
    <2>2. RegistriesOwned' /\ CacheSound' /\ OneLiveInbound'
      BY <1>0, <1>7 DEF KeepaliveNoTransport, TypeOK, RegistriesOwned, CacheSound, OneLiveInbound,
                        registry, inVars, Sock
    <2>3. QED
      BY <2>1, <2>2
  <1>8. CASE KeepalivePing(k)
    <2>1. CacheSound' /\ cache' \in Sock \cup {NoSock}
      BY <1>8, CacheUseKeeps DEF KeepalivePing, inVars
    <2>2. Transport \in Sock \cup {NoSock} /\ (quiet = "dead") \in BOOLEAN
      BY TransportSound
    <2>3. TypeOK'
      BY <1>8, <2>1, <2>2 DEF KeepalivePing, TypeOK, table, inVars
    <2>4. RegistriesOwned' /\ OneLiveInbound'
      BY <1>8 DEF KeepalivePing, RegistriesOwned, OneLiveInbound, inVars
    <2>5. QED
      BY <2>1, <2>3, <2>4
  <1>9. CASE KeepaliveDone(k)
    <2>1. TypeOK'
      BY <1>0, <1>9 DEF KeepaliveDone, MarkUnreachable, TypeOK, registry, table, inVars
    <2>2. RegistriesOwned' /\ CacheSound'
      BY <1>9 DEF KeepaliveDone, RegistriesOwned, CacheSound, registry, inVars
    <2>3. OneLiveInbound'
      BY <1>0, <1>9 DEF KeepaliveDone, TypeOK, OneLiveInbound, registry, inVars, Sock
    <2>4. QED
      BY <2>1, <2>2, <2>3
  <1>10. QED
    BY <1>1, <1>2, <1>3, <1>4, <1>5, <1>6, <1>7, <1>8, <1>9 DEF ConnectLoop, Keepalive

LEMMA NextKeeps == IInv /\ [Next]_vars => IInv'
  <1> SUFFICES ASSUME IInv, [Next]_vars PROVE IInv'
    OBVIOUS
  <1> USE DEF IInv
  <1>1. ASSUME NEW c \in Inbound, InAccept(c) \/ InReplace(c) \/ Endpoint(c) \/ LexEnd(c) PROVE IInv'
    BY <1>1, InboundKeeps
  <1>2. ASSUME NEW c \in Inbound, LexDial(c) PROVE IInv'
    <2>1. lexPc' \in [Inbound -> {"none", "sleeping", "waiting"}]
      BY <1>2 DEF LexDial, TypeOK
    <2>2. CASE UNCHANGED <<registry, table, alive, conPc, kaVars>>
      BY <1>2, <2>1, <2>2 DEF LexDial, TypeOK, RegistriesOwned, CacheSound, OneLiveInbound,
                              registry, table, kaVars
    <2>3. CASE \E k \in Connector : conPc[k] = "off" /\ Start(k)
      BY <1>2, <2>1, <2>3, StartKeeps DEF LexDial
    <2>4. QED
      BY <1>2, <2>2, <2>3 DEF LexDial
  <1>3. ASSUME NEW k \in Connector, StartConfigured(k) \/ ConnectTo(k) PROVE IInv'
    BY <1>3, StartKeeps DEF StartConfigured, ConnectTo, inVars, TypeOK
  <1>4. ASSUME NEW k \in Connector, ConnectLoop(k) \/ RemovePeer(k) \/ Keepalive(k) PROVE IInv'
    BY <1>4, ConnectorKeeps
  <1>5. ASSUME NEW s \in Sock, SocketCloses(s) PROVE IInv'
    <2>1. TypeOK' /\ RegistriesOwned' /\ CacheSound'
      BY <1>5 DEF SocketCloses, TypeOK, RegistriesOwned, CacheSound, registry, table, inVars, kaVars
    <2>2. OneLiveInbound'
      BY <1>5 DEF SocketCloses, TypeOK, OneLiveInbound, registry, inVars, Sock
    <2>3. QED
      BY <2>1, <2>2
  <1>6. CASE Send
    <2>1. CacheSound' /\ cache' \in Sock \cup {NoSock}
      BY <1>6, CacheUseKeeps DEF Send, inVars
    <2>2. QED
      BY <1>6, <2>1 DEF Send, TypeOK, RegistriesOwned, OneLiveInbound, table, inVars, kaVars
  <1>7. CASE Touch \/ Gossip \/ Sweep \/ Tick \/ UNCHANGED vars
    BY <1>7 DEF Touch, Gossip, Sweep, Tick, vars, TypeOK, RegistriesOwned, CacheSound,
                OneLiveInbound, registry, table, inVars, kaVars
  <1>8. QED
    BY <1>1, <1>2, <1>3, <1>4, <1>5, <1>6, <1>7 DEF Next

\* Every variable stays in its domain.
THEOREM TypeCorrect == Spec => []TypeOK
  <1>1. IInv => TypeOK
    BY DEF IInv
  <1>2. QED
    BY <1>1, InitInv, NextKeeps, PTL DEF Spec

\* However often the peer connects, is dialled or goes away: a registered socket
\* has an owner that takes it out again, the cached transport is registered or
\* about to be replaced, and one live connection that came in is left.
THEOREM RegistriesAreSound == Spec => []RegistriesSound
  <1>1. IInv => RegistriesSound
    BY DEF IInv, RegistriesSound
  <1>2. QED
    BY <1>1, InitInv, NextKeeps, PTL DEF Spec

=============================================================================
