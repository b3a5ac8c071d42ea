----------------------------- MODULE RpcProofs ------------------------------
(* Rpc keeps its types, and leaves neither a session nor a pending answer   *)
(* behind that nobody owns, for any mesh, any calls and any routes.         *)
EXTENDS Rpc, SequenceTheorems, FiniteSetTheorems, TLAPS

States == {"idle", "waiting", "ok", "error", "timeout", "noroute", "raised", "lost"}
Wires == [Node -> [Node -> Seq(Packet)]]

\* A path that visits no node twice.
Simple(path) == \A j, k \in DOMAIN path : path[j] = path[k] => j = k

\* A request that is not for the node it goes to is fresh from a caller; the
\* path of a packet for a relay has no loop, and its length and ttl go together.
Fresh(a, b, p) ==
    /\ p.type = "request" => \/ Dest[p.call] = b
                             \/ Origin[p.call] = a /\ p.ttl = Ttl /\ p.path = <<>>
    /\ p.type = "forwarded" => Simple(p.path) /\ p.ttl + Len(p.path) \in {Ttl, Ttl - 1}

\* A packet that node n may forward: n is the end of its path.
Ready(n, p) ==
    /\ p.ttl # 0 /\ p.path # <<>> /\ Last(p.path) = n /\ Simple(p.path)
    /\ p.ttl + Len(p.path) \in {Ttl + 1, Ttl}

\* Packets are only under way on connections that exist.
WireOK(w) ==
    /\ w \in Wires
    /\ \A a, b \in Node : w[a][b] # <<>> => Connected(a, b)
    /\ \A a, b \in Node : \A i \in DOMAIN w[a][b] : Fresh(a, b, w[a][b][i])

\* While a connection exists, both of its ends hold a socket of it.
PeersOK == \A a, b \in Node : Connected(a, b) => a \in peers[b] /\ b \in peers[a]

\* No packet is of call l; nothing at all is under way of it.
Absent(w, l) == \A a, b \in Node : \A i \in DOMAIN w[a][b] : w[a][b][i].call # l
Gone(l) == Absent(wire, l) /\ \A t \in running : t.call # l

\* Before its method is started a call is a request, from then on it is not:
\* x counts how often methods were started.
Told(p, x) == /\ p.type \in {"request", "forwarded"} => x[p.call] = 0
              /\ p.type = "response" => x[p.call] = 1

\* No two packets are of one call, and each tells where its call stands.
Fits(w, x) ==
    /\ \A a, b, c, d \in Node : \A i \in DOMAIN w[a][b], j \in DOMAIN w[c][d] :
          w[a][b][i].call = w[c][d][j].call => a = c /\ b = d /\ i = j
    /\ \A a, b \in Node : \A i \in DOMAIN w[a][b] : Told(w[a][b][i], x)

\* A call is in one place: on a connection or with the executor.
InOnePlace ==
    /\ Fits(wire, executed)
    /\ executed \in [Call -> {0, 1}]
    /\ \A t, u \in running : t.call = u.call => t = u
    /\ \A t \in running : Absent(wire, t.call) /\ executed[t.call] = 1

\* Nothing is left of a call that has its result, nor is there anything of one
\* that was not sent.
Settled ==
    \A l \in Call : /\ state[l] \in {"idle", "noroute", "ok"} => Gone(l)
                    /\ state[l] \in {"idle", "noroute"} => executed[l] = 0
                    /\ state[l] = "ok" => executed[l] = 1

CInv == InOnePlace /\ Settled

IInv == TypeOK /\ WireOK(wire) /\ PeersOK /\ SessionsReleased /\ PendingOwned

-----------------------------------------------------------------------------
(* What the helpers return                                                 *)

LEMMA PacketFields ==
    ASSUME NEW p \in Packet
    PROVE  /\ p.type \in {"request", "forwarded", "response", "error"}
           /\ p.call \in Call /\ p.path \in Seq(Node) /\ p.ttl \in 0..Ttl
  BY DEF Packet

LEMMA PathTypes ==
    ASSUME NEW path \in Seq(Node), NEW n \in Node
    PROVE  Extended(path, n) \in Seq(Node) /\ Back(path, n) \in Seq(Node)
  <1>1. Append(path, n) \in Seq(Node)
    OBVIOUS
  <1>2. path # <<>> => Front(path) \in Seq(Node)
    BY DEF Front
  <1>3. QED
    BY <1>1, <1>2 DEF Extended, Back

\* A packet on which node n has put itself at the end of the path.
Signed(p, n) == [p EXCEPT !.path = Append(@, n)]
SignedOnce(p, n) == [p EXCEPT !.path = Append(@, n), !.ttl = @ - 1]

LEMMA SignedFields ==
    ASSUME NEW p \in Packet, NEW n \in Node
    PROVE  /\ Signed(p, n) \in Packet /\ Signed(p, n).ttl = p.ttl
           /\ Signed(p, n).path = Append(p.path, n) /\ Signed(p, n).call = p.call
           /\ p.ttl # 0 => SignedOnce(p, n) \in Packet
           /\ SignedOnce(p, n).ttl = p.ttl - 1
           /\ SignedOnce(p, n).path = Append(p.path, n) /\ SignedOnce(p, n).call = p.call
  <1>1. p.path \in Seq(Node) /\ p.ttl \in 0..Ttl
    BY PacketFields
  <1>2. Append(p.path, n) \in Seq(Node) /\ (p.ttl # 0 => p.ttl - 1 \in 0..Ttl)
    BY <1>1, ConstantAssumption
  <1>3. QED
    BY <1>2 DEF Packet, Signed, SignedOnce

LEMMA OneMore ==
    ASSUME NEW path \in Seq(Node), NEW n \in Node, Simple(path),
           \A i \in DOMAIN path : path[i] # n
    PROVE  /\ Append(path, n) # <<>> /\ Last(Append(path, n)) = n
           /\ Len(Append(path, n)) = Len(path) + 1 /\ Simple(Append(path, n))
  BY DEF Last, Simple

LEMMA FirstOne ==
    ASSUME NEW n \in Node
    PROVE  /\ Append(<<>>, n) # <<>> /\ Last(Append(<<>>, n)) = n
           /\ Len(Append(<<>>, n)) = 1 /\ Simple(Append(<<>>, n))
  <1>1. Append(<<>>, n) = <<n>>
    OBVIOUS
  <1>2. <<n>> # <<>> /\ Last(<<n>>) = n /\ Len(<<n>>) = 1 /\ Simple(<<n>>)
    BY DEF Last, Simple
  <1>3. QED
    BY <1>1, <1>2

LEMMA HopType ==
    ASSUME TypeOK, NEW n \in Node, NEW d \in Node, NextHop(n, d) # NoNode
    PROVE  NextHop(n, d) \in peers[n] /\ NextHop(n, d) \in Node
  BY DEF TypeOK, NextHop

LEMMA SentOK ==
    ASSUME NEW w, WireOK(w), NEW n \in Node, NEW m \in Node, NEW p \in Packet, Fresh(n, m, p)
    PROVE  WireOK(Sent(w, n, m, p))
  <1>1. CASE ~Connected(n, m)
    BY <1>1 DEF Sent
  <1>2. CASE Connected(n, m)
    <2> DEFINE v == [w EXCEPT ![n][m] = Append(@, p)]
    <2>1. w[n][m] \in Seq(Packet)
      BY DEF WireOK, Wires
    <2>2. Append(w[n][m], p) \in Seq(Packet)
      BY <2>1
    <2>3. v \in Wires
      BY <2>2 DEF WireOK, Wires
    <2>4. \A a, b \in Node : v[a][b] = IF a = n /\ b = m THEN Append(w[n][m], p) ELSE w[a][b]
      BY DEF WireOK, Wires
    <2>5. \A a, b \in Node : v[a][b] # <<>> => Connected(a, b)
      BY <1>2, <2>4 DEF WireOK
    <2>6. \A i \in DOMAIN Append(w[n][m], p) : Fresh(n, m, Append(w[n][m], p)[i])
      <3> SUFFICES ASSUME NEW i \in DOMAIN Append(w[n][m], p)
                   PROVE  Fresh(n, m, Append(w[n][m], p)[i])
        OBVIOUS
      <3>1. CASE i \in DOMAIN w[n][m]
        <4>1. Append(w[n][m], p)[i] = w[n][m][i]
          BY <2>1, <3>1
        <4>2. QED
          BY <3>1, <4>1 DEF WireOK
      <3>2. CASE i \notin DOMAIN w[n][m]
        <4>1. Append(w[n][m], p)[i] = p
          BY <2>1, <3>2
        <4>2. QED
          BY <4>1
      <3>3. QED
        BY <3>1, <3>2
    <2>7. \A a, b \in Node : \A i \in DOMAIN v[a][b] : Fresh(a, b, v[a][b][i])
      <3> SUFFICES ASSUME NEW a \in Node, NEW b \in Node, NEW i \in DOMAIN v[a][b]
                   PROVE  Fresh(a, b, v[a][b][i])
        OBVIOUS
      <3> HIDE DEF v
      <3>1. CASE a = n /\ b = m
        BY <2>4, <2>6, <3>1
      <3>2. CASE ~(a = n /\ b = m)
        BY <2>4, <3>2 DEF WireOK
      <3>3. QED
        BY <3>1, <3>2
    <2>8. Sent(w, n, m, p) = v
      BY <1>2 DEF Sent
    <2> HIDE DEF v
    <2>9. QED
      BY <2>3, <2>5, <2>7, <2>8 DEF WireOK
  <1>3. QED
    BY <1>1, <1>2

LEMMA TakenOK ==
    ASSUME WireOK(wire), NEW a \in Node, NEW b \in Node, Arrives(a, b)
    PROVE  /\ WireOK(Taken(a, b))
           /\ Head(wire[a][b]) \in Packet /\ Fresh(a, b, Head(wire[a][b]))
           /\ Connected(a, b)
  <1> DEFINE v == Taken(a, b)
  <1>0. wire[a][b] \in Seq(Packet) /\ wire[a][b] # <<>>
    BY DEF WireOK, Wires, Arrives
  <1>1. Head(wire[a][b]) \in Packet /\ Tail(wire[a][b]) \in Seq(Packet)
        /\ 1 \in DOMAIN wire[a][b] /\ Head(wire[a][b]) = wire[a][b][1]
    BY <1>0
  <1>2. v \in Wires
    BY <1>1 DEF WireOK, Wires, Taken
  <1>3. \A c, d \in Node : v[c][d] = IF c = a /\ d = b THEN Tail(wire[a][b]) ELSE wire[c][d]
    BY DEF WireOK, Wires, Taken
  <1>4. Connected(a, b)
    BY <1>0 DEF WireOK
  <1>5. \A i \in DOMAIN Tail(wire[a][b]) : i + 1 \in DOMAIN wire[a][b]
                                          /\ Tail(wire[a][b])[i] = wire[a][b][i + 1]
    BY <1>0
  <1> HIDE DEF v
  <1>6. \A c, d \in Node : v[c][d] # <<>> => Connected(c, d)
    BY <1>3, <1>4 DEF WireOK
  <1>7. \A c, d \in Node : \A i \in DOMAIN v[c][d] : Fresh(c, d, v[c][d][i])
    <2> SUFFICES ASSUME NEW c \in Node, NEW d \in Node, NEW i \in DOMAIN v[c][d]
                 PROVE  Fresh(c, d, v[c][d][i])
      OBVIOUS
    <2>1. CASE c = a /\ d = b
      <3>1. i \in DOMAIN Tail(wire[a][b]) /\ v[c][d][i] = Tail(wire[a][b])[i]
        BY <1>3, <2>1
      <3>2. QED
        BY <1>5, <2>1, <3>1 DEF WireOK
    <2>2. CASE ~(c = a /\ d = b)
      BY <1>3, <2>2 DEF WireOK
    <2>3. QED
      BY <2>1, <2>2
  <1>8. WireOK(v)
    BY <1>2, <1>6, <1>7 DEF WireOK
  <1>9. Fresh(a, b, Head(wire[a][b]))
    BY <1>1 DEF WireOK
  <1>10. QED
    BY <1>1, <1>4, <1>8, <1>9 DEF v

\* A packet that may still travel is forwarded as a packet; as a request only
\* to its destination.
LEMMA ForwardedOK ==
    ASSUME TypeOK, NEW w, WireOK(w), NEW n \in Node, NEW p \in Packet, Ready(n, p)
    PROVE  WireOK(Forwarded(w, n, p))
  <1> DEFINE hop == NextHop(n, Dest[p.call])
             q == Relayed(n, p)
  <1>0. Dest[p.call] \in Node
    BY ConstantAssumption, PacketFields
  <1>1. CASE hop = NoNode
    BY <1>1 DEF Forwarded
  <1>2. CASE hop # NoNode
    <2>1. hop \in Node
      BY <1>0, <1>2, HopType
    <2>2. q \in Packet /\ q.call = p.call
          /\ q.type = (IF Dest[p.call] \in peers[n] THEN p.type ELSE "forwarded")
          /\ q.path = p.path /\ q.ttl = p.ttl - 1
      <3>1. Extended(p.path, n) = p.path
        BY DEF Extended, Ready
      <3>2. p.ttl - 1 \in 0..Ttl
        BY ConstantAssumption, PacketFields DEF Ready
      <3>3. QED
        BY <3>1, <3>2, PacketFields DEF Relayed, Packet
    <2>3. Fresh(n, hop, q)
      <3>1. Simple(q.path) /\ q.ttl + Len(q.path) \in {Ttl, Ttl - 1}
        <4>1. Len(p.path) \in Nat /\ p.ttl \in Nat /\ Ttl \in Nat
          BY PacketFields, ConstantAssumption
        <4>2. QED
          BY <2>2, <4>1 DEF Ready
      <3>2. QED
        BY <2>2, <3>1 DEF Fresh, NextHop
    <2>4. Forwarded(w, n, p) = Sent(w, n, hop, q)
      BY <1>2 DEF Forwarded
    <2> HIDE DEF hop, q
    <2>5. QED
      BY <2>1, <2>2, <2>3, <2>4, SentOK
  <1>3. QED
    BY <1>1, <1>2

LEMMA RoutedBackOK ==
    ASSUME TypeOK, NEW w, WireOK(w), NEW n \in Node, NEW p \in Packet,
           p.type \in {"response", "error"}
    PROVE  WireOK(RoutedBack(w, n, p))
  <1> DEFINE path == Back(p.path, n)
             q == [p EXCEPT !.path = path]
  <1>1. path \in Seq(Node)
    BY PathTypes, PacketFields
  <1>2. q \in Packet /\ q.type = p.type
    BY <1>1 DEF Packet
  <1>3. CASE Last(path) \notin peers[n]
    BY <1>3 DEF RoutedBack
  <1>4. CASE Last(path) \in peers[n]
    <2>1. Last(path) \in Node
      BY <1>4 DEF TypeOK
    <2>2. Fresh(n, Last(path), q)
      BY <1>2 DEF Fresh
    <2>3. RoutedBack(w, n, p) = Sent(w, n, Last(path), q)
      BY <1>4 DEF RoutedBack
    <2> HIDE DEF path, q
    <2>4. QED
      BY <1>2, <2>1, <2>2, <2>3, SentOK
  <1>5. QED
    BY <1>3, <1>4

-----------------------------------------------------------------------------
(* The invariant                                                           *)

LEMMA InitInv == Init => IInv
  <1> SUFFICES ASSUME Init PROVE IInv
    OBVIOUS
  <1> USE ConstantAssumption DEF Init
  <1>1. TypeOK
    BY DEF TypeOK
  <1>2. WireOK(wire)
    BY DEF WireOK, Wires
  <1>3. PeersOK /\ SessionsReleased /\ PendingOwned
    BY DEF PeersOK, SessionsReleased, PendingOwned, Connected, Dialled
  <1>4. QED
    BY <1>1, <1>2, <1>3 DEF IInv

\* Steps that leave the connections alone.
LEMMA NetKeeps ==
    ASSUME IInv, UNCHANGED net, WireOK(wire')
    PROVE  WireOK(wire)' /\ PeersOK' /\ wire' \in Wires
  BY DEF IInv, net, WireOK, PeersOK, Connected, Fresh

LEMMA CallNodeKeeps ==
    ASSUME IInv, NEW l \in Call, CallNode(l)
    PROVE  IInv'
  <1> DEFINE n == Origin[l]
             p == Reply("request", l, <<n>>)
  <1>0. n \in Node /\ <<n>> \in Seq(Node)
    BY ConstantAssumption
  <1>1. p \in Packet /\ Ready(n, p)
    <2>1. p \in Packet /\ p.ttl = Ttl /\ p.path = <<n>>
      BY <1>0, ConstantAssumption DEF Reply, Packet
    <2>2. Last(<<n>>) = n /\ Len(<<n>>) = 1 /\ <<n>> # <<>> /\ Simple(<<n>>)
      BY DEF Last, Simple
    <2>3. QED
      BY <2>1, <2>2, ConstantAssumption DEF Ready
  <1>2. WireOK(wire')
    <2>1. WireOK(Forwarded(wire, n, p))
      BY <1>0, <1>1, ForwardedOK DEF IInv
    <2>2. QED
      BY <2>1 DEF CallNode, IInv
  <1>3. UNCHANGED net
    BY DEF CallNode
  <1>4. WireOK(wire)' /\ PeersOK' /\ wire' \in Wires
    BY <1>2, <1>3, NetKeeps
  <1>5. TypeOK'
    <2>1. sessions' \subseteq Call /\ state' \in [Call -> States]
      BY DEF CallNode, IInv, TypeOK, States
    <2>2. UNCHANGED <<net, busy, wsPending, running, executed>>
      BY DEF CallNode
    <2> HIDE DEF n, p
    <2>3. QED
      BY <1>4, <2>1, <2>2 DEF IInv, TypeOK, net, Wires, States
  <1>6. SessionsReleased'
    BY DEF CallNode, IInv, TypeOK, SessionsReleased, MayStart
  <1>7. PendingOwned'
    BY DEF CallNode, IInv, PendingOwned, net
  <1>8. QED
    BY <1>4, <1>5, <1>6, <1>7 DEF IInv

LEMMA CallClientKeeps ==
    ASSUME IInv, NEW l \in Call, CallClient(l)
    PROVE  IInv'
  <1> DEFINE n == Origin[l]
             p == Reply("request", l, <<>>)
  <1>0. n \in Node /\ <<>> \in Seq(Node)
    BY ConstantAssumption
  <1>1. p \in Packet /\ p.type = "request" /\ p.call = l /\ p.ttl = Ttl /\ p.path = <<>>
    BY <1>0, ConstantAssumption DEF Reply, Packet
  <1>2. WireOK(wire')
    <2>1. ASSUME NEW m \in peers[n], wire' = Sent(wire, n, m, p) PROVE WireOK(wire')
      <3>1. m \in Node
        BY <1>0 DEF IInv, TypeOK
      <3>2. Fresh(n, m, p)
        BY <1>1 DEF Fresh
      <3> HIDE DEF p
      <3>3. QED
        BY <1>0, <1>1, <2>1, <3>1, <3>2, SentOK DEF IInv
    <2>2. QED
      BY <2>1 DEF CallClient, IInv
  <1>3. UNCHANGED net
    BY DEF CallClient
  <1>4. WireOK(wire)' /\ PeersOK' /\ wire' \in Wires
    BY <1>2, <1>3, NetKeeps
  <1>5. TypeOK'
    <2>1. sessions' \subseteq Call /\ state' \in [Call -> States]
      BY DEF CallClient, IInv, TypeOK, States
    <2>2. UNCHANGED <<net, busy, wsPending, running, executed>>
      BY DEF CallClient
    <2> HIDE DEF n, p
    <2>3. QED
      BY <1>4, <2>1, <2>2 DEF IInv, TypeOK, net, Wires, States
  <1>6. SessionsReleased'
    BY DEF CallClient, IInv, TypeOK, SessionsReleased, MayStart
  <1>7. PendingOwned'
    BY DEF CallClient, IInv, PendingOwned, net
  <1>8. QED
    BY <1>4, <1>5, <1>6, <1>7 DEF IInv

LEMMA TimeoutKeeps ==
    ASSUME IInv, NEW l \in Call, Timeout(l)
    PROVE  IInv'
  <1>1. WireOK(wire)' /\ PeersOK' /\ wire' \in Wires
    BY NetKeeps DEF Timeout, IInv
  <1>2. TypeOK'
    BY DEF Timeout, IInv, TypeOK, net
  <1>3. SessionsReleased' /\ PendingOwned'
    BY DEF Timeout, IInv, TypeOK, SessionsReleased, PendingOwned, net
  <1>4. QED
    BY <1>1, <1>2, <1>3 DEF IInv

LEMMA StartTypes ==
    ASSUME TypeOK, NEW a \in Node, NEW b \in Node, NEW l \in Call, NEW path \in Seq(Node),
           Start(a, b, l, path)
    PROVE  /\ running' \subseteq [call : Call, path : Seq(Node)]
           /\ executed' \in [Call -> Nat]
           /\ busy' \in [Node -> [Node -> Call \cup {NoCall}]]
  BY DEF TypeOK, Start

LEMMA OnRequestKeeps ==
    ASSUME IInv, NEW a \in Node, NEW b \in Node, OnRequest(a, b)
    PROVE  IInv'
  <1> DEFINE p == Head(wire[a][b])
  <1>1. WireOK(Taken(a, b)) /\ p \in Packet
    BY TakenOK DEF OnRequest, IInv
  <1>2. p.call \in Call /\ p.path \in Seq(Node)
    BY <1>1, PacketFields
  <1>3. WireOK(wire)' /\ PeersOK' /\ wire' \in Wires
    BY <1>1, NetKeeps DEF OnRequest
  <1>4. Start(a, b, p.call, p.path)
    BY DEF OnRequest
  <1>5. /\ running' \subseteq [call : Call, path : Seq(Node)]
        /\ executed' \in [Call -> Nat]
        /\ busy' \in [Node -> [Node -> Call \cup {NoCall}]]
    BY <1>2, <1>4, StartTypes DEF IInv
  <1>6. TypeOK'
    BY <1>3, <1>5 DEF OnRequest, IInv, TypeOK, net, Wires
  <1>7. SessionsReleased' /\ PendingOwned'
    BY DEF OnRequest, IInv, SessionsReleased, PendingOwned, net
  <1>8. QED
    BY <1>3, <1>6, <1>7 DEF IInv

LEMMA OnRemoteRequestKeeps ==
    ASSUME IInv, NEW a \in Node, NEW b \in Node, OnRemoteRequest(a, b)
    PROVE  IInv'
  <1> DEFINE p == Head(wire[a][b])
             q == SignedOnce(p, b)
             e == Reply("error", p.call, <<>>)
  <1>1. WireOK(Taken(a, b)) /\ p \in Packet /\ Fresh(a, b, p) /\ Connected(a, b)
    BY TakenOK DEF OnRemoteRequest, IInv
  <1>2. p.call \in Call /\ p.path \in Seq(Node) /\ p.ttl \in 0..Ttl
    BY <1>1, PacketFields
  <1>3. Origin[p.call] = a /\ p.ttl = Ttl /\ p.path = <<>>
    BY <1>1 DEF OnRemoteRequest, Fresh
  <1>4. q \in Packet /\ Ready(b, q)
    <2>1. p.ttl # 0
      BY <1>3, ConstantAssumption
    <2>3. /\ Append(<<>>, b) # <<>> /\ Last(Append(<<>>, b)) = b
          /\ Len(Append(<<>>, b)) = 1 /\ Simple(Append(<<>>, b))
      BY FirstOne
    <2> HIDE DEF p
    <2>4. q \in Packet /\ q.path = Append(p.path, b) /\ q.ttl = p.ttl - 1
      <3>1. p \in Packet
        BY <1>1
      <3>2. QED
        BY <2>1, <3>1, SignedFields, Zenon
    <2> HIDE DEF q
    <2>5. QED
      BY <1>3, <2>3, <2>4, ConstantAssumption DEF Ready
  <1>5. WireOK(wire')
    <2>1. WireOK(Sent(Taken(a, b), b, a, e))
      <3>1. e \in Packet /\ e.type = "error"
        BY <1>2, ConstantAssumption DEF Reply, Packet
      <3>2. Fresh(b, a, e)
        BY <3>1 DEF Fresh
      <3> HIDE DEF e
      <3>3. QED
        BY <1>1, <3>1, <3>2, SentOK
    <2>2. WireOK(Forwarded(Taken(a, b), b, q))
      <3> HIDE DEF q
      <3>1. QED
        BY <1>1, <1>4, ForwardedOK DEF IInv
    <2>3. QED
      BY <2>1, <2>2 DEF OnRemoteRequest, SignedOnce
  <1>6. WireOK(wire)' /\ PeersOK' /\ wire' \in Wires
    BY <1>5, NetKeeps DEF OnRemoteRequest
  <1>7. /\ wsPending' \in [Node -> SUBSET Call]
        /\ \A n \in Node : wsPending'[n] \subseteq wsPending[n] \cup (IF n = b THEN {p.call} ELSE {})
    <2>1. wsPending' = wsPending \/ wsPending' = [wsPending EXCEPT ![b] = @ \cup {p.call}]
      BY DEF OnRemoteRequest
    <2> DEFINE l == p.call
    <2>2. l \in Call /\ wsPending \in [Node -> SUBSET Call]
      BY <1>2 DEF IInv, TypeOK
    <2>3. wsPending' = wsPending \/ wsPending' = [wsPending EXCEPT ![b] = @ \cup {l}]
      BY <2>1
    <2> HIDE DEF l
    <2>4. wsPending' \in [Node -> SUBSET Call]
      BY <2>2, <2>3
    <2>5. \A n \in Node : wsPending'[n] \subseteq wsPending[n] \cup (IF n = b THEN {l} ELSE {})
      BY <2>2, <2>3
    <2>6. QED
      BY <2>4, <2>5 DEF l
  <1>8. TypeOK'
    <2>1. UNCHANGED <<net, busy, state, sessions, running, executed>>
      BY DEF OnRemoteRequest
    <2>2. wsPending' \in [Node -> SUBSET Call]
      BY <1>7
    <2>3. wire' \in [Node -> [Node -> Seq(Packet)]]
      BY <1>6 DEF Wires
    <2> HIDE DEF p, q, e
    <2>4. QED
      BY <2>1, <2>2, <2>3 DEF IInv, TypeOK, net
  <1>9. SessionsReleased'
    BY DEF OnRemoteRequest, IInv, SessionsReleased
  <1>10. PendingOwned'
    <2>1. a \in peers[b]
      BY <1>1 DEF IInv, PeersOK
    <2>2. peers' = peers
      BY DEF OnRemoteRequest, net
    <2>3. QED
      BY <1>3, <1>7, <2>1, <2>2 DEF IInv, PendingOwned
  <1>11. QED
    BY <1>6, <1>8, <1>9, <1>10 DEF IInv

LEMMA OnForwardedKeeps ==
    ASSUME IInv, NEW a \in Node, NEW b \in Node, OnForwarded(a, b)
    PROVE  IInv'
  <1> DEFINE p == Head(wire[a][b])
             q == Signed(p, b)
  <1>1. WireOK(Taken(a, b)) /\ p \in Packet /\ Fresh(a, b, p)
    BY TakenOK DEF OnForwarded, IInv
  <1>2. p.call \in Call /\ p.path \in Seq(Node) /\ p.ttl \in 0..Ttl
    BY <1>1, PacketFields
  <1>3. q \in Packet /\ q.ttl = p.ttl /\ q.path = Append(p.path, b)
    <2> HIDE DEF p
    <2>1. QED
      BY <1>1, SignedFields, Zenon
  <1> q.path \in Seq(Node)
    BY <1>3, PacketFields
  <1>4. UNCHANGED <<net, state, sessions, wsPending>>
    BY DEF OnForwarded
  <1>5. /\ WireOK(wire')
        /\ running' \subseteq [call : Call, path : Seq(Node)]
        /\ executed' \in [Call -> Nat]
        /\ busy' \in [Node -> [Node -> Call \cup {NoCall}]]
    <2>1. CASE wire' = Taken(a, b) /\ UNCHANGED <<busy, running, executed>>
      BY <1>1, <2>1 DEF IInv, TypeOK
    <2>2. CASE wire' = Taken(a, b) /\ Start(a, b, p.call, q.path)
      <3> HIDE DEF p, q
      <3>1. QED
        BY <1>1, <1>2, <1>3, <2>2, StartTypes DEF IInv
    <2>3. CASE /\ ~Dropped(p, b)
               /\ wire' = Forwarded(Taken(a, b), b, q)
               /\ UNCHANGED <<busy, running, executed>>
      <3>1. Ready(b, q)
        <4>1. q.ttl # 0 /\ \A i \in DOMAIN p.path : p.path[i] # b
          BY <1>3, <2>3 DEF Dropped
        <4>2. Simple(p.path) /\ p.ttl + Len(p.path) \in {Ttl, Ttl - 1}
          BY <1>1 DEF Fresh, OnForwarded
        <4>3. q.path = Append(p.path, b)
          BY <1>3
        <4>4. /\ q.path # <<>> /\ Last(q.path) = b /\ Len(q.path) = Len(p.path) + 1
              /\ Simple(q.path)
          <5> HIDE DEF p, q
          <5>1. QED
            BY <1>2, <4>1, <4>2, <4>3, OneMore
        <4>5. q.ttl + Len(q.path) \in {Ttl + 1, Ttl}
          <5> HIDE DEF p, q
          <5>1. Len(p.path) \in Nat /\ p.ttl \in Nat /\ q.ttl = p.ttl /\ Ttl \in Nat
            BY <1>2, <1>3, ConstantAssumption
          <5>2. Len(q.path) = Len(p.path) + 1
            BY <4>4
          <5>3. QED
            BY <4>2, <5>1, <5>2
        <4> HIDE DEF p, q
        <4>6. QED
          BY <4>1, <4>4, <4>5 DEF Ready
      <3> HIDE DEF p, q
      <3>2. WireOK(Forwarded(Taken(a, b), b, q))
        BY <1>1, <1>3, <3>1, ForwardedOK DEF IInv
      <3>3. QED
        BY <2>3, <3>2 DEF IInv, TypeOK
    <2>4. QED
      BY <2>1, <2>2, <2>3 DEF OnForwarded, Signed
  <1>6. WireOK(wire)' /\ PeersOK' /\ wire' \in Wires
    BY <1>4, <1>5, NetKeeps
  <1>7. TypeOK'
    BY <1>4, <1>5, <1>6 DEF IInv, TypeOK, net, Wires
  <1>8. SessionsReleased' /\ PendingOwned'
    BY <1>4 DEF IInv, SessionsReleased, PendingOwned, net
  <1>9. QED
    BY <1>6, <1>7, <1>8 DEF IInv

LEMMA OnReplyKeeps ==
    ASSUME IInv, NEW a \in Node, NEW b \in Node, OnReply(a, b)
    PROVE  IInv'
  <1> DEFINE p == Head(wire[a][b])
  <1>1. WireOK(Taken(a, b)) /\ p \in Packet
    BY TakenOK DEF OnReply, IInv
  <1>2. p.call \in Call /\ Origin[p.call] \in Node
    BY <1>1, PacketFields, ConstantAssumption
  <1>3. UNCHANGED <<net, busy, running, executed>> /\ p.type \in {"response", "error"}
    BY DEF OnReply
  <1>4. WireOK(wire')
    <2>1. WireOK(Sent(Taken(a, b), b, Origin[p.call], p))
      <3>1. Fresh(b, Origin[p.call], p)
        BY <1>3 DEF Fresh
      <3> HIDE DEF p
      <3>2. QED
        BY <1>1, <1>2, <3>1, SentOK
    <2>2. WireOK(RoutedBack(Taken(a, b), b, p))
      <3> HIDE DEF p
      <3>1. QED
        BY <1>1, <1>3, RoutedBackOK DEF IInv
    <2>3. QED
      BY <1>1, <2>1, <2>2 DEF OnReply
  <1>5. WireOK(wire)' /\ PeersOK' /\ wire' \in Wires
    BY <1>3, <1>4, NetKeeps
  <1>6. /\ wsPending' \in [Node -> SUBSET Call]
        /\ \A n \in Node : wsPending'[n] \subseteq wsPending[n]
    <2> DEFINE l == p.call
    <2>1. wsPending' = wsPending \/ wsPending' = [wsPending EXCEPT ![b] = @ \ {l}]
      BY DEF OnReply
    <2>2. wsPending \in [Node -> SUBSET Call]
      BY DEF IInv, TypeOK
    <2> HIDE DEF l
    <2>3. QED
      BY <2>1, <2>2
  <1>7. /\ state' \in [Call -> States] /\ sessions' \subseteq sessions
        /\ \A l \in sessions' : state'[l] = state[l]
    <2>1. CASE UNCHANGED <<state, sessions>>
      BY <2>1 DEF IInv, TypeOK, States
    <2>2. CASE Resolve(p)
      <3> DEFINE l == p.call
      <3>1. state' \in [Call -> States]
        BY <1>2, <2>2 DEF Resolve, IInv, TypeOK, States
      <3>2. sessions' = sessions \ {l} /\ \A k \in Call : k # l => state'[k] = state[k]
        BY <2>2 DEF Resolve, IInv, TypeOK
      <3>3. QED
        BY <3>1, <3>2 DEF IInv, TypeOK
    <2>3. QED
      BY <2>1, <2>2 DEF OnReply
  <1> HIDE DEF p
  <1>8. TypeOK'
    <2>1. wire' \in [Node -> [Node -> Seq(Packet)]]
      BY <1>5 DEF Wires
    <2>2. QED
      BY <1>3, <1>6, <1>7, <2>1 DEF IInv, TypeOK, net, States
  <1>9. SessionsReleased'
    BY <1>7 DEF IInv, SessionsReleased
  <1>10. PendingOwned'
    BY <1>3, <1>6 DEF IInv, PendingOwned, net
  <1>11. QED
    BY <1>5, <1>8, <1>9, <1>10 DEF IInv

LEMMA FinishKeeps ==
    ASSUME IInv, NEW t \in running, Finish(t)
    PROVE  IInv'
  <1> DEFINE n == Dest[t.call]
  <1>1. t.call \in Call /\ t.path \in Seq(Node)
    BY DEF IInv, TypeOK
  <1>2. n \in Node /\ Origin[t.call] \in Node
    BY <1>1, ConstantAssumption
  <1>3. WireOK(wire')
    <2>1. PICK type \in {"response", "error"} :
            wire' = IF t.path # <<>> THEN RoutedBack(wire, n, Reply(type, t.call, t.path))
                    ELSE IF Origin[t.call] \in peers[n]
                         THEN Sent(wire, n, Origin[t.call], Reply(type, t.call, t.path))
                         ELSE wire
      BY DEF Finish
    <2> DEFINE p == Reply(type, t.call, t.path)
    <2>2. p \in Packet /\ p.type \in {"response", "error"}
      BY <1>1, ConstantAssumption DEF Reply, Packet
    <2>3. Fresh(n, Origin[t.call], p)
      BY <2>2 DEF Fresh
    <2> HIDE DEF p, n
    <2>4. WireOK(RoutedBack(wire, n, p))
      BY <1>2, <2>2, RoutedBackOK DEF IInv
    <2>5. WireOK(Sent(wire, n, Origin[t.call], p))
      BY <1>2, <2>2, <2>3, SentOK DEF IInv
    <2>6. QED
      BY <2>1, <2>4, <2>5 DEF IInv, p
  <1>4. UNCHANGED <<net, state, sessions, wsPending, executed>>
    BY DEF Finish
  <1>5. WireOK(wire)' /\ PeersOK' /\ wire' \in Wires
    BY <1>3, <1>4, NetKeeps
  <1>6. busy' \in [Node -> [Node -> Call \cup {NoCall}]] /\ running' \subseteq running
    BY DEF Finish, IInv, TypeOK
  <1>7. TypeOK'
    BY <1>4, <1>5, <1>6 DEF IInv, TypeOK, net, Wires
  <1>8. SessionsReleased' /\ PendingOwned'
    BY <1>4 DEF IInv, SessionsReleased, PendingOwned, net
  <1>9. QED
    BY <1>5, <1>7, <1>8 DEF IInv

LEMMA SweepKeeps ==
    ASSUME IInv, NEW n \in Node, SweepPending(n)
    PROVE  IInv'
  <1>1. UNCHANGED <<net, wire, busy, state, sessions, running, executed>>
    BY DEF SweepPending
  <1>2. WireOK(wire)' /\ PeersOK' /\ wire' \in Wires
    BY <1>1, NetKeeps DEF IInv
  <1>3. /\ wsPending' \in [Node -> SUBSET Call]
        /\ \A m \in Node : wsPending'[m] \subseteq wsPending[m]
    BY DEF SweepPending, IInv, TypeOK
  <1>4. TypeOK' /\ SessionsReleased' /\ PendingOwned'
    BY <1>1, <1>3 DEF IInv, TypeOK, SessionsReleased, PendingOwned, net
  <1>5. QED
    BY <1>2, <1>4 DEF IInv

LEMMA RouteKeeps ==
    ASSUME IInv, NEW n \in Node, NEW d \in Node, NEW v \in Node \cup {NoNode},
           RouteChange(n, d, v)
    PROVE  IInv'
  <1>1. WireOK(wire)' /\ PeersOK'
    BY DEF RouteChange, IInv, WireOK, PeersOK, Connected, Fresh
  <1>2. TypeOK'
    <2>1. changes' \in 0..MaxChanges
      BY ConstantAssumption DEF RouteChange, IInv, TypeOK
    <2>2. route' \in [Node -> [Node -> Node \cup {NoNode}]]
      BY DEF RouteChange, IInv, TypeOK
    <2>3. QED
      BY <2>1, <2>2 DEF RouteChange, IInv, TypeOK
  <1>3. SessionsReleased' /\ PendingOwned'
    BY DEF RouteChange, IInv, SessionsReleased, PendingOwned
  <1>4. QED
    BY <1>1, <1>2, <1>3 DEF IInv

LEMMA NoticeKeeps ==
    ASSUME IInv, NEW n \in Node, NEW m \in Node, Notice(n, m)
    PROVE  IInv'
  <1>1. WireOK(wire)'
    BY DEF Notice, IInv, WireOK, Connected, Fresh
  <1>2. PeersOK'
    BY DEF Notice, IInv, TypeOK, PeersOK, Connected
  <1>3. TypeOK'
    <2>1. state' \in [Call -> States] /\ sessions' \subseteq Call
      BY DEF Notice, IInv, TypeOK, States
    <2>2. peers' \in [Node -> SUBSET Node] /\ wsPending' \in [Node -> SUBSET Call]
      BY DEF Notice, IInv, TypeOK
    <2>3. QED
      BY <2>1, <2>2 DEF Notice, IInv, TypeOK, States
  <1>4. SessionsReleased'
    BY DEF Notice, IInv, TypeOK, SessionsReleased
  <1>5. PendingOwned'
    BY DEF Notice, IInv, TypeOK, PendingOwned
  <1>6. QED
    BY <1>1, <1>2, <1>3, <1>4, <1>5 DEF IInv

LEMMA LinkDownKeeps ==
    ASSUME IInv, NEW a \in Node, NEW b \in Node, LinkDown(a, b)
    PROVE  IInv'
  <1>1. a # b
    BY ConstantAssumption DEF LinkDown, IInv, TypeOK
  <1>2. \A c, d \in Node : wire'[c][d] = IF (c = a /\ d = b) \/ (c = b /\ d = a)
                                             THEN <<>> ELSE wire[c][d]
    <2>1. wire' = [wire EXCEPT ![a][b] = <<>>, ![b][a] = <<>>]
      BY DEF LinkDown
    <2>2. wire \in [Node -> [Node -> Seq(Packet)]]
      BY DEF IInv, TypeOK
    <2>3. \A c \in Node : wire'[c] = IF c = a THEN [wire[a] EXCEPT ![b] = <<>>]
                                     ELSE IF c = b THEN [wire[b] EXCEPT ![a] = <<>>]
                                     ELSE wire[c]
      BY <1>1, <2>1, <2>2
    <2>4. \A c \in Node : wire[c] \in [Node -> Seq(Packet)]
      BY <2>2
    <2>5. TAKE c, d \in Node
    <2>6. CASE c = a
      <3>1. wire'[c][d] = [wire[a] EXCEPT ![b] = <<>>][d]
        BY <2>3, <2>6
      <3>2. QED
        BY <1>1, <2>4, <2>6, <3>1
    <2>7. CASE c = b
      <3>1. wire'[c][d] = [wire[b] EXCEPT ![a] = <<>>][d]
        BY <1>1, <2>3, <2>7
      <3>2. QED
        BY <1>1, <2>4, <2>7, <3>1
    <2>8. CASE c # a /\ c # b
      BY <2>3, <2>8
    <2>9. QED
      BY <2>6, <2>7, <2>8
  <1>3. wire' \in Wires
    <2>1. <<>> \in Seq(Packet)
      OBVIOUS
    <2>2. QED
      BY <2>1 DEF LinkDown, IInv, TypeOK, Wires
  <1>4. WireOK(wire)'
    <2>1. \A c, d \in Node : wire'[c][d] # <<>> => Connected(c, d)'
      <3>1. link' = link \ {<<a, b>>}
        BY DEF LinkDown
      <3>2. TAKE c, d \in Node
      <3>3. HAVE wire'[c][d] # <<>>
      <3>4. ~(c = a /\ d = b) /\ ~(c = b /\ d = a) /\ wire[c][d] # <<>>
        BY <1>2, <3>3
      <3>5. <<c, d>> \in link \/ <<d, c>> \in link
        BY <3>4 DEF IInv, WireOK, Connected
      <3>6. QED
        BY <3>1, <3>4, <3>5 DEF Connected
    <2>2. \A c, d \in Node : \A i \in DOMAIN wire'[c][d] : Fresh(c, d, wire'[c][d][i])
      BY <1>2 DEF IInv, WireOK
    <2>3. QED
      BY <1>3, <2>1, <2>2 DEF WireOK, Fresh, Wires, Packet
  <1>5. PeersOK'
    BY DEF LinkDown, IInv, PeersOK, Connected
  <1>6. TypeOK'
    <2>1. changes' \in 0..MaxChanges
      BY ConstantAssumption DEF LinkDown, IInv, TypeOK
    <2>2. QED
      BY <1>3, <2>1 DEF LinkDown, IInv, TypeOK, Wires
  <1>7. SessionsReleased' /\ PendingOwned'
    BY DEF LinkDown, IInv, SessionsReleased, PendingOwned
  <1>8. QED
    BY <1>4, <1>5, <1>6, <1>7 DEF IInv

LEMMA LinkUpKeeps ==
    ASSUME IInv, NEW a \in Node, NEW b \in Node, LinkUp(a, b)
    PROVE  IInv'
  <1>1. a # b
    BY ConstantAssumption DEF LinkUp
  <1>2. \A c \in Node : peers'[c] = peers[c] \cup (IF c = a THEN {b} ELSE {})
                                          \cup (IF c = b THEN {a} ELSE {})
    BY <1>1 DEF LinkUp, IInv, TypeOK
  <1>3. WireOK(wire)'
    BY DEF LinkUp, IInv, WireOK, Connected, Fresh
  <1>4. PeersOK'
    BY <1>2 DEF LinkUp, IInv, PeersOK, Connected
  <1>5. TypeOK'
    <2>1. peers' \in [Node -> SUBSET Node]
      BY DEF LinkUp, IInv, TypeOK
    <2>2. changes' \in 0..MaxChanges
      BY ConstantAssumption DEF LinkUp, IInv, TypeOK
    <2>3. link' \subseteq Link
      BY DEF LinkUp, IInv, TypeOK
    <2>4. QED
      BY <2>1, <2>2, <2>3 DEF LinkUp, IInv, TypeOK
  <1>6. SessionsReleased' /\ PendingOwned'
    BY <1>2 DEF LinkUp, IInv, TypeOK, SessionsReleased, PendingOwned
  <1>7. QED
    BY <1>3, <1>4, <1>5, <1>6 DEF IInv

LEMMA StutterKeeps ==
    ASSUME IInv, UNCHANGED vars
    PROVE  IInv'
  <1>1. WireOK(wire)' /\ PeersOK'
    BY NetKeeps DEF vars, net, IInv
  <1>2. TypeOK' /\ SessionsReleased' /\ PendingOwned'
    BY DEF vars, net, IInv, TypeOK, SessionsReleased, PendingOwned
  <1>3. QED
    BY <1>1, <1>2 DEF IInv

-----------------------------------------------------------------------------
(* Where a call is                                                         *)

LEMMA SentFits ==
    ASSUME NEW w, w \in Wires, NEW x, Fits(w, x), NEW n \in Node, NEW m \in Node,
           NEW p \in Packet, Absent(w, p.call), Told(p, x)
    PROVE  /\ Fits(Sent(w, n, m, p), x)
           /\ \A l : Absent(w, l) /\ l # p.call => Absent(Sent(w, n, m, p), l)
  <1>1. CASE ~Connected(n, m)
    BY <1>1 DEF Sent
  <1>2. CASE Connected(n, m)
    <2> DEFINE v == [w EXCEPT ![n][m] = Append(@, p)]
               k == Len(w[n][m]) + 1
    <2>1. w[n][m] \in Seq(Packet)
      BY DEF Wires
    <2>2. \A a, b \in Node : v[a][b] = IF a = n /\ b = m THEN Append(w[n][m], p) ELSE w[a][b]
      BY DEF Wires
    <2>3. \A i \in DOMAIN Append(w[n][m], p) :
             \/ i = k /\ Append(w[n][m], p)[i] = p
             \/ i \in DOMAIN w[n][m] /\ Append(w[n][m], p)[i] = w[n][m][i]
      BY <2>1
    <2>4. Sent(w, n, m, p) = v
      BY <1>2 DEF Sent
    <2> HIDE DEF v, k
    <2>5. \A a, b \in Node : \A i \in DOMAIN v[a][b] :
             \/ a = n /\ b = m /\ i = k /\ v[a][b][i] = p
             \/ i \in DOMAIN w[a][b] /\ v[a][b][i] = w[a][b][i]
      BY <2>2, <2>3
    <2>6. \A l : Absent(w, l) /\ l # p.call => Absent(v, l)
      BY <2>5 DEF Absent
    <2>7. \A a, b \in Node : \A i \in DOMAIN v[a][b] : Told(v[a][b][i], x)
      BY <2>5 DEF Fits
    <2>8. ASSUME NEW a \in Node, NEW b \in Node, NEW c \in Node, NEW d \in Node,
                 NEW i \in DOMAIN v[a][b], NEW j \in DOMAIN v[c][d],
                 v[a][b][i].call = v[c][d][j].call
          PROVE  a = c /\ b = d /\ i = j
      <3>1. CASE i \in DOMAIN w[a][b] /\ v[a][b][i] = w[a][b][i]
                 /\ j \in DOMAIN w[c][d] /\ v[c][d][j] = w[c][d][j]
        BY <2>8, <3>1 DEF Fits
      <3>2. CASE i \in DOMAIN w[a][b] /\ v[a][b][i] = w[a][b][i] /\ v[c][d][j] = p
        BY <2>8, <3>2 DEF Absent
      <3>3. CASE v[a][b][i] = p /\ j \in DOMAIN w[c][d] /\ v[c][d][j] = w[c][d][j]
        BY <2>8, <3>3 DEF Absent
      <3>4. CASE a = n /\ b = m /\ i = k /\ c = n /\ d = m /\ j = k
        BY <3>4
      <3>5. QED
        BY <2>5, <3>1, <3>2, <3>3, <3>4
    <2>9. QED
      BY <2>4, <2>6, <2>7, <2>8 DEF Fits
  <1>3. QED
    BY <1>1, <1>2

LEMMA TakenFits ==
    ASSUME wire \in Wires, NEW x, Fits(wire, x), NEW a \in Node, NEW b \in Node, Arrives(a, b)
    PROVE  /\ Taken(a, b) \in Wires /\ Fits(Taken(a, b), x)
           /\ Head(wire[a][b]) \in Packet /\ Told(Head(wire[a][b]), x)
           /\ Absent(Taken(a, b), Head(wire[a][b]).call)
           /\ ~Absent(wire, Head(wire[a][b]).call)
           /\ \A l : Absent(wire, l) => Absent(Taken(a, b), l)
  <1> DEFINE v == Taken(a, b)
             s == wire[a][b]
  <1>1. s \in Seq(Packet) /\ s # <<>>
    BY DEF Wires, Arrives
  <1>2. /\ Head(s) \in Packet /\ Tail(s) \in Seq(Packet)
        /\ 1 \in DOMAIN s /\ Head(s) = s[1]
        /\ \A i \in DOMAIN Tail(s) : i + 1 \in DOMAIN s /\ i \in Nat /\ i + 1 # 1
                                      /\ Tail(s)[i] = s[i + 1]
    <2> HIDE DEF s
    <2>1. QED
      BY <1>1
  <1>3. v \in Wires
    BY <1>2 DEF Wires, Taken
  <1>4. \A c, d \in Node : v[c][d] = IF c = a /\ d = b THEN Tail(s) ELSE wire[c][d]
    BY DEF Wires, Taken
  <1>5. \A c, d \in Node : \A i \in DOMAIN v[c][d] :
           \/ /\ c = a /\ d = b /\ i \in Nat /\ i + 1 # 1
              /\ i + 1 \in DOMAIN wire[c][d] /\ v[c][d][i] = wire[c][d][i + 1]
           \/ ~(c = a /\ d = b) /\ i \in DOMAIN wire[c][d] /\ v[c][d][i] = wire[c][d][i]
    <2> HIDE DEF v
    <2>1. QED
      BY <1>2, <1>4
  <1>6. Told(Head(s), x) /\ ~Absent(wire, Head(s).call)
    BY <1>2 DEF Fits, Absent
  <1> HIDE DEF v, s
  <1>7. \A l : Absent(wire, l) => Absent(v, l)
    BY <1>5 DEF Absent
  <1>8. \A c, d \in Node : \A i \in DOMAIN v[c][d] : Told(v[c][d][i], x)
    BY <1>5 DEF Fits
  <1>9. \A c, d \in Node : \A i \in DOMAIN v[c][d] : v[c][d][i].call # Head(s).call
    BY <1>2, <1>5 DEF Fits, s
  <1>10. ASSUME NEW c \in Node, NEW d \in Node, NEW e \in Node, NEW f \in Node,
                NEW i \in DOMAIN v[c][d], NEW j \in DOMAIN v[e][f],
                v[c][d][i].call = v[e][f][j].call
         PROVE  c = e /\ d = f /\ i = j
    <2>1. CASE c = a /\ d = b /\ e = a /\ f = b
      <3>1. /\ i \in Nat /\ i + 1 \in DOMAIN wire[c][d] /\ v[c][d][i] = wire[c][d][i + 1]
            /\ j \in Nat /\ j + 1 \in DOMAIN wire[e][f] /\ v[e][f][j] = wire[e][f][j + 1]
        BY <1>5, <2>1
      <3>2. i + 1 = j + 1
        BY <1>10, <3>1 DEF Fits
      <3>3. QED
        BY <2>1, <3>1, <3>2
    <2>2. CASE ~(c = a /\ d = b) /\ ~(e = a /\ f = b)
      BY <1>5, <1>10, <2>2 DEF Fits
    <2>3. CASE c = a /\ d = b /\ ~(e = a /\ f = b)
      BY <1>5, <1>10, <2>3 DEF Fits
    <2>4. CASE ~(c = a /\ d = b) /\ e = a /\ f = b
      BY <1>5, <1>10, <2>4 DEF Fits
    <2>5. QED
      BY <2>1, <2>2, <2>3, <2>4
  <1>11. Fits(v, x) /\ Absent(v, Head(s).call)
    BY <1>8, <1>9, <1>10 DEF Fits, Absent
  <1>12. QED
    BY <1>2, <1>3, <1>6, <1>7, <1>11 DEF v, s

LEMMA ForwardedFits ==
    ASSUME TypeOK, NEW w, w \in Wires, NEW x, Fits(w, x), NEW n \in Node,
           NEW p \in Packet, p.ttl # 0, p.type \in {"request", "forwarded"},
           Absent(w, p.call), Told(p, x)
    PROVE  /\ Fits(Forwarded(w, n, p), x)
           /\ \A l : Absent(w, l) /\ l # p.call => Absent(Forwarded(w, n, p), l)
  <1> DEFINE hop == NextHop(n, Dest[p.call])
             q == Relayed(n, p)
  <1>1. CASE hop = NoNode
    BY <1>1 DEF Forwarded
  <1>2. CASE hop # NoNode
    <2>1. hop \in Node
      BY <1>2, HopType, PacketFields, ConstantAssumption
    <2>2. q \in Packet /\ q.call = p.call /\ q.type \in {"request", "forwarded"}
      <3>1. Extended(p.path, n) \in Seq(Node)
        BY PathTypes, PacketFields
      <3>2. p.ttl - 1 \in 0..Ttl
        BY ConstantAssumption, PacketFields
      <3>3. QED
        BY <3>1, <3>2, PacketFields DEF Relayed, Packet
    <2>3. Told(q, x)
      BY <2>2 DEF Told
    <2>4. Forwarded(w, n, p) = Sent(w, n, hop, q)
      BY <1>2 DEF Forwarded
    <2> HIDE DEF hop, q
    <2>5. QED
      BY <2>1, <2>2, <2>3, <2>4, SentFits
  <1>3. QED
    BY <1>1, <1>2

LEMMA RoutedBackFits ==
    ASSUME TypeOK, NEW w, w \in Wires, NEW x, Fits(w, x), NEW n \in Node,
           NEW p \in Packet, Absent(w, p.call), Told(p, x)
    PROVE  /\ Fits(RoutedBack(w, n, p), x)
           /\ \A l : Absent(w, l) /\ l # p.call => Absent(RoutedBack(w, n, p), l)
  <1> DEFINE path == Back(p.path, n)
             q == [p EXCEPT !.path = path]
  <1>1. path \in Seq(Node)
    BY PathTypes, PacketFields
  <1>2. q \in Packet /\ q.type = p.type /\ q.call = p.call
    BY <1>1 DEF Packet
  <1>3. CASE Last(path) \notin peers[n]
    BY <1>3 DEF RoutedBack
  <1>4. CASE Last(path) \in peers[n]
    <2>1. Last(path) \in Node
      BY <1>4 DEF TypeOK
    <2>2. Told(q, x)
      BY <1>2 DEF Told
    <2>3. RoutedBack(w, n, p) = Sent(w, n, Last(path), q)
      BY <1>4 DEF RoutedBack
    <2> HIDE DEF path, q
    <2>4. QED
      BY <1>2, <2>1, <2>2, <2>3, SentFits
  <1>5. QED
    BY <1>3, <1>4

\* A packet that moves on or is lost, while nothing else happens to its call
\* than that the caller gives up.
LEMMA Moved ==
    ASSUME CInv, UNCHANGED <<running, executed>>, Fits(wire', executed),
           \A l : Absent(wire, l) => Absent(wire', l),
           \A l \in Call : state'[l] = state[l] \/ state'[l] \notin {"idle", "noroute", "ok"}
    PROVE  CInv'
  <1>1. \A l : Gone(l) => Gone(l)'
    BY DEF Gone, Absent
  <1>2. InOnePlace'
    BY DEF CInv, InOnePlace, Fits, Absent, Told
  <1>3. Settled'
    BY <1>1 DEF CInv, Settled
  <1>4. QED
    BY <1>2, <1>3 DEF CInv

\* A call that has not begun yet sends its request, or does not begin.
LEMMA Begun ==
    ASSUME IInv, CInv, NEW l \in Call, state[l] = "idle", UNCHANGED <<running, executed>>,
           \/ wire' = wire /\ state' \in {[state EXCEPT ![l] = "noroute"],
                                         [state EXCEPT ![l] = "raised"]}
           \/ /\ Fits(wire', executed) /\ state' = [state EXCEPT ![l] = "waiting"]
              /\ \A k : Absent(wire, k) /\ k # l => Absent(wire', k)
    PROVE  CInv'
  <1>1. Gone(l) /\ executed[l] = 0
    BY DEF CInv, Settled
  <1>0. Fits(wire', executed) /\ \A k : Absent(wire, k) /\ k # l => Absent(wire', k)
    <2>1. CASE wire' = wire
      <3>1. Fits(wire, executed)
        BY DEF CInv, InOnePlace
      <3>2. QED
        BY <2>1, <3>1
    <2>2. QED
      BY <2>1
  <1>2. \A k : Gone(k) /\ k # l => Gone(k)'
    <2>1. \A k : Absent(wire, k)' <=> Absent(wire', k)
      BY DEF Absent
    <2>2. QED
      BY <1>0, <2>1 DEF Gone
  <1>3. \A k \in Call : state'[k] = IF k = l THEN state'[l] ELSE state[k]
    BY DEF IInv, TypeOK
  <1>4. state'[l] \in {"noroute", "raised", "waiting"} /\ (state'[l] = "noroute" => wire' = wire)
    BY DEF IInv, TypeOK
  <1>5. wire' = wire => Gone(l)'
    BY <1>1 DEF Gone, Absent
  <1>6. InOnePlace'
    <2>1. Fits(wire, executed)'
      BY <1>0 DEF Fits, Told
    <2>2. \A t \in running : Absent(wire', t.call)
      BY <1>0, <1>1 DEF Gone, CInv, InOnePlace
    <2>3. \A t \in running : Absent(wire, t.call)'
      BY <2>2 DEF Absent
    <2>4. QED
      BY <2>1, <2>3 DEF CInv, InOnePlace
  <1>7. Settled'
    BY <1>1, <1>2, <1>3, <1>4, <1>5 DEF CInv, Settled
  <1>8. QED
    BY <1>6, <1>7 DEF CInv

LEMMA FreshTold ==
    ASSUME CInv, NEW l \in Call, state[l] = "idle", NEW path,
           NEW p, p = Reply("request", l, path)
    PROVE  Told(p, executed) /\ Absent(wire, p.call) /\ p.call = l
           /\ p.type = "request" /\ p.ttl = Ttl
  BY DEF CInv, Settled, Told, Gone, Reply

LEMMA CallNodeOnce ==
    ASSUME IInv, CInv, NEW l \in Call, CallNode(l)
    PROVE  CInv'
  <1> DEFINE n == Origin[l]
             p == Reply("request", l, <<n>>)
  <1>1. n \in Node /\ <<n>> \in Seq(Node)
    BY ConstantAssumption
  <1>2. p \in Packet
    BY <1>1, ConstantAssumption DEF Reply, Packet
  <1>3. state[l] = "idle" /\ UNCHANGED <<running, executed>>
    BY DEF CallNode, MayStart
  <1>4. /\ Told(p, executed) /\ Absent(wire, p.call) /\ p.call = l
        /\ p.type = "request" /\ p.ttl # 0
    BY <1>3, FreshTold, ConstantAssumption
  <1>5. /\ Fits(Forwarded(wire, n, p), executed)
        /\ \A k : Absent(wire, k) /\ k # l => Absent(Forwarded(wire, n, p), k)
    <2> HIDE DEF p, n
    <2>1. QED
      BY <1>1, <1>2, <1>4, ForwardedFits DEF IInv, WireOK, CInv, InOnePlace
  <1>6. \/ wire' = wire /\ state' \in {[state EXCEPT ![l] = "noroute"],
                                       [state EXCEPT ![l] = "raised"]}
        \/ wire' = Forwarded(wire, n, p) /\ state' = [state EXCEPT ![l] = "waiting"]
    BY DEF CallNode
  <1>7. QED
    BY <1>3, <1>5, <1>6, Begun

LEMMA CallClientOnce ==
    ASSUME IInv, CInv, NEW l \in Call, CallClient(l)
    PROVE  CInv'
  <1> DEFINE n == Origin[l]
             p == Reply("request", l, <<>>)
  <1>1. n \in Node /\ <<>> \in Seq(Node)
    BY ConstantAssumption
  <1>2. p \in Packet
    BY <1>1, ConstantAssumption DEF Reply, Packet
  <1>3. state[l] = "idle" /\ UNCHANGED <<running, executed>>
    BY DEF CallClient, MayStart
  <1>4. Told(p, executed) /\ Absent(wire, p.call) /\ p.call = l
    BY <1>3, FreshTold
  <1>5. ASSUME NEW m \in peers[n]
        PROVE  /\ Fits(Sent(wire, n, m, p), executed)
               /\ \A k : Absent(wire, k) /\ k # l => Absent(Sent(wire, n, m, p), k)
    <2>1. m \in Node
      BY <1>1 DEF IInv, TypeOK
    <2> HIDE DEF p, n
    <2>2. QED
      BY <1>1, <1>2, <1>4, <2>1, SentFits DEF IInv, WireOK, CInv, InOnePlace
  <1>6. \/ wire' = wire /\ state' \in {[state EXCEPT ![l] = "noroute"],
                                       [state EXCEPT ![l] = "raised"]}
        \/ \E m \in peers[n] : /\ wire' = Sent(wire, n, m, p)
                               /\ state' = [state EXCEPT ![l] = "waiting"]
    BY DEF CallClient
  <1>7. QED
    BY <1>3, <1>5, <1>6, Begun

LEMMA TimeoutOnce ==
    ASSUME IInv, CInv, NEW l \in Call, Timeout(l)
    PROVE  CInv'
  <1>1. UNCHANGED <<running, executed, wire>>
    BY DEF Timeout
  <1>2. \A k \in Call : state'[k] = state[k] \/ state'[k] \notin {"idle", "noroute", "ok"}
    BY DEF Timeout, IInv, TypeOK
  <1>3. QED
    BY <1>1, <1>2, Moved DEF CInv, InOnePlace

\* What is known when a packet is taken.
LEMMA TakenOnce ==
    ASSUME IInv, CInv, NEW a \in Node, NEW b \in Node, Arrives(a, b)
    PROVE  LET p == Head(wire[a][b])
           IN  /\ Taken(a, b) \in Wires /\ Fits(Taken(a, b), executed)
               /\ p \in Packet /\ p.call \in Call /\ Told(p, executed)
               /\ Absent(Taken(a, b), p.call) /\ ~Absent(wire, p.call)
               /\ \A l : Absent(wire, l) => Absent(Taken(a, b), l)
               /\ \A t \in running : t.call # p.call
               /\ state[p.call] \notin {"idle", "noroute", "ok"}
  <1> DEFINE p == Head(wire[a][b])
  <1>1. /\ Taken(a, b) \in Wires /\ Fits(Taken(a, b), executed)
        /\ p \in Packet /\ Told(p, executed)
        /\ Absent(Taken(a, b), p.call) /\ ~Absent(wire, p.call)
        /\ \A l : Absent(wire, l) => Absent(Taken(a, b), l)
    BY TakenFits DEF IInv, WireOK, CInv, InOnePlace
  <1> HIDE DEF p
  <1>2. p.call \in Call
    BY <1>1, PacketFields
  <1>3. \A t \in running : t.call # p.call
    BY <1>1 DEF CInv, InOnePlace
  <1>4. state[p.call] \notin {"idle", "noroute", "ok"}
    BY <1>1, <1>2 DEF CInv, Settled, Gone
  <1>5. QED
    BY <1>1, <1>2, <1>3, <1>4 DEF p

\* The executor starts a method when its request is taken.
LEMMA StartOnce ==
    ASSUME IInv, CInv, NEW a \in Node, NEW b \in Node, NEW l \in Call, NEW path \in Seq(Node),
           Start(a, b, l, path), wire' = Taken(a, b), UNCHANGED state,
           Taken(a, b) \in Wires, Fits(Taken(a, b), executed), Absent(Taken(a, b), l), ~Absent(wire, l),
           \A k : Absent(wire, k) => Absent(Taken(a, b), k),
           \A t \in running : t.call # l,
           executed[l] = 0, state[l] \notin {"idle", "noroute", "ok"}
    PROVE  CInv'
  <1> DEFINE w == Taken(a, b)
             r == [call |-> l, path |-> path]
  <1>1. running' = running \cup {r} /\ executed' = [executed EXCEPT ![l] = @ + 1] /\ r.call = l
    BY DEF Start
  <1>2. executed \in [Call -> {0, 1}]
    BY DEF CInv, InOnePlace
  <1>3. executed' \in [Call -> {0, 1}] /\ executed'[l] = 1
        /\ \A k \in Call : k # l => executed'[k] = executed[k]
    BY <1>1, <1>2
  <1>4. w \in Wires
    OBVIOUS
  <1> HIDE DEF w, r
  <1>5. ASSUME NEW c \in Node, NEW d \in Node, NEW i \in DOMAIN w[c][d]
        PROVE  w[c][d][i].call \in Call
    <2>1. w[c][d] \in Seq(Packet)
      BY <1>4 DEF Wires
    <2>2. w[c][d][i] \in Packet
      BY <2>1
    <2>3. QED
      BY <2>2, PacketFields
  <1>6. Fits(w, executed')
    <2>1. ASSUME NEW c \in Node, NEW d \in Node, NEW i \in DOMAIN w[c][d]
          PROVE  Told(w[c][d][i], executed')
      BY <1>3, <1>5 DEF Fits, Absent, Told, w
    <2>2. QED
      BY <2>1 DEF Fits, w
  <1>7. \A t \in running : t.call \in Call
    BY DEF IInv, TypeOK
  <1>8. InOnePlace'
    <2>1. Fits(wire, executed)'
      BY <1>6 DEF w, Fits, Told
    <2>2. \A t, u \in running' : t.call = u.call => t = u
      BY <1>1 DEF CInv, InOnePlace
    <2>3. \A t \in running' : Absent(w, t.call) /\ executed'[t.call] = 1
      BY <1>1, <1>3, <1>7 DEF CInv, InOnePlace, w
    <2>4. QED
      BY <1>3, <2>1, <2>2, <2>3 DEF InOnePlace, w, Absent
  <1>9. \A k \in Call : k # l /\ Gone(k) => Gone(k)'
    <2>1. \A k : Absent(wire, k)' <=> Absent(wire', k)
      BY DEF Absent
    <2>2. \A k : Absent(wire, k) => Absent(wire', k)
      OBVIOUS
    <2>3. QED
      BY <1>1, <2>1, <2>2 DEF Gone
  <1>10. Settled'
    BY <1>3, <1>9 DEF CInv, Settled
  <1>11. QED
    BY <1>8, <1>10 DEF CInv

LEMMA OnRequestOnce ==
    ASSUME IInv, CInv, NEW a \in Node, NEW b \in Node, OnRequest(a, b)
    PROVE  CInv'
  <1> DEFINE p == Head(wire[a][b])
  <1>1. /\ Taken(a, b) \in Wires /\ Fits(Taken(a, b), executed)
        /\ p \in Packet /\ p.call \in Call /\ Told(p, executed)
        /\ Absent(Taken(a, b), p.call) /\ ~Absent(wire, p.call)
        /\ \A l : Absent(wire, l) => Absent(Taken(a, b), l)
        /\ \A t \in running : t.call # p.call
        /\ state[p.call] \notin {"idle", "noroute", "ok"}
    BY TakenOnce DEF OnRequest
  <1>2. /\ p.type = "request" /\ Start(a, b, p.call, p.path)
        /\ wire' = Taken(a, b) /\ UNCHANGED state
    BY DEF OnRequest
  <1> HIDE DEF p
  <1>3. executed[p.call] = 0 /\ p.path \in Seq(Node)
    BY <1>1, <1>2, PacketFields DEF Told
  <1>4. QED
    BY <1>1, <1>2, <1>3, StartOnce

LEMMA OnRemoteRequestOnce ==
    ASSUME IInv, CInv, NEW a \in Node, NEW b \in Node, OnRemoteRequest(a, b)
    PROVE  CInv'
  <1> DEFINE p == Head(wire[a][b])
             q == SignedOnce(p, b)
             e == Reply("error", p.call, <<>>)
  <1>1. /\ Taken(a, b) \in Wires /\ Fits(Taken(a, b), executed)
        /\ p \in Packet /\ p.call \in Call /\ Told(p, executed)
        /\ Absent(Taken(a, b), p.call) /\ ~Absent(wire, p.call)
        /\ \A l : Absent(wire, l) => Absent(Taken(a, b), l)
    BY TakenOnce DEF OnRemoteRequest
  <1>2. p.type = "request" /\ Dest[p.call] # b /\ UNCHANGED <<state, running, executed>>
    BY DEF OnRemoteRequest
  <1>3. \/ wire' = Sent(Taken(a, b), b, a, e)
        \/ wire' = Forwarded(Taken(a, b), b, q)
    BY DEF OnRemoteRequest, SignedOnce
  <1>4. Fresh(a, b, p)
    BY TakenOK DEF OnRemoteRequest, IInv
  <1> HIDE DEF p
  <1>5. e \in Packet /\ e.call = p.call /\ Told(e, executed)
    BY <1>1, ConstantAssumption DEF Reply, Packet, Told
  <1>6. p.ttl = Ttl
    BY <1>2, <1>4 DEF Fresh
  <1>7. q \in Packet /\ q.call = p.call /\ q.ttl # 0 /\ q.type = "request"
    <2>1. p.ttl # 0 /\ p.ttl - 1 # 0
      BY <1>6, ConstantAssumption
    <2>2. q.type = p.type
      BY <1>1 DEF SignedOnce, Packet
    <2>3. q \in Packet /\ q.call = p.call /\ q.ttl = p.ttl - 1
      <3> HIDE DEF q
      <3>1. SignedOnce(p, b) \in Packet /\ SignedOnce(p, b).call = p.call
            /\ SignedOnce(p, b).ttl = p.ttl - 1
        BY <1>1, <2>1, SignedFields, Zenon
      <3>2. QED
        BY <3>1 DEF q
    <2> HIDE DEF q
    <2>4. QED
      BY <1>2, <2>1, <2>2, <2>3
  <1>8. Told(q, executed)
    <2> HIDE DEF q
    <2>1. QED
      BY <1>1, <1>2, <1>7 DEF Told
  <1> HIDE DEF q, e
  <1>9. /\ Fits(wire', executed)
        /\ \A l : Absent(Taken(a, b), l) /\ l # p.call => Absent(wire', l)
    <2>1. CASE wire' = Sent(Taken(a, b), b, a, e)
      BY <1>1, <1>5, <2>1, SentFits
    <2>2. CASE wire' = Forwarded(Taken(a, b), b, q)
      BY <1>1, <1>7, <1>8, <2>2, ForwardedFits DEF IInv
    <2>3. QED
      BY <1>3, <2>1, <2>2
  <1>10. QED
    BY <1>1, <1>2, <1>9, Moved

LEMMA OnForwardedOnce ==
    ASSUME IInv, CInv, NEW a \in Node, NEW b \in Node, OnForwarded(a, b)
    PROVE  CInv'
  <1> DEFINE p == Head(wire[a][b])
             q == Signed(p, b)
  <1>1. /\ Taken(a, b) \in Wires /\ Fits(Taken(a, b), executed)
        /\ p \in Packet /\ p.call \in Call /\ Told(p, executed)
        /\ Absent(Taken(a, b), p.call) /\ ~Absent(wire, p.call)
        /\ \A l : Absent(wire, l) => Absent(Taken(a, b), l)
        /\ \A t \in running : t.call # p.call
        /\ state[p.call] \notin {"idle", "noroute", "ok"}
    BY TakenOnce DEF OnForwarded
  <1>2. p.type = "forwarded" /\ UNCHANGED state
    BY DEF OnForwarded
  <1>3. \/ wire' = Taken(a, b) /\ UNCHANGED <<running, executed>>
        \/ wire' = Taken(a, b) /\ Start(a, b, p.call, q.path)
        \/ /\ p.ttl # 0 /\ wire' = Forwarded(Taken(a, b), b, q)
           /\ UNCHANGED <<running, executed>>
    BY DEF OnForwarded, Signed, Dropped
  <1> HIDE DEF p
  <1>4. /\ q \in Packet /\ q.call = p.call /\ q.ttl = p.ttl /\ q.type = "forwarded"
        /\ q.path \in Seq(Node)
    <2>1. q.type = p.type
      BY <1>1 DEF Signed, Packet
    <2>2. q \in Packet /\ q.call = p.call /\ q.ttl = p.ttl
      <3> HIDE DEF q
      <3>1. Signed(p, b) \in Packet /\ Signed(p, b).call = p.call /\ Signed(p, b).ttl = p.ttl
        BY <1>1, SignedFields, Zenon
      <3>2. QED
        BY <3>1 DEF q
    <2> HIDE DEF q
    <2>3. QED
      BY <1>2, <2>1, <2>2, PacketFields
  <1>5. Told(q, executed) /\ executed[p.call] = 0
    <2> HIDE DEF q
    <2>1. QED
      BY <1>1, <1>2, <1>4 DEF Told
  <1> HIDE DEF q
  <1>6. CASE wire' = Taken(a, b) /\ UNCHANGED <<running, executed>>
    BY <1>1, <1>2, <1>6, Moved
  <1>7. CASE wire' = Taken(a, b) /\ Start(a, b, p.call, q.path)
    BY <1>1, <1>2, <1>4, <1>5, <1>7, StartOnce
  <1>8. CASE p.ttl # 0 /\ wire' = Forwarded(Taken(a, b), b, q) /\ UNCHANGED <<running, executed>>
    <2>1. /\ Fits(wire', executed)
          /\ \A l : Absent(Taken(a, b), l) /\ l # p.call => Absent(wire', l)
      BY <1>1, <1>4, <1>5, <1>8, ForwardedFits DEF IInv
    <2>2. QED
      BY <1>1, <1>2, <1>8, <2>1, Moved
  <1>9. QED
    BY <1>3, <1>6, <1>7, <1>8

LEMMA OnReplyOnce ==
    ASSUME IInv, CInv, NEW a \in Node, NEW b \in Node, OnReply(a, b)
    PROVE  CInv'
  <1> DEFINE p == Head(wire[a][b])
  <1>1. /\ Taken(a, b) \in Wires /\ Fits(Taken(a, b), executed)
        /\ p \in Packet /\ p.call \in Call /\ Told(p, executed)
        /\ Absent(Taken(a, b), p.call) /\ ~Absent(wire, p.call)
        /\ \A l : Absent(wire, l) => Absent(Taken(a, b), l)
        /\ \A t \in running : t.call # p.call
        /\ state[p.call] \notin {"idle", "noroute", "ok"}
    BY TakenOnce DEF OnReply
  <1>2. UNCHANGED <<running, executed>> /\ p.type \in {"response", "error"}
    BY DEF OnReply
  <1>3. \/ wire' = Sent(Taken(a, b), b, Origin[p.call], p) /\ UNCHANGED state
        \/ wire' = RoutedBack(Taken(a, b), b, p) /\ UNCHANGED state
        \/ wire' = Taken(a, b) /\ (UNCHANGED state \/ Resolve(p))
    BY DEF OnReply
  <1> HIDE DEF p
  <1>4. Origin[p.call] \in Node
    BY <1>1, ConstantAssumption
  <1>5. CASE wire' = Sent(Taken(a, b), b, Origin[p.call], p) /\ UNCHANGED state
    <2>1. /\ Fits(wire', executed)
          /\ \A l : Absent(Taken(a, b), l) /\ l # p.call => Absent(wire', l)
      BY <1>1, <1>4, <1>5, SentFits
    <2>2. QED
      BY <1>1, <1>2, <1>5, <2>1, Moved
  <1>6. CASE wire' = RoutedBack(Taken(a, b), b, p) /\ UNCHANGED state
    <2>1. /\ Fits(wire', executed)
          /\ \A l : Absent(Taken(a, b), l) /\ l # p.call => Absent(wire', l)
      BY <1>1, <1>6, RoutedBackFits DEF IInv
    <2>2. QED
      BY <1>1, <1>2, <1>6, <2>1, Moved
  <1>7. CASE wire' = Taken(a, b) /\ UNCHANGED state
    BY <1>1, <1>2, <1>7, Moved
  <1>8. CASE wire' = Taken(a, b) /\ Resolve(p)
    <2>0. PICK k \in Call : k = p.call
      BY <1>1
    <2>1. \A l \in Call : \/ state'[l] = state[l]
                          \/ l = k /\ state'[l] = "error"
                          \/ l = k /\ state'[l] = "ok" /\ p.type = "response"
      BY <1>8, <2>0 DEF Resolve, IInv, TypeOK
    <2>2. \A l : Absent(wire, l)' <=> Absent(wire', l)
      BY DEF Absent
    <2>3. Gone(k)' /\ \A l : Gone(l) => Gone(l)'
      BY <1>1, <1>2, <1>8, <2>0, <2>2 DEF Gone
    <2>4. p.type = "response" => executed[k] = 1
      BY <1>1, <2>0 DEF Told
    <2>5. Settled'
      BY <1>2, <2>1, <2>3, <2>4 DEF CInv, Settled
    <2>6. InOnePlace'
      <3>1. Fits(wire, executed)'
        BY <1>1, <1>2, <1>8 DEF Fits, Told
      <3>2. \A t \in running : Absent(wire, t.call)'
        BY <1>1, <1>8, <2>2 DEF CInv, InOnePlace
      <3>3. QED
        BY <1>2, <3>1, <3>2 DEF CInv, InOnePlace
    <2>7. QED
      BY <2>5, <2>6 DEF CInv
  <1>9. QED
    BY <1>3, <1>5, <1>6, <1>7, <1>8

LEMMA FinishOnce ==
    ASSUME IInv, CInv, NEW t \in running, Finish(t)
    PROVE  CInv'
  <1> DEFINE n == Dest[t.call]
  <1>1. t.call \in Call /\ t.path \in Seq(Node)
    BY DEF IInv, TypeOK
  <1>2. n \in Node /\ Origin[t.call] \in Node
    BY <1>1, ConstantAssumption
  <1>3. running' = running \ {t} /\ UNCHANGED <<executed, state>>
    BY DEF Finish
  <1>4. /\ Fits(wire, executed) /\ Absent(wire, t.call) /\ executed[t.call] = 1
        /\ \A u \in running : u.call = t.call => u = t
        /\ wire \in Wires
    BY DEF CInv, InOnePlace, IInv, WireOK
  <1>5. Fits(wire', executed) /\ \A l : Absent(wire, l) /\ l # t.call => Absent(wire', l)
    <2>1. PICK type \in {"response", "error"} :
            wire' = IF t.path # <<>> THEN RoutedBack(wire, n, Reply(type, t.call, t.path))
                    ELSE IF Origin[t.call] \in peers[n]
                         THEN Sent(wire, n, Origin[t.call], Reply(type, t.call, t.path))
                         ELSE wire
      BY DEF Finish
    <2> DEFINE p == Reply(type, t.call, t.path)
    <2>2. p \in Packet /\ p.call = t.call /\ Told(p, executed)
      BY <1>1, <1>4, ConstantAssumption DEF Reply, Packet, Told
    <2> HIDE DEF p, n
    <2>3. /\ Fits(RoutedBack(wire, n, p), executed)
          /\ \A l : Absent(wire, l) /\ l # t.call => Absent(RoutedBack(wire, n, p), l)
      BY <1>2, <1>4, <2>2, RoutedBackFits DEF IInv
    <2>4. /\ Fits(Sent(wire, n, Origin[t.call], p), executed)
          /\ \A l : Absent(wire, l) /\ l # t.call => Absent(Sent(wire, n, Origin[t.call], p), l)
      BY <1>2, <1>4, <2>2, SentFits
    <2>5. QED
      BY <1>4, <2>1, <2>3, <2>4 DEF p
  <1>6. state[t.call] \notin {"idle", "noroute", "ok"}
    BY <1>1 DEF CInv, Settled, Gone
  <1>7. \A l : Absent(wire, l)' <=> Absent(wire', l)
    BY DEF Absent
  <1>8. \A l : l # t.call /\ Gone(l) => Gone(l)'
    BY <1>3, <1>5, <1>7 DEF Gone
  <1>9. InOnePlace'
    <2>1. Fits(wire, executed)'
      BY <1>3, <1>5 DEF Fits, Told
    <2>2. \A u \in running' : Absent(wire, u.call)'
      BY <1>3, <1>4, <1>5, <1>7 DEF CInv, InOnePlace
    <2>3. QED
      BY <1>3, <2>1, <2>2 DEF CInv, InOnePlace
  <1>10. Settled'
    BY <1>3, <1>6, <1>8 DEF CInv, Settled
  <1>11. QED
    BY <1>9, <1>10 DEF CInv

\* Steps of the connections and tables.
LEMMA NetOnce ==
    ASSUME IInv, CInv, NEW a \in Node, NEW b \in Node,
           LinkDown(a, b) \/ LinkUp(a, b) \/ Notice(a, b)
    PROVE  CInv'
  <1>1. UNCHANGED <<running, executed>>
    BY DEF LinkDown, LinkUp, Notice
  <1>2. \A l \in Call : state'[l] = state[l] \/ state'[l] \notin {"idle", "noroute", "ok"}
    BY DEF LinkDown, LinkUp, Notice, IInv, TypeOK
  <1>3. \A c, d \in Node : \A i \in DOMAIN wire'[c][d] :
           i \in DOMAIN wire[c][d] /\ wire'[c][d][i] = wire[c][d][i]
    <2>1. CASE UNCHANGED wire
      BY <2>1
    <2>2. CASE wire' = [wire EXCEPT ![a][b] = <<>>, ![b][a] = <<>>]
      <3> DEFINE v == [wire EXCEPT ![a][b] = <<>>]
      <3>1. wire \in Wires
        BY DEF IInv, WireOK
      <3>2. \A c, d \in Node : v[c][d] = IF c = a /\ d = b THEN <<>> ELSE wire[c][d]
        BY <3>1 DEF Wires
      <3>3. v \in Wires
        <4>1. <<>> \in Seq(Packet)
          OBVIOUS
        <4>2. QED
          BY <3>1, <4>1 DEF Wires
      <3>4. wire' = [v EXCEPT ![b][a] = <<>>]
        BY <2>2
      <3> HIDE DEF v
      <3>5. \A c, d \in Node : wire'[c][d] = IF c = b /\ d = a THEN <<>> ELSE v[c][d]
        BY <3>3, <3>4 DEF Wires
      <3>6. \A c, d \in Node : wire'[c][d] = <<>> \/ wire'[c][d] = wire[c][d]
        BY <3>2, <3>5
      <3>7. DOMAIN <<>> = {}
        OBVIOUS
      <3>8. QED
        BY <3>6, <3>7
    <2>3. QED
      BY <2>1, <2>2 DEF LinkDown, LinkUp, Notice
  <1>4. Fits(wire', executed)
    <2>1. Fits(wire, executed)
      BY DEF CInv, InOnePlace
    <2>2. \A c, d \in Node : \A i \in DOMAIN wire'[c][d] : Told(wire'[c][d][i], executed)
      BY <1>3, <2>1 DEF Fits
    <2>3. ASSUME NEW c \in Node, NEW d \in Node, NEW e \in Node, NEW f \in Node,
                 NEW i \in DOMAIN wire'[c][d], NEW j \in DOMAIN wire'[e][f],
                 wire'[c][d][i].call = wire'[e][f][j].call
          PROVE  c = e /\ d = f /\ i = j
      <3>1. /\ i \in DOMAIN wire[c][d] /\ j \in DOMAIN wire[e][f]
            /\ wire[c][d][i].call = wire[e][f][j].call
        BY <1>3, <2>3
      <3>2. QED
        BY <2>1, <3>1 DEF Fits
    <2>4. QED
      BY <2>2, <2>3 DEF Fits
  <1>5. \A l : Absent(wire, l) => Absent(wire', l)
    BY <1>3 DEF Absent
  <1>6. QED
    BY <1>1, <1>2, <1>4, <1>5, Moved

LEMMA IdleOnce ==
    ASSUME CInv, UNCHANGED <<wire, state, running, executed>>
    PROVE  CInv'
  BY Moved DEF CInv, InOnePlace

-----------------------------------------------------------------------------

\* Every step of the mesh preserves the invariant.
THEOREM Inductive == Spec => []IInv
  <1>1. IInv /\ [Next]_vars => IInv'
    <2> SUFFICES ASSUME IInv, [Next]_vars PROVE IInv'
      OBVIOUS
    <2>1. ASSUME NEW l \in Call, CallNode(l) \/ CallClient(l) \/ Timeout(l) PROVE IInv'
      BY <2>1, CallNodeKeeps, CallClientKeeps, TimeoutKeeps
    <2>2. ASSUME NEW a \in Node, NEW b \in Node, Handle(a, b) PROVE IInv'
      BY <2>2, OnRequestKeeps, OnRemoteRequestKeeps, OnForwardedKeeps, OnReplyKeeps DEF Handle
    <2>3. ASSUME NEW a \in Node, NEW b \in Node, LinkDown(a, b) \/ LinkUp(a, b) \/ Notice(a, b)
          PROVE  IInv'
      BY <2>3, LinkDownKeeps, LinkUpKeeps, NoticeKeeps
    <2>4. ASSUME NEW t \in running, Finish(t) PROVE IInv'
      BY <2>4, FinishKeeps
    <2>5. ASSUME NEW n \in Node, SweepPending(n) PROVE IInv'
      BY <2>5, SweepKeeps
    <2>6. ASSUME NEW n \in Node, NEW d \in Node, NEW v \in Node \cup {NoNode}, RouteChange(n, d, v)
          PROVE  IInv'
      BY <2>6, RouteKeeps
    <2>7. CASE UNCHANGED vars
      BY <2>7, StutterKeeps
    <2>8. QED
      BY <2>1, <2>2, <2>3, <2>4, <2>5, <2>6, <2>7 DEF Next
  <1>2. QED
    BY InitInv, <1>1, PTL DEF Spec

\* The state of the mesh keeps its types; above all, ttl never falls below zero
\* (_forward, _on_remote_request, _on_forwarded).
THEOREM TypeCorrect == Spec => []TypeOK
  <1>1. IInv => TypeOK
    BY DEF IInv
  <1>2. QED
    BY Inductive, <1>1, PTL

\* A session stays only with a call that waits, or whose send raised, and a
\* node owes answers only to clients it has a socket of (Router.call,
\* SessionTable.resolve, _on_remote_request, cleanup_ws_pending).
THEOREM NothingIsKept == Spec => []NothingKept
  <1>1. IInv => NothingKept
    BY DEF IInv, NothingKept
  <1>2. QED
    BY Inductive, <1>1, PTL

\* In every reachable state a call is in one place, and its caller knows no more
\* than what came of it.
THEOREM CallsInductive == Spec => [](IInv /\ CInv)
  <1>1. Init => CInv
    <2> SUFFICES ASSUME Init PROVE CInv
      OBVIOUS
    <2>1. \A a, b \in Node : DOMAIN wire[a][b] = {}
      BY DEF Init
    <2>2. Fits(wire, executed) /\ \A l : Gone(l)
      BY <2>1 DEF Init, Fits, Gone, Absent
    <2>3. InOnePlace /\ Settled
      BY <2>2 DEF Init, InOnePlace, Settled
    <2>4. QED
      BY <2>3 DEF CInv
  <1>2. IInv /\ CInv /\ [Next]_vars => CInv'
    <2> SUFFICES ASSUME IInv, CInv, [Next]_vars PROVE CInv'
      OBVIOUS
    <2>1. ASSUME NEW l \in Call, CallNode(l) \/ CallClient(l) \/ Timeout(l) PROVE CInv'
      BY <2>1, CallNodeOnce, CallClientOnce, TimeoutOnce
    <2>2. ASSUME NEW a \in Node, NEW b \in Node, Handle(a, b) PROVE CInv'
      BY <2>2, OnRequestOnce, OnRemoteRequestOnce, OnForwardedOnce, OnReplyOnce DEF Handle
    <2>3. ASSUME NEW a \in Node, NEW b \in Node, LinkDown(a, b) \/ LinkUp(a, b) \/ Notice(a, b)
          PROVE  CInv'
      BY <2>3, NetOnce
    <2>4. ASSUME NEW t \in running, Finish(t) PROVE CInv'
      BY <2>4, FinishOnce
    <2>5. ASSUME NEW n \in Node, SweepPending(n) PROVE CInv'
      BY <2>5, IdleOnce DEF SweepPending
    <2>6. ASSUME NEW n \in Node, NEW d \in Node, NEW v \in Node \cup {NoNode}, RouteChange(n, d, v)
          PROVE  CInv'
      BY <2>6, IdleOnce DEF RouteChange
    <2>7. CASE UNCHANGED vars
      BY <2>7, IdleOnce DEF vars
    <2>8. QED
      BY <2>1, <2>2, <2>3, <2>4, <2>5, <2>6, <2>7 DEF Next
  <1>3. QED
    BY <1>1, <1>2, Inductive, PTL DEF Spec

\* The places of a call on the connections are at most one.
LEMMA TracesOfCall ==
    ASSUME CInv, NEW l \in Call
    PROVE  /\ Traces(l) = {} \/ \E x : Traces(l) = {x}
           /\ Absent(wire, l) => Traces(l) = {}
           /\ Traces(l) # {} => ~Absent(wire, l)
  <1>1. \A x \in Traces(l) :
           /\ x[1] \in Node /\ x[2] \in Node /\ x[3] \in DOMAIN wire[x[1]][x[2]]
           /\ wire[x[1]][x[2]][x[3]].call = l /\ x = <<x[1], x[2], x[3]>>
    BY DEF Traces
  <1>2. \A x, y \in Traces(l) : x = y
    <2> SUFFICES ASSUME NEW x \in Traces(l), NEW y \in Traces(l) PROVE x = y
      OBVIOUS
    <2>1. x[1] = y[1] /\ x[2] = y[2] /\ x[3] = y[3]
      BY <1>1 DEF CInv, InOnePlace, Fits
    <2>2. QED
      BY <1>1, <2>1
  <1>3. Absent(wire, l) => Traces(l) = {}
    BY <1>1 DEF Absent
  <1>4. QED
    BY <1>2, <1>3

\* A call is made once, whatever its packets meet and whatever becomes of the
\* tables; a request does not circle; a result that the caller gets is that of
\* the one execution, and "no route" means that none was or will be
\* (_forward, _on_forwarded, _route_back, _on_remote_request, SessionTable.resolve).
THEOREM CallsAreSound == Spec => []CallsSound
  <1>1. IInv /\ CInv => CallsSound
    <2> SUFFICES ASSUME IInv, CInv PROVE CallsSound
      OBVIOUS
    <2>1. AtMostOnce
      <3> SUFFICES ASSUME NEW l \in Call
                   PROVE  /\ executed[l] <= 1
                          /\ Cardinality(Traces(l))
                                + Cardinality({t \in running : t.call = l}) <= 1
        BY DEF AtMostOnce
      <3> DEFINE R == {t \in running : t.call = l}
      <3>1. executed[l] \in {0, 1}
        BY DEF CInv, InOnePlace
      <3>2. Traces(l) = {} \/ \E x : Traces(l) = {x}
        BY TracesOfCall
      <3>3. R = {} \/ \E t : R = {t}
        BY DEF CInv, InOnePlace
      <3>4. R # {} => Traces(l) = {}
        BY TracesOfCall DEF CInv, InOnePlace
      <3> HIDE DEF R
      <3>5. Cardinality(Traces(l)) \in {0, 1} /\ Cardinality(R) \in {0, 1}
        BY <3>2, <3>3, FS_EmptySet, FS_Singleton
      <3>6. Cardinality(Traces(l)) = 0 \/ Cardinality(R) = 0
        BY <3>4, FS_EmptySet
      <3>7. Cardinality(Traces(l)) + Cardinality(R) <= 1
        BY <3>5, <3>6
      <3>8. QED
        BY <3>1, <3>7 DEF R
    <2>2. AnswerIsTrue
      BY TracesOfCall DEF AnswerIsTrue, CInv, Settled, Gone
    <2>3. PathsLoopFree
      BY DEF PathsLoopFree, IInv, WireOK, Fresh, Simple
    <2>4. QED
      BY <2>1, <2>2, <2>3 DEF CallsSound
  <1>2. QED
    BY CallsInductive, <1>1, PTL

=============================================================================
