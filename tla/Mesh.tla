-------------------------------- MODULE Mesh --------------------------------
(***************************************************************************)
(* The mesh's view of itself: every node's NeighborTable                   *)
(* (p2p_core/networking/neighbor_table.py), filled by direct connections   *)
(* and by the gossip that NetworkModule sends every 30 s and that          *)
(* HELLO_ACK carries, and emptied by disconnects and by sweep.             *)
(*                                                                         *)
(* Abstracted: host, port, version, services and role; connecting is one   *)
(* step here (PeerLink has its parts).  age says which of sweep's          *)
(* deadlines an entry's last_ts has passed: none, ttl_known, ttl_unreach.  *)
(***************************************************************************)
EXTENDS Naturals, Sequences, FiniteSets
LOCAL INSTANCE TLC

CONSTANTS
    Node,
    Edge,        \* pairs of nodes that may connect
    NoNode,
    MaxHops,     \* bound: the longest route announced
    MaxChanges   \* bound: connects, disconnects and restarts in a behaviour

ASSUME ConstantAssumption ==
    /\ NoNode \notin Node
    /\ IsFiniteSet(Node)
    /\ Edge \subseteq {{a, b} : a, b \in Node}
    /\ \A n \in Node : {n} \notin Edge
    /\ MaxHops \in Nat \ {0}
    /\ MaxChanges \in Nat

VARIABLES
    up,       \* connections that exist
    table,    \* table[n][m]: n's NeighborInfo of m
    wire,     \* wire[a][b]: a's gossip on its way to b
    changes,
    ever      \* history: the connections that ever existed

vars == <<up, table, wire, changes, ever>>

Entry == [status : {"absent", "connected", "known", "unreachable"},
          via : Node \cup {NoNode}, hops : 1..MaxHops, age : 0..2]

Absent == [status |-> "absent", via |-> NoNode, hops |-> 1, age |-> 0]
Direct == [status |-> "connected", via |-> NoNode, hops |-> 1, age |-> 0]

EmptyTable == [m \in Node |-> Absent]
Tables == [Node -> Entry]

TypeOK ==
    /\ up \subseteq Edge
    /\ table \in [Node -> Tables]
    /\ wire \in [Node -> [Node -> Tables]]
    /\ changes \in 0..MaxChanges
    /\ ever \subseteq Edge

Init ==
    /\ up = {}
    /\ table = [n \in Node |-> EmptyTable]
    /\ wire = [a \in Node |-> [b \in Node |-> EmptyTable]]   \* nothing under way
    /\ changes = 0
    /\ ever = {}

-----------------------------------------------------------------------------
(* NeighborTable                                                           *)

\* What merge_gossip reads of an announced entry: its via and hops.
Announced(e) == [e EXCEPT !.status = "known", !.age = 0]

\* to_gossip: a snapshot without the unreachable ones.
ToGossip(t) ==
    [m \in Node |-> IF t[m].status \in {"connected", "known"} THEN Announced(t[m]) ELSE Absent]

\* Mutant: merge_gossip does not look at the announced route.
SkippedNever(n, t, m, e) == e.status = "absent" \/ m = n

\* merge_gossip's guards: routes that lead back to the node itself.
Skipped(n, t, m, e) ==
    \/ e.status = "absent" \/ m = n
    \/ e.via = n
    \/ e.via # NoNode /\ t[e.via].via = n

\* Mutant: an announced distance is taken over as it is.
HopsOfSame(e) == e.hops

\* Mutant: the relay brings the node nearer.
HopsOfNearer(e) == e.hops - 1

HopsOf(e) == e.hops + 1

\* Mutant: news of an unreachable node does not revive it.
RevivedNever(mine) == mine.status

Revived(mine) == IF mine.status = "unreachable" THEN "known" ELSE mine.status

Rerouted(mine, e, from) ==
    [status |-> Revived(mine), via |-> from, hops |-> HopsOf(e), age |-> 0]

\* Mutant: direct connections are overwritten like any other entry.
MergeEntryOverDirect(mine, e, from) ==
    IF mine.status = "absent" THEN [Rerouted(mine, e, from) EXCEPT !.status = "known"]
    ELSE [status |-> "known", via |-> from, hops |-> HopsOf(e), age |-> 0]

\* merge_gossip for one entry that passed the guards.  An equally long route
\* is compared by the sender's own via, as the code does.
MergeEntry(mine, e, from) ==
    CASE mine.status = "connected" -> mine
      [] mine.status = "absent" -> [Rerouted(mine, e, from) EXCEPT !.status = "known"]
      [] mine.status \in {"known", "unreachable"} ->
           IF HopsOf(e) < mine.hops THEN Rerouted(mine, e, from)
           ELSE IF HopsOf(e) = mine.hops /\ e.via # mine.via
           THEN IF mine.status = "unreachable" THEN Rerouted(mine, e, from)
                ELSE [mine EXCEPT !.age = 0]
           ELSE [mine EXCEPT !.status = IF HopsOf(e) <= mine.hops + 2 THEN Revived(mine) ELSE @,
                             !.age = 0]

\* Mutant: the route to a node is recorded as the node itself.
MergeViaItself(n, t, g, from) ==
    [m \in Node |-> IF Skipped(n, t, m, g[m]) THEN t[m] ELSE MergeEntry(t[m], g[m], m)]

Merge(n, t, g, from) ==
    [m \in Node |-> IF Skipped(n, t, m, g[m]) THEN t[m] ELSE MergeEntry(t[m], g[m], from)]

\* touch, called by Router.handle for the sender of every packet.
Touched(t, m) == [t EXCEPT ![m].age = IF t[m].status = "absent" THEN @ ELSE 0]

Marked(e) == IF e.status = "absent" THEN e ELSE [e EXCEPT !.status = "unreachable"]

\* sweep, first pass: the deadlines.
Expired(e) ==
    CASE e.status = "known" /\ e.age >= 1 -> [e EXCEPT !.status = "unreachable"]
      [] e.status = "unreachable" /\ e.age >= 2 -> Absent
      [] OTHER -> e

\* sweep, second pass: routes through an unreachable relay, in the order of
\* the dict.
Cascade(t, order) ==
    LET down[i \in 0..Cardinality(Node)] ==
          IF i = 0 THEN {m \in Node : t[m].status = "unreachable"}
          ELSE IF t[order[i]].status = "known" /\ t[order[i]].via \in down[i - 1]
               THEN down[i - 1] \cup {order[i]}
               ELSE down[i - 1]
    IN  [m \in Node |-> IF t[m].status = "known" /\ m \in down[Cardinality(Node)]
                        THEN [t[m] EXCEPT !.status = "unreachable"] ELSE t[m]]

Orders == {o \in [1..Cardinality(Node) -> Node] : \A m \in Node : \E i \in DOMAIN o : o[i] = m}

-----------------------------------------------------------------------------
(* NetworkModule                                                           *)

\* b dials a: a registers b and answers with its table, b registers a and
\* merges (websocket_endpoint, _on_hello_ack).
Connect(a, b) ==
    /\ {a, b} \in Edge \ up /\ changes < MaxChanges
    /\ LET served == [table[a] EXCEPT ![b] = Direct]
           dialed == [table[b] EXCEPT ![a] = Direct]
       IN  /\ \A m \in Node : HopsOf(served[m]) <= MaxHops
           /\ table' = [table EXCEPT ![a] = served,
                                     ![b] = Merge(b, dialed, ToGossip(served), a)]
    /\ up' = up \cup {{a, b}}
    /\ ever' = ever \cup {{a, b}}
    /\ changes' = changes + 1
    /\ UNCHANGED wire

\* A connection is lost, with what was under way on it.
Disconnect(a, b) ==
    /\ {a, b} \in up /\ changes < MaxChanges
    /\ up' = up \ {{a, b}}
    /\ wire' = [wire EXCEPT ![a][b] = EmptyTable, ![b][a] = EmptyTable]
    /\ changes' = changes + 1
    /\ UNCHANGED <<table, ever>>

\* Each end finds out by itself (the finally clauses of both ends).
Notice(n, m) ==
    /\ table[n][m].status = "connected" /\ {n, m} \notin up
    /\ table' = [table EXCEPT ![n][m] = Marked(@)]
    /\ UNCHANGED <<up, wire, changes, ever>>

\* A node stops and comes back with an empty table, or never.
Restart(n) ==
    /\ changes < MaxChanges
    /\ up' = {e \in up : n \notin e}
    /\ table' = [table EXCEPT ![n] = EmptyTable]
    /\ wire' = [a \in Node |-> [b \in Node |-> IF n \in {a, b} THEN EmptyTable ELSE wire[a][b]]]
    /\ changes' = changes + 1
    /\ UNCHANGED ever

\* Mutant: the sweep is forgotten.
SweptNever(t, order) == t

Swept(t, order) == Cascade([m \in Node |-> Expired(t[m])], order)

\* One round of _gossip_loop: sweep, then send to the connected ones.
GossipRound(n) ==
    /\ \A b \in Node : wire[n][b] = EmptyTable
    /\ \E order \in Orders : table' = [table EXCEPT ![n] = Swept(@, order)]
    /\ wire' = [wire EXCEPT ![n] = [b \in Node |->
                    IF table'[n][b].status = "connected" /\ {n, b} \in up
                    THEN ToGossip(table'[n]) ELSE EmptyTable]]
    /\ UNCHANGED <<up, changes, ever>>

ReceiveGossip(a, b) ==
    /\ wire[a][b] # EmptyTable
    /\ \A m \in Node : HopsOf(wire[a][b][m]) <= MaxHops
    /\ table' = [table EXCEPT ![b] = Merge(b, Touched(@, a), wire[a][b], a)]
    /\ wire' = [wire EXCEPT ![a][b] = EmptyTable]
    /\ UNCHANGED <<up, changes, ever>>

\* A connected peer is heard every 30 s, or marked after DEAD_TIMEOUT (90 s).
Older(e) ==
    IF e.status # "absent" /\ e.age < (IF e.status = "connected" THEN 1 ELSE 2)
    THEN [e EXCEPT !.age = @ + 1] ELSE e

\* Frames are under way to n or from n.
Awaited(n) == \E a \in Node : wire[a][n] # EmptyTable \/ wire[n][a] # EmptyTable

\* Time passes at a node.  A frame may be under way while ttl_known passes,
\* but not until ttl_unreach does.
Age(n) ==
    /\ Awaited(n) => \A m \in Node : table[n][m].age = 0
    /\ \E m \in Node : Older(table[n][m]) # table[n][m]
    /\ table' = [table EXCEPT ![n] = [m \in Node |-> Older(table[n][m])]]
    /\ UNCHANGED <<up, wire, changes, ever>>

Next ==
    \/ \E a, b \in Node : \/ Connect(a, b)
                          \/ Disconnect(a, b)
                          \/ Notice(a, b)
                          \/ ReceiveGossip(a, b)
    \/ \E n \in Node : \/ Restart(n)
                       \/ GossipRound(n)
                       \/ Age(n)

Spec == Init /\ [][Next]_vars

\* Timers run, frames arrive, and a closed socket is noticed.  Time passes
\* although Age waits for the frames under way to the node (strong fairness).
Fairness ==
    /\ \A n \in Node : WF_vars(GossipRound(n)) /\ SF_vars(Age(n))
    /\ \A a, b \in Node : WF_vars(Notice(a, b)) /\ WF_vars(ReceiveGossip(a, b))

FairSpec == Spec /\ Fairness

-----------------------------------------------------------------------------

\* Two nodes never send a third's packets back and forth between them.
NoTwoLoop ==
    \A a, b, c \in Node :
        ~(/\ table[a][c].status = "known" /\ table[a][c].via = b
          /\ table[b][c].status = "known" /\ table[b][c].via = a)

\* Over these connections, m is h hops away from n.
Reaches(edges, n, m, h) ==
    \E p \in [0..h -> Node] :
        /\ p[0] = n /\ p[h] = m
        /\ \A i \in 0..(h - 1) : {p[i], p[i + 1]} \in edges

\* No table understates a distance: its hops are those of a path over
\* connections that existed, stale gossip and revived entries included (the
\* hops that merge_gossip computes and keeps).
HopsNotUnderstated ==
    \A n, m \in Node :
        table[n][m].status # "absent" => Reaches(ever, n, m, table[n][m].hops)

\* Every route starts with a node this one was connected to, late gossip and
\* revived entries included (via in merge_gossip, _resolve_next in Router).
ViaWasNeighbour ==
    \A n, m \in Node :
        table[n][m].via # NoNode => {n, table[n][m].via} \in ever

\* What tables say of a route: no two nodes lead to each other, and the
\* distance is no less than it ever was (merge_gossip).
RoutesSound == NoTwoLoop /\ HopsNotUnderstated

\* Gossip and sweep leave a live direct connection alone.
DirectStays ==
    [][\A n, m \in Node :
          table[n][m].status = "connected" /\ {n, m} \in up /\ {n, m} \in up'
          => table'[n][m].status = "connected"]_vars

Isolated(m) == \A e \in up : m \notin e

\* A node that lost all its connections for good is forgotten by the others.
DeadForgotten ==
    \A m \in Node : <>[]Isolated(m) =>
        <>[](\A n \in Node : table[n][m].status \notin {"connected", "known"})

\* While all connections stay up, everyone hears of everyone, again and again.
EveryoneHeard ==
    <>[](up = Edge) =>
        \A n, m \in Node : n # m => []<>(table[n][m].status \in {"connected", "known"})

\* The tables follow the connections in the end: a node that is gone is
\* forgotten, one that is there is known (merge_gossip, sweep).
TablesHeal == DeadForgotten /\ EveryoneHeard

\* Nodes are alike where any two of them may connect.
NodeSymmetry == Permutations(Node)

=============================================================================
