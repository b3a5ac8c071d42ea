----------------------------- MODULE MeshProofs -----------------------------
(***************************************************************************)
(* Theorems about Mesh, for any set of nodes and connections: the tables   *)
(* are well formed, every route starts with a node there was a connection  *)
(* to, and no gossip or sweep takes a live direct connection away.         *)
(***************************************************************************)
EXTENDS Mesh, FiniteSetTheorems, TLAPS

-----------------------------------------------------------------------------
(* What the operators on one table do.                                     *)

\* A table is well formed, and its routes start with a neighbour of n.
Sound(n, t, edges) ==
    /\ t \in Tables
    /\ \A m \in Node : t[m].via # NoNode => {n, t[m].via} \in edges

\* Direct entries stay direct.
KeepsDirect(t, s) ==
    \A m \in Node : t[m].status = "connected" => s[m].status = "connected"

\* The entries that this module writes are entries.
LEMMA Entries ==
    /\ Absent \in Entry
    /\ Direct \in Entry
    /\ EmptyTable \in Tables
BY ConstantAssumption DEF Entry, Absent, Direct, EmptyTable, Tables

\* An entry that is refreshed is an entry, of the same route.
LEMMA Refreshed ==
    ASSUME NEW e \in Entry
    PROVE  /\ [e EXCEPT !.age = 0] \in Entry
           /\ [e EXCEPT !.age = 0].via = e.via
           /\ [e EXCEPT !.age = 0].status = e.status
BY DEF Entry

\* So is one that changes its status.
LEMMA Restated ==
    ASSUME NEW e \in Entry,
           NEW s \in {"absent", "connected", "known", "unreachable"}
    PROVE  /\ [e EXCEPT !.status = s] \in Entry
           /\ [e EXCEPT !.status = s].via = e.via
           /\ [e EXCEPT !.status = s, !.age = 0] \in Entry
           /\ [e EXCEPT !.status = s, !.age = 0].via = e.via
<1> DEFINE f == [e EXCEPT !.status = s]
<1>1. f \in Entry /\ f.via = e.via
  BY DEF Entry
<1>2. [e EXCEPT !.status = s, !.age = 0] = [f EXCEPT !.age = 0]
  BY DEF Entry
<1> HIDE DEF f
<1>3. [f EXCEPT !.age = 0] \in Entry /\ [f EXCEPT !.age = 0].via = f.via
  BY <1>1, Refreshed
<1> QED
  BY <1>1, <1>2, <1>3 DEF f

\* merge_gossip for one entry: the type, the via it leaves, direct entries.
LEMMA MergeEntryLemma ==
    ASSUME NEW mine \in Entry, NEW e \in Entry, NEW from \in Node,
           HopsOf(e) <= MaxHops
    PROVE  /\ MergeEntry(mine, e, from) \in Entry
           /\ MergeEntry(mine, e, from).via \in {mine.via, from}
           /\ mine.status = "connected" => MergeEntry(mine, e, from) = mine
<1>1. HopsOf(e) \in 1..MaxHops
  BY ConstantAssumption DEF Entry, HopsOf
<1>2. Revived(mine) \in {"absent", "connected", "known", "unreachable"}
  BY DEF Entry, Revived
<1>3. Rerouted(mine, e, from) \in Entry /\ Rerouted(mine, e, from).via = from
  BY <1>1, <1>2 DEF Entry, Rerouted
<1>4. CASE mine.status = "connected"
  BY <1>4 DEF MergeEntry, Entry
<1>5. CASE mine.status = "absent"
  <2>1. MergeEntry(mine, e, from) = [Rerouted(mine, e, from) EXCEPT !.status = "known"]
    BY <1>5 DEF MergeEntry
  <2> QED
    BY <1>3, <1>5, <2>1 DEF Entry
<1>6. CASE mine.status \in {"known", "unreachable"}
  <2>1. \/ MergeEntry(mine, e, from) = Rerouted(mine, e, from)
        \/ MergeEntry(mine, e, from) = [mine EXCEPT !.age = 0]
        \/ \E s \in {mine.status, Revived(mine)} :
              MergeEntry(mine, e, from) = [mine EXCEPT !.status = s, !.age = 0]
    BY <1>6 DEF MergeEntry
  <2>2. mine.status \in {"absent", "connected", "known", "unreachable"}
    BY DEF Entry
  <2>3. /\ [mine EXCEPT !.age = 0] \in Entry
        /\ [mine EXCEPT !.age = 0].via = mine.via
    BY Refreshed
  <2>4. ASSUME NEW s \in {mine.status, Revived(mine)}
        PROVE  /\ [mine EXCEPT !.status = s, !.age = 0] \in Entry
               /\ [mine EXCEPT !.status = s, !.age = 0].via = mine.via
    <3>1. s \in {"absent", "connected", "known", "unreachable"} /\ 0 \in 0..2
      BY <1>2, <2>2
    <3> QED
      BY <3>1, Restated
  <2> QED
    BY <1>3, <1>6, <2>1, <2>3, <2>4
<1> QED
  BY <1>4, <1>5, <1>6 DEF Entry

\* merge_gossip for a whole table.
LEMMA MergeLemma ==
    ASSUME NEW n \in Node, NEW edges, NEW t, Sound(n, t, edges),
           NEW g \in Tables,
           \A m \in Node : g[m].status # "absent" => HopsOf(g[m]) <= MaxHops,
           NEW from \in Node, {n, from} \in edges
    PROVE  /\ Sound(n, Merge(n, t, g, from), edges)
           /\ KeepsDirect(t, Merge(n, t, g, from))
<1>1. \A m \in Node : t[m] \in Entry /\ g[m] \in Entry
  BY DEF Sound, Tables
<1>2. \A m \in Node :
          \/ Merge(n, t, g, from)[m] = t[m]
          \/ /\ g[m].status # "absent"
             /\ Merge(n, t, g, from)[m] = MergeEntry(t[m], g[m], from)
  BY DEF Merge, Skipped
<1>a. \A m \in Node : g[m].status # "absent" =>
          /\ MergeEntry(t[m], g[m], from) \in Entry
          /\ MergeEntry(t[m], g[m], from).via \in {t[m].via, from}
          /\ t[m].status = "connected" => MergeEntry(t[m], g[m], from) = t[m]
  BY <1>1, MergeEntryLemma
<1>3. \A m \in Node :
          /\ Merge(n, t, g, from)[m] \in Entry
          /\ Merge(n, t, g, from)[m].via \in {t[m].via, from}
          /\ t[m].status = "connected" => Merge(n, t, g, from)[m] = t[m]
  BY <1>a, <1>1, <1>2
<1>4. Merge(n, t, g, from) \in Tables
  BY <1>3 DEF Merge, Tables
<1> QED
  BY <1>3, <1>4 DEF Sound, KeepsDirect

\* to_gossip announces entries.
LEMMA ToGossipLemma ==
    ASSUME NEW t \in Tables
    PROVE  /\ ToGossip(t) \in Tables
           /\ \A m \in Node : ToGossip(t)[m].status # "absent" =>
                                ToGossip(t)[m].hops = t[m].hops
<1>1. ASSUME NEW m \in Node
      PROVE  Announced(t[m]) \in Entry /\ Announced(t[m]).hops = t[m].hops
  <2>1. t[m] \in Entry /\ 0 \in 0..2
    BY DEF Tables
  <2>2. Announced(t[m]).hops = t[m].hops
    BY <2>1 DEF Announced, Entry
  <2> QED
    BY <2>1, <2>2, Restated DEF Announced
<1> QED
  BY <1>1, Entries DEF ToGossip, Tables, Absent

\* sweep leaves routes and direct entries alone.
LEMMA SweptLemma ==
    ASSUME NEW n \in Node, NEW edges, NEW t, Sound(n, t, edges), NEW order
    PROVE  /\ Sound(n, Swept(t, order), edges)
           /\ KeepsDirect(t, Swept(t, order))
<1> DEFINE x == [m \in Node |-> Expired(t[m])]
<1>1. \A m \in Node : t[m] \in Entry
  BY DEF Sound, Tables
<1>2. \A m \in Node :
          /\ x[m] \in Entry
          /\ x[m].via \in {t[m].via, NoNode}
          /\ t[m].status = "connected" => x[m] = t[m]
  BY <1>1, Entries DEF Expired, Entry, Absent
<1>3. x \in Tables
  BY <1>2 DEF Tables
<1> HIDE DEF x
<1>4. Cascade(x, order) = [m \in Node |-> Cascade(x, order)[m]]
  BY DEF Cascade
<1>5. \A m \in Node :
          \/ Cascade(x, order)[m] = x[m]
          \/ x[m].status = "known" /\ Cascade(x, order)[m] = [x[m] EXCEPT !.status = "unreachable"]
  BY DEF Cascade
<1>6. \A m \in Node :
          /\ Cascade(x, order)[m] \in Entry
          /\ Cascade(x, order)[m].via = x[m].via
          /\ x[m].status = "connected" => Cascade(x, order)[m] = x[m]
  <2> SUFFICES ASSUME NEW m \in Node
               PROVE  /\ Cascade(x, order)[m] \in Entry
                      /\ Cascade(x, order)[m].via = x[m].via
                      /\ x[m].status = "connected" => Cascade(x, order)[m] = x[m]
    OBVIOUS
  <2>1. /\ [x[m] EXCEPT !.status = "unreachable"] \in Entry
        /\ [x[m] EXCEPT !.status = "unreachable"].via = x[m].via
    BY <1>2, Restated
  <2> QED
    BY <1>2, <1>5, <2>1
<1>7. Cascade(x, order) \in Tables
  BY <1>4, <1>6 DEF Tables
<1>8. Swept(t, order) = Cascade(x, order)
  BY DEF Swept, x
<1> QED
  BY <1>2, <1>6, <1>7, <1>8 DEF Sound, KeepsDirect

\* A table written at one place.
LEMMA WriteLemma ==
    ASSUME NEW n \in Node, NEW edges, NEW t, Sound(n, t, edges),
           NEW m \in Node, NEW e \in Entry, e.via # NoNode => {n, e.via} \in edges
    PROVE  Sound(n, [t EXCEPT ![m] = e], edges)
<1> DEFINE s == [t EXCEPT ![m] = e]
<1>1. t \in [Node -> Entry]
  BY DEF Sound, Tables
<1>2. s \in [Node -> Entry]
  BY <1>1
<1>3. \A k \in Node : s[k] = IF k = m THEN e ELSE t[k]
  BY <1>1
<1> HIDE DEF s
<1>4. \A k \in Node : s[k].via # NoNode => {n, s[k].via} \in edges
  BY <1>3 DEF Sound
<1> QED
  BY <1>2, <1>4 DEF Sound, Tables, s

\* touch leaves routes and direct entries alone.
LEMMA TouchedLemma ==
    ASSUME NEW n \in Node, NEW edges, NEW t, Sound(n, t, edges), NEW m \in Node
    PROVE  /\ Sound(n, Touched(t, m), edges)
           /\ KeepsDirect(t, Touched(t, m))
<1>1. t[m] \in Entry
  BY DEF Sound, Tables
<1>2. PICK e \in {t[m], [t[m] EXCEPT !.age = 0]} : Touched(t, m) = [t EXCEPT ![m] = e]
  <2>1. t[m] = [t[m] EXCEPT !.age = t[m].age]
    BY <1>1 DEF Entry
  <2>2. Touched(t, m) = [t EXCEPT ![m] = [t[m] EXCEPT !.age =
            IF t[m].status = "absent" THEN t[m].age ELSE 0]]
    BY DEF Touched
  <2> QED
    BY <2>1, <2>2
<1>3. e \in Entry /\ e.via = t[m].via /\ e.status = t[m].status
  BY <1>1, <1>2, Refreshed
<1>4. Sound(n, [t EXCEPT ![m] = e], edges)
  <2>1. e.via # NoNode => {n, e.via} \in edges
    BY <1>3 DEF Sound
  <2> QED
    BY <1>3, <2>1, WriteLemma
<1>5. KeepsDirect(t, [t EXCEPT ![m] = e])
  BY <1>3 DEF KeepsDirect, Sound, Tables
<1> QED
  BY <1>2, <1>4, <1>5

\* More connections make no route unsound.
LEMMA SoundGrows ==
    ASSUME NEW n, NEW t, NEW edges, NEW more, edges \subseteq more, Sound(n, t, edges)
    PROVE  Sound(n, t, more)
BY DEF Sound

-----------------------------------------------------------------------------
(* The inductive invariant.  A route is only as good as the gossip it was   *)
(* taken from, so the connections that exist and the frames under way must  *)
(* be accounted for too.                                                    *)

IInv ==
    /\ changes \in 0..MaxChanges
    /\ up \subseteq Edge /\ ever \subseteq Edge /\ up \subseteq ever
    /\ table \in [Node -> Tables]
    /\ wire \in [Node -> [Node -> Tables]]
    /\ \A n \in Node : Sound(n, table[n], ever)
    /\ \A x, y \in Node : wire[x][y] # EmptyTable => {x, y} \in ever

LEMMA InitIInv == Init => IInv
<1> SUFFICES ASSUME Init PROVE IInv
  OBVIOUS
<1>1. \A m \in Node : EmptyTable[m].via = NoNode
  BY DEF EmptyTable, Absent
<1> QED
  BY <1>1, Entries, ConstantAssumption DEF Init, IInv, Sound

\* What a step may do to a live direct connection: nothing.
DirectStep ==
    \A n, m \in Node :
        table[n][m].status = "connected" /\ {n, m} \in up /\ {n, m} \in up'
        => table'[n][m].status = "connected"

\* A step that writes one table soundly.
LEMMA TableWrite ==
    ASSUME IInv, NEW n \in Node, NEW s, ever \subseteq ever', Sound(n, s, ever'),
           table' = [table EXCEPT ![n] = s]
    PROVE  /\ table' \in [Node -> Tables]
           /\ \A k \in Node : Sound(k, table'[k], ever')
           /\ KeepsDirect(table[n], s) => DirectStep
<1>1. table \in [Node -> Tables] /\ s \in Tables
  BY DEF IInv, Sound
<1>2. \A k \in Node : table'[k] = IF k = n THEN s ELSE table[k]
  BY <1>1
<1>3. \A k \in Node : Sound(k, table[k], ever')
  BY SoundGrows DEF IInv
<1>4. KeepsDirect(table[n], s) => DirectStep
  BY <1>2 DEF KeepsDirect, DirectStep
<1> QED
  BY <1>1, <1>2, <1>3, <1>4

LEMMA ConnectStep ==
    ASSUME IInv, NEW a \in Node, NEW b \in Node, Connect(a, b)
    PROVE  IInv' /\ DirectStep
<1> DEFINE served == [table[a] EXCEPT ![b] = Direct]
           dialed == [table[b] EXCEPT ![a] = Direct]
           merged == Merge(b, dialed, ToGossip(served), a)
<1>1. /\ {a, b} \in Edge \ up /\ changes < MaxChanges
      /\ \A m \in Node : HopsOf(served[m]) <= MaxHops
      /\ table' = [table EXCEPT ![a] = served, ![b] = merged]
      /\ up' = up \cup {{a, b}} /\ ever' = ever \cup {{a, b}}
      /\ changes' = changes + 1 /\ wire' = wire
  BY DEF Connect
<1>2. a # b
  BY <1>1, ConstantAssumption
<1>3. Direct.via = NoNode
  BY DEF Direct
<1>4. Sound(a, table[a], ever') /\ Sound(b, table[b], ever')
  BY <1>1, SoundGrows DEF IInv
<1>5. Sound(a, served, ever') /\ Sound(b, dialed, ever')
  BY <1>3, <1>4, Entries, WriteLemma
<1>6. KeepsDirect(table[a], served) /\ KeepsDirect(table[b], dialed)
  BY <1>4 DEF KeepsDirect, Sound, Tables, Direct
<1>7. served \in Tables
  BY <1>5 DEF Sound
<1> HIDE DEF served, dialed
<1>8. /\ ToGossip(served) \in Tables
      /\ \A m \in Node : ToGossip(served)[m].status # "absent" =>
                           HopsOf(ToGossip(served)[m]) <= MaxHops
  BY <1>1, <1>7, ToGossipLemma DEF HopsOf
<1>9. {b, a} \in ever'
  BY <1>1
<1>10. Sound(b, merged, ever') /\ KeepsDirect(dialed, merged)
  BY <1>5, <1>8, <1>9, MergeLemma
<1> HIDE DEF merged
<1>11. /\ table \in [Node -> Tables] /\ merged \in Tables /\ served \in Tables
  BY <1>7, <1>10 DEF IInv, Sound
<1>12. \A k \in Node : table'[k] = IF k = b THEN merged ELSE IF k = a THEN served ELSE table[k]
  BY <1>1, <1>2, <1>11
<1>13. table' \in [Node -> Tables]
  BY <1>1, <1>11
<1>14. \A k \in Node : Sound(k, table'[k], ever')
  BY <1>1, <1>5, <1>10, <1>12, SoundGrows DEF IInv
<1>15. DirectStep
  BY <1>6, <1>10, <1>12 DEF DirectStep, KeepsDirect
<1>16. changes' \in 0..MaxChanges
  BY <1>1, ConstantAssumption DEF IInv
<1> QED
  BY <1>1, <1>13, <1>14, <1>15, <1>16 DEF IInv

LEMMA DisconnectStep ==
    ASSUME IInv, NEW a \in Node, NEW b \in Node, Disconnect(a, b)
    PROVE  IInv' /\ DirectStep
<1>1. /\ up' \subseteq up /\ changes' = changes + 1 /\ changes < MaxChanges
      /\ wire' = [wire EXCEPT ![a][b] = EmptyTable, ![b][a] = EmptyTable]
      /\ table' = table /\ ever' = ever
  BY DEF Disconnect
<1>2. /\ wire' \in [Node -> [Node -> Tables]]
      /\ \A x, y \in Node : wire'[x][y] \in {wire[x][y], EmptyTable}
  BY <1>1, Entries DEF IInv
<1>3. changes' \in 0..MaxChanges
  BY <1>1, ConstantAssumption DEF IInv
<1> QED
  BY <1>1, <1>2, <1>3 DEF IInv, DirectStep

LEMMA NoticeStep ==
    ASSUME IInv, NEW n \in Node, NEW m \in Node, Notice(n, m)
    PROVE  IInv' /\ DirectStep
<1> DEFINE s == [table[n] EXCEPT ![m] = Marked(table[n][m])]
<1>1. /\ {n, m} \notin up /\ up' = up
      /\ table' = [table EXCEPT ![n] = s]
      /\ wire' = wire /\ changes' = changes /\ ever' = ever
  BY DEF Notice, IInv
<1>2. table \in [Node -> Tables] /\ Sound(n, table[n], ever')
  BY <1>1 DEF IInv
<1>3. table[n][m] \in Entry
  BY <1>2 DEF Tables
<1>4. /\ Marked(table[n][m]) \in Entry
      /\ Marked(table[n][m]).via = table[n][m].via
  BY <1>3, Restated DEF Marked
<1>5. Sound(n, s, ever')
  <2>1. Marked(table[n][m]).via # NoNode => {n, Marked(table[n][m]).via} \in ever'
    BY <1>2, <1>4 DEF Sound
  <2> QED
    BY <1>2, <1>4, <2>1, WriteLemma
<1>6. \A x, y \in Node : <<x, y>> # <<n, m>> => table'[x][y] = table[x][y]
  BY <1>1, <1>2 DEF Tables
<1>7. DirectStep
  BY <1>1, <1>6 DEF DirectStep
<1>8. /\ table' \in [Node -> Tables]
      /\ \A k \in Node : Sound(k, table'[k], ever')
  BY <1>1, <1>5, TableWrite
<1> QED
  BY <1>1, <1>7, <1>8 DEF IInv

LEMMA RestartStep ==
    ASSUME IInv, NEW n \in Node, Restart(n)
    PROVE  IInv' /\ DirectStep
<1>1. /\ changes < MaxChanges /\ changes' = changes + 1 /\ ever' = ever
      /\ up' = {e \in up : n \notin e}
      /\ table' = [table EXCEPT ![n] = EmptyTable]
      /\ wire' = [x \in Node |-> [y \in Node |->
                     IF n \in {x, y} THEN EmptyTable ELSE wire[x][y]]]
  BY DEF Restart
<1>2. /\ wire' \in [Node -> [Node -> Tables]]
      /\ \A x, y \in Node : wire'[x][y] \in {wire[x][y], EmptyTable}
  BY <1>1, Entries DEF IInv
<1>3. Sound(n, EmptyTable, ever')
  BY Entries DEF Sound, EmptyTable, Absent
<1>4. /\ table' \in [Node -> Tables]
      /\ \A k \in Node : Sound(k, table'[k], ever')
  BY <1>1, <1>3, TableWrite
<1>5. \A x, y \in Node : x # n => table'[x][y] = table[x][y]
  BY <1>1 DEF IInv
<1>6. DirectStep
  BY <1>1, <1>5 DEF DirectStep
<1>7. changes' \in 0..MaxChanges
  BY <1>1, ConstantAssumption DEF IInv
<1> QED
  BY <1>1, <1>2, <1>4, <1>6, <1>7 DEF IInv

LEMMA GossipRoundStep ==
    ASSUME IInv, NEW n \in Node, GossipRound(n)
    PROVE  IInv' /\ DirectStep
<1>1. PICK order \in Orders : table' = [table EXCEPT ![n] = Swept(table[n], order)]
  BY DEF GossipRound
<1>2. /\ up' = up /\ changes' = changes /\ ever' = ever
      /\ wire' = [wire EXCEPT ![n] = [b \in Node |->
                     IF table'[n][b].status = "connected" /\ {n, b} \in up
                     THEN ToGossip(table'[n]) ELSE EmptyTable]]
  BY DEF GossipRound
<1>3. Sound(n, table[n], ever)
  BY DEF IInv
<1>4. Sound(n, Swept(table[n], order), ever) /\ KeepsDirect(table[n], Swept(table[n], order))
  BY <1>3, SweptLemma
<1>5. /\ table' \in [Node -> Tables]
      /\ \A k \in Node : Sound(k, table'[k], ever')
      /\ DirectStep
  BY <1>1, <1>2, <1>4, TableWrite
<1>6. ToGossip(table'[n]) \in Tables
  BY <1>5, ToGossipLemma
<1>7. wire' \in [Node -> [Node -> Tables]]
  BY <1>2, <1>6, Entries DEF IInv
<1>8. \A x, y \in Node : wire'[x][y] # EmptyTable => {x, y} \in ever'
  <2> SUFFICES ASSUME NEW x \in Node, NEW y \in Node, wire'[x][y] # EmptyTable
               PROVE  {x, y} \in ever'
    OBVIOUS
  <2>1. CASE x = n
    BY <1>2, <2>1 DEF IInv
  <2>2. CASE x # n
    BY <1>2, <2>2 DEF IInv
  <2> QED
    BY <2>1, <2>2
<1> QED
  BY <1>2, <1>5, <1>7, <1>8 DEF IInv

LEMMA ReceiveGossipStep ==
    ASSUME IInv, NEW a \in Node, NEW b \in Node, ReceiveGossip(a, b)
    PROVE  IInv' /\ DirectStep
<1> DEFINE touched == Touched(table[b], a)
           merged == Merge(b, touched, wire[a][b], a)
<1>1. /\ wire[a][b] # EmptyTable
      /\ \A m \in Node : HopsOf(wire[a][b][m]) <= MaxHops
      /\ table' = [table EXCEPT ![b] = merged]
      /\ wire' = [wire EXCEPT ![a][b] = EmptyTable]
      /\ up' = up /\ changes' = changes /\ ever' = ever
  BY DEF ReceiveGossip, IInv
<1>2. /\ Sound(b, table[b], ever) /\ {b, a} \in ever
      /\ wire[a][b] \in Tables
  <2>1. {a, b} \in ever /\ {a, b} = {b, a}
    BY <1>1 DEF IInv
  <2> QED
    BY <2>1 DEF IInv
<1>3. Sound(b, touched, ever) /\ KeepsDirect(table[b], touched)
  BY <1>2, TouchedLemma
<1> HIDE DEF touched
<1>4. Sound(b, merged, ever) /\ KeepsDirect(touched, merged)
  BY <1>1, <1>2, <1>3, MergeLemma
<1> HIDE DEF merged
<1>5. KeepsDirect(table[b], merged)
  BY <1>3, <1>4 DEF KeepsDirect
<1>6. /\ table' \in [Node -> Tables]
      /\ \A k \in Node : Sound(k, table'[k], ever')
      /\ DirectStep
  BY <1>1, <1>4, <1>5, TableWrite
<1>7. /\ wire' \in [Node -> [Node -> Tables]]
      /\ \A x, y \in Node : wire'[x][y] \in {wire[x][y], EmptyTable}
  BY <1>1, Entries DEF IInv
<1> QED
  BY <1>1, <1>6, <1>7 DEF IInv

LEMMA AgeStep ==
    ASSUME IInv, NEW n \in Node, Age(n)
    PROVE  IInv' /\ DirectStep
<1> DEFINE t == table[n]
           s == [m \in Node |-> Older(t[m])]
<1>1. /\ table' = [table EXCEPT ![n] = s]
      /\ up' = up /\ wire' = wire /\ changes' = changes /\ ever' = ever
  BY DEF Age, IInv
<1>2. Sound(n, t, ever)
  BY DEF IInv
<1> HIDE DEF t
<1>3. \A m \in Node : s[m] \in Entry /\ s[m].via = t[m].via /\ s[m].status = t[m].status
  BY <1>2 DEF Sound, Tables, Entry, Older
<1>4. Sound(n, s, ever) /\ KeepsDirect(t, s)
  BY <1>2, <1>3 DEF Sound, KeepsDirect, Tables
<1>5. /\ table' \in [Node -> Tables]
      /\ \A k \in Node : Sound(k, table'[k], ever')
      /\ DirectStep
  BY <1>1, <1>4, TableWrite DEF t
<1> QED
  BY <1>1, <1>5 DEF IInv

LEMMA NextIInv == IInv /\ [Next]_vars => IInv' /\ DirectStep
<1> SUFFICES ASSUME IInv, [Next]_vars PROVE IInv' /\ DirectStep
  OBVIOUS
<1>1. CASE UNCHANGED vars
  BY <1>1 DEF vars, IInv, DirectStep
<1>2. ASSUME NEW a \in Node, NEW b \in Node, Connect(a, b)
      PROVE  IInv' /\ DirectStep
  BY <1>2, ConnectStep
<1>3. ASSUME NEW a \in Node, NEW b \in Node, Disconnect(a, b)
      PROVE  IInv' /\ DirectStep
  BY <1>3, DisconnectStep
<1>4. ASSUME NEW a \in Node, NEW b \in Node, Notice(a, b)
      PROVE  IInv' /\ DirectStep
  BY <1>4, NoticeStep
<1>5. ASSUME NEW a \in Node, NEW b \in Node, ReceiveGossip(a, b)
      PROVE  IInv' /\ DirectStep
  BY <1>5, ReceiveGossipStep
<1>6. ASSUME NEW n \in Node, Restart(n) PROVE IInv' /\ DirectStep
  BY <1>6, RestartStep
<1>7. ASSUME NEW n \in Node, GossipRound(n) PROVE IInv' /\ DirectStep
  BY <1>7, GossipRoundStep
<1>8. ASSUME NEW n \in Node, Age(n) PROVE IInv' /\ DirectStep
  BY <1>8, AgeStep
<1> QED
  BY <1>1, <1>2, <1>3, <1>4, <1>5, <1>6, <1>7, <1>8 DEF Next

LEMMA Inductive == Spec => []IInv
<1> QED
  BY InitIInv, NextIInv, PTL DEF Spec

-----------------------------------------------------------------------------
(* Where routes lead.  The facts below are about any tables t and frames w,  *)
(* so that a step which does two things is two uses of them.                 *)

Held(e) == e.status # "absent"

\* No two nodes name each other as the way to a third.
OneWay(t) == \A x, y, m \in Node : ~(t[x][m].via = y /\ t[y][m].via = x)

\* Tables and frames tell distances that a path over the connections has.
Honest(t, w, edges) ==
    /\ \A x, m \in Node : Held(t[x][m]) => Reaches(edges, x, m, t[x][m].hops)
    /\ \A x, y, m \in Node : Held(w[x][y][m]) => Reaches(edges, x, m, w[x][y][m].hops)

\* x holds an entry for m, no longer than this, that the next sweep leaves.
Backs(t, x, m, hops) == Held(t[x][m]) /\ t[x][m].hops <= hops /\ t[x][m].age < 2

\* What a frame under way tells, its sender still holds.
Backed(u, t, w) ==
    \A x, y, m \in Node : Held(w[x][y][m]) => {x, y} \in u /\ Backs(t, x, m, w[x][y][m].hops)

\* If the sender leads to the receiver by now, the receiver has a shorter way.
NotBack(t, w) ==
    \A x, y, m \in Node :
        Held(w[x][y][m]) /\ w[x][y][m].via # y /\ t[x][m].via = y
        => Backs(t, y, m, w[x][y][m].hops)

\* A direct connection is heard of.
Recent(t) == \A x, m \in Node : t[x][m].status = "connected" => t[x][m].age < 2

Shape(u, t, w, edges) ==
    /\ u \subseteq edges /\ edges \subseteq Edge
    /\ t \in [Node -> Tables]
    /\ w \in [Node -> [Node -> Tables]]

Routes(u, t, w, edges) ==
    OneWay(t) /\ Honest(t, w, edges) /\ Backed(u, t, w) /\ NotBack(t, w) /\ Recent(t)

\* The paths of a connection, of a relay, and of more connections.
LEMMA ReachesOne ==
    ASSUME NEW edges, NEW n \in Node, NEW m \in Node, {n, m} \in edges
    PROVE  Reaches(edges, n, m, 1)
<1> DEFINE p == [i \in 0..1 |-> IF i = 0 THEN n ELSE m]
<1>1. p \in [0..1 -> Node] /\ p[0] = n /\ p[1] = m
  OBVIOUS
<1>2. \A i \in 0..(1 - 1) : {p[i], p[i + 1]} \in edges
  <2> SUFFICES ASSUME NEW i \in 0..(1 - 1) PROVE {p[i], p[i + 1]} \in edges
    OBVIOUS
  <2>1. i = 0 /\ i + 1 = 1
    OBVIOUS
  <2> QED
    BY <1>1, <2>1
<1> QED
  BY <1>1, <1>2 DEF Reaches

LEMMA ReachesFurther ==
    ASSUME NEW edges, NEW n \in Node, NEW from \in Node, NEW m \in Node, NEW h \in Nat,
           {n, from} \in edges, Reaches(edges, from, m, h)
    PROVE  Reaches(edges, n, m, h + 1)
<1>1. PICK p \in [0..h -> Node] :
          /\ p[0] = from /\ p[h] = m
          /\ \A i \in 0..(h - 1) : {p[i], p[i + 1]} \in edges
  BY DEF Reaches
<1> DEFINE q == [i \in 0..(h + 1) |-> IF i = 0 THEN n ELSE p[i - 1]]
<1>2. \A i \in 0..(h + 1) : q[i] = IF i = 0 THEN n ELSE p[i - 1]
  OBVIOUS
<1>3. q \in [0..(h + 1) -> Node]
  <2>1. \A i \in 0..(h + 1) : i # 0 => i - 1 \in 0..h
    OBVIOUS
  <2> QED
    BY <2>1
<1> HIDE DEF q
<1>4. q[0] = n /\ q[h + 1] = m
  BY <1>1, <1>2
<1>5. \A i \in 0..((h + 1) - 1) : {q[i], q[i + 1]} \in edges
  <2> SUFFICES ASSUME NEW i \in 0..((h + 1) - 1) PROVE {q[i], q[i + 1]} \in edges
    OBVIOUS
  <2>1. i \in 0..(h + 1) /\ i + 1 \in 0..(h + 1) /\ (i + 1) - 1 = i
    OBVIOUS
  <2>2. q[i + 1] = p[i]
    BY <1>2, <2>1
  <2>3. CASE i = 0
    BY <1>1, <1>4, <2>2, <2>3
  <2>4. CASE i # 0
    <3>1. i - 1 \in 0..(h - 1) /\ (i - 1) + 1 = i
      BY <2>4
    <3>2. q[i] = p[i - 1]
      BY <1>2, <2>1, <2>4
    <3>3. {p[i - 1], p[(i - 1) + 1]} \in edges
      BY <1>1, <3>1
    <3> QED
      BY <2>2, <3>1, <3>2, <3>3
  <2> QED
    BY <2>3, <2>4
<1> QED
  BY <1>3, <1>4, <1>5 DEF Reaches

LEMMA HonestGrows ==
    ASSUME NEW t, NEW w, NEW edges, NEW more, edges \subseteq more, Honest(t, w, edges)
    PROVE  Honest(t, w, more)
<1>1. ASSUME NEW n, NEW m, NEW h, Reaches(edges, n, m, h) PROVE Reaches(more, n, m, h)
  <2>1. PICK p \in [0..h -> Node] :
            /\ p[0] = n /\ p[h] = m
            /\ \A i \in 0..(h - 1) : {p[i], p[i + 1]} \in edges
    BY <1>1 DEF Reaches
  <2>2. \A i \in 0..(h - 1) : {p[i], p[i + 1]} \in more
    BY <2>1
  <2> QED
    BY <2>1, <2>2 DEF Reaches
<1> QED
  BY <1>1 DEF Honest

\* What an entry may become without a new route: it keeps its way.
SameWay(e, f) ==
    /\ Held(f) <=> Held(e)
    /\ f.hops = e.hops /\ f.via = e.via

\* Frames of x under way.
NoneFrom(w, x) == \A y \in Node : w[x][y] = EmptyTable
NoneTo(w, x) == \A y \in Node : w[y][x] = EmptyTable

\* Entries keep their way, or are forgotten when no frame tells of them.
KeptOrLost(t, s, z) ==
    \A x, m \in Node :
        \/ /\ SameWay(t[x][m], s[x][m])
           /\ t[x][m].age < 2 /\ ~(NoneFrom(z, x) /\ NoneTo(z, x)) => s[x][m].age < 2
        \/ /\ s[x][m] = Absent /\ NoneFrom(z, x)
           /\ t[x][m].age >= 2 \/ NoneTo(z, x)

\* Frames are lost with their connections, or arrive.
Fewer(w, z, v) ==
    /\ \A x, y \in Node : z[x][y] \in {w[x][y], EmptyTable}
    /\ \A x, y, m \in Node : Held(z[x][y][m]) => {x, y} \in v

LEMMA Rewritten ==
    ASSUME NEW u, NEW t, NEW w, NEW edges, Shape(u, t, w, edges), Routes(u, t, w, edges),
           NEW v, NEW s, NEW z, Shape(v, s, z, edges), Recent(s),
           KeptOrLost(t, s, z), Fewer(w, z, v)
    PROVE  Routes(v, s, z, edges)
<1>1. \A m \in Node : ~Held(EmptyTable[m]) /\ EmptyTable[m].via = NoNode
  BY DEF EmptyTable, Held, Absent
<1>2. ~Held(Absent) /\ Absent.via = NoNode /\ NoNode \notin Node
  BY ConstantAssumption DEF Held, Absent
<1>3. \A x, m \in Node : s[x][m].via = t[x][m].via \/ s[x][m].via = NoNode
  BY <1>2 DEF KeptOrLost, SameWay
<1>4. \A x, m \in Node : Held(s[x][m]) => Held(t[x][m]) /\ s[x][m].hops = t[x][m].hops
  BY <1>2 DEF KeptOrLost, SameWay
<1>5. \A x, y, m \in Node : Held(z[x][y][m]) =>
          z[x][y] = w[x][y] /\ z[x][y] # EmptyTable /\ {x, y} \in v
  BY <1>1 DEF Fewer
<1>6. OneWay(s)
  BY <1>2, <1>3 DEF OneWay, Routes
<1>7. Honest(s, z, edges)
  BY <1>4, <1>5 DEF Honest, Routes
<1>8. ASSUME NEW x \in Node, NEW m \in Node, NEW h, Backs(t, x, m, h),
             ~NoneFrom(z, x) \/ ~NoneTo(z, x)
      PROVE  Backs(s, x, m, h)
  <2>1. t[x][m].age \in 0..2
    BY DEF Shape, Tables, Entry
  <2>2. t[x][m].age < 2
    BY <1>8 DEF Backs
  <2>3. SameWay(t[x][m], s[x][m]) /\ s[x][m].age < 2
    BY <1>8, <2>1, <2>2 DEF KeptOrLost
  <2> QED
    BY <1>8, <2>3 DEF Backs, SameWay
<1>9. Backed(v, s, z)
  <2> SUFFICES ASSUME NEW x \in Node, NEW y \in Node, NEW m \in Node, Held(z[x][y][m])
               PROVE  {x, y} \in v /\ Backs(s, x, m, z[x][y][m].hops)
    BY DEF Backed
  <2>1. Backs(t, x, m, z[x][y][m].hops)
    BY <1>5 DEF Routes, Backed
  <2>2. ~NoneFrom(z, x)
    BY <1>5 DEF NoneFrom
  <2> QED
    BY <1>5, <1>8, <2>1, <2>2
<1>10. NotBack(s, z)
  <2> SUFFICES ASSUME NEW x \in Node, NEW y \in Node, NEW m \in Node, Held(z[x][y][m]),
                      z[x][y][m].via # y, s[x][m].via = y
               PROVE  Backs(s, y, m, z[x][y][m].hops)
    BY DEF NotBack
  <2>1. t[x][m].via = y
    BY <1>2, <1>3
  <2>2. Backs(t, y, m, z[x][y][m].hops)
    BY <1>5, <2>1 DEF Routes, NotBack
  <2>3. ~NoneTo(z, y)
    BY <1>5 DEF NoneTo
  <2> QED
    BY <1>8, <2>2, <2>3
<1> QED
  BY <1>6, <1>7, <1>9, <1>10 DEF Routes

\* The two ends of a new connection.
LEMMA Registered ==
    ASSUME NEW u, NEW t, NEW w, NEW edges, Shape(u, t, w, edges), Routes(u, t, w, edges),
           NEW n \in Node, NEW m \in Node, {n, m} \in edges,
           NEW s, s = [t EXCEPT ![n][m] = Direct]
    PROVE  Shape(u, s, w, edges) /\ Routes(u, s, w, edges)
<1>1. t \in [Node -> [Node -> Entry]] /\ Direct \in Entry
  BY Entries DEF Shape, Tables
<1>2. s \in [Node -> Tables]
  BY <1>1 DEF Tables
<1>3. \A x, k \in Node : s[x][k] = IF x = n /\ k = m THEN Direct ELSE t[x][k]
  BY <1>1
<1>4. /\ Held(Direct) /\ Direct.via = NoNode /\ Direct.via \notin Node
      /\ Direct.hops = 1 /\ Direct.age = 0
  BY ConstantAssumption DEF Held, Direct
<1>5. OneWay(s)
  BY <1>3, <1>4 DEF Routes, OneWay
<1>6. Honest(s, w, edges)
  BY <1>3, <1>4, ReachesOne DEF Routes, Honest
<1>7. \A x, y, k \in Node : w[x][y][k].hops >= 1
  BY DEF Shape, Tables, Entry
<1>8. \A x, y, z, k \in Node :
          Backs(t, z, k, w[x][y][k].hops) => Backs(s, z, k, w[x][y][k].hops)
  BY <1>3, <1>4, <1>7 DEF Backs
<1>9. Backed(u, s, w)
  BY <1>8 DEF Routes, Backed
<1>10. NotBack(s, w)
  <2> SUFFICES ASSUME NEW x \in Node, NEW y \in Node, NEW k \in Node, Held(w[x][y][k]),
                      w[x][y][k].via # y, s[x][k].via = y
               PROVE  Backs(s, y, k, w[x][y][k].hops)
    BY DEF NotBack
  <2>1. t[x][k].via = y
    BY <1>3, <1>4
  <2>2. Backs(t, y, k, w[x][y][k].hops)
    BY <2>1 DEF Routes, NotBack
  <2> QED
    BY <1>8, <2>2
<1>11. Recent(s)
  BY <1>3, <1>4 DEF Routes, Recent
<1> QED
  BY <1>2, <1>5, <1>6, <1>9, <1>10, <1>11 DEF Routes, Shape

\* n tells its connected peers its table, in place of what it told before.
Announces(u, t, w, z, n) ==
    /\ \A m \in Node : t[n][m].status \in {"connected", "known"} => t[n][m].age < 2
    /\ \A x, y \in Node : x # n => z[x][y] = w[x][y]
    /\ \A y \in Node : \/ z[n][y] = EmptyTable
                       \/ z[n][y] = ToGossip(t[n]) /\ {n, y} \in u

\* A round of gossip goes out.
LEMMA Sent ==
    ASSUME NEW u, NEW t, NEW w, NEW edges, Shape(u, t, w, edges), Routes(u, t, w, edges),
           NEW n \in Node, NEW z, Shape(u, t, z, edges),
           Announces(u, t, w, z, n)
    PROVE  Routes(u, t, z, edges)
<1>1. \A m \in Node : t[n][m] \in Entry
  BY DEF Shape, Tables
<1>2. \A y, m \in Node : Held(z[n][y][m]) =>
          /\ t[n][m].status \in {"connected", "known"}
          /\ z[n][y][m].hops = t[n][m].hops /\ z[n][y][m].via = t[n][m].via
          /\ {n, y} \in u
  <2> SUFFICES ASSUME NEW y \in Node, NEW m \in Node, Held(z[n][y][m])
               PROVE  /\ t[n][m].status \in {"connected", "known"}
                      /\ z[n][y][m].hops = t[n][m].hops /\ z[n][y][m].via = t[n][m].via
                      /\ {n, y} \in u
    OBVIOUS
  <2>1. z[n][y] # EmptyTable
    BY DEF EmptyTable, Held, Absent
  <2>2. z[n][y] = ToGossip(t[n]) /\ {n, y} \in u
    BY <2>1 DEF Announces
  <2>3. ToGossip(t[n])[m] = IF t[n][m].status \in {"connected", "known"}
                            THEN Announced(t[n][m]) ELSE Absent
    BY DEF ToGossip
  <2>4. t[n][m].status \in {"connected", "known"}
    BY <2>2, <2>3 DEF Held, Absent
  <2>5. z[n][y][m] = Announced(t[n][m])
    BY <2>2, <2>3, <2>4
  <2> QED
    BY <1>1, <2>2, <2>4, <2>5 DEF Announced, Entry
<1>3. \A m \in Node : t[n][m].status \in {"connected", "known"} => Backs(t, n, m, t[n][m].hops)
  BY <1>1 DEF Announces, Backs, Held, Entry
<1>4. Honest(t, z, edges)
  <2>1. \A y, m \in Node : Held(z[n][y][m]) => Reaches(edges, n, m, z[n][y][m].hops)
    BY <1>2 DEF Routes, Honest, Held
  <2> QED
    BY <2>1 DEF Routes, Honest, Announces
<1>5. Backed(u, t, z)
  <2>1. \A y, m \in Node : Held(z[n][y][m]) => {n, y} \in u /\ Backs(t, n, m, z[n][y][m].hops)
    BY <1>2, <1>3
  <2> SUFFICES ASSUME NEW x \in Node, NEW y \in Node, NEW m \in Node, Held(z[x][y][m])
               PROVE  {x, y} \in u /\ Backs(t, x, m, z[x][y][m].hops)
    BY DEF Backed
  <2>2. CASE x = n
    BY <2>1, <2>2
  <2>3. CASE x # n
    BY <2>3 DEF Routes, Backed, Announces
  <2> QED
    BY <2>2, <2>3
<1>6. NotBack(t, z)
  <2> SUFFICES ASSUME NEW x \in Node, NEW y \in Node, NEW m \in Node, Held(z[x][y][m]),
                      z[x][y][m].via # y, t[x][m].via = y
               PROVE  Backs(t, y, m, z[x][y][m].hops)
    BY DEF NotBack
  <2>1. x # n
    <3> SUFFICES ASSUME x = n PROVE FALSE
      OBVIOUS
    <3>1. z[x][y][m].via = t[x][m].via
      BY <1>2
    <3> QED
      BY <3>1
  <2>2. z[x][y] = w[x][y]
    BY <2>1 DEF Announces
  <2> QED
    BY <2>2 DEF Routes, NotBack
<1> QED
  BY <1>4, <1>5, <1>6 DEF Routes

\* What merge_gossip does to an entry: it keeps its way, or takes the one that
\* is told when it holds none or a longer one.
Takes(mine, r, e, from) ==
    /\ Held(e) /\ Held(r)
    /\ r.via = from /\ r.hops = HopsOf(e) /\ r.age = 0 /\ r.status # "connected"
    /\ Held(mine) => HopsOf(e) <= mine.hops

Keeps(mine, r) ==
    /\ SameWay(mine, r)
    /\ r.age \in {mine.age, 0}
    /\ r.status = "connected" => mine.status = "connected"

LEMMA MergeEntryTells ==
    ASSUME NEW mine \in Entry, NEW e \in Entry, NEW from \in Node, Held(e)
    PROVE  \/ Keeps(mine, MergeEntry(mine, e, from))
           \/ Takes(mine, MergeEntry(mine, e, from), e, from)
<1>1. HopsOf(e) \in Nat
  BY DEF HopsOf, Entry
<1>2. /\ mine.status \in {"absent", "connected", "known", "unreachable"}
      /\ mine.hops \in Nat
  BY DEF Entry
<1>3. CASE mine.status = "connected"
  BY <1>3 DEF MergeEntry, Keeps, SameWay, Held
<1>4. CASE mine.status = "absent"
  <2>1. MergeEntry(mine, e, from) = [Rerouted(mine, e, from) EXCEPT !.status = "known"]
    BY <1>4 DEF MergeEntry
  <2> QED
    BY <1>4, <2>1 DEF Rerouted, Takes, Held
<1>5. CASE mine.status \in {"known", "unreachable"}
  <2>1. Revived(mine) = "known"
    BY <1>5 DEF Revived
  <2>2. \/ MergeEntry(mine, e, from) = Rerouted(mine, e, from) /\ HopsOf(e) <= mine.hops
        \/ MergeEntry(mine, e, from) = [mine EXCEPT !.age = 0]
        \/ \E s \in {"known", mine.status} :
              MergeEntry(mine, e, from) = [mine EXCEPT !.status = s, !.age = 0]
    <3>1. CASE HopsOf(e) < mine.hops
      <4>1. MergeEntry(mine, e, from) = Rerouted(mine, e, from)
        BY <1>5, <3>1 DEF MergeEntry
      <4> QED
        BY <1>1, <1>2, <3>1, <4>1
    <3>2. CASE ~(HopsOf(e) < mine.hops) /\ HopsOf(e) = mine.hops /\ e.via # mine.via
      <4>1. MergeEntry(mine, e, from) = IF mine.status = "unreachable"
                THEN Rerouted(mine, e, from) ELSE [mine EXCEPT !.age = 0]
        BY <1>5, <3>2 DEF MergeEntry
      <4> QED
        BY <1>1, <1>2, <3>2, <4>1
    <3>3. CASE ~(HopsOf(e) < mine.hops) /\ ~(HopsOf(e) = mine.hops /\ e.via # mine.via)
      <4>1. MergeEntry(mine, e, from) =
                [mine EXCEPT !.status = IF HopsOf(e) <= mine.hops + 2
                                        THEN "known" ELSE mine.status, !.age = 0]
        BY <1>5, <2>1, <3>3 DEF MergeEntry
      <4> QED
        BY <4>1
    <3> QED
      BY <3>1, <3>2, <3>3
  <2>3. CASE MergeEntry(mine, e, from) = Rerouted(mine, e, from) /\ HopsOf(e) <= mine.hops
    BY <2>1, <2>3 DEF Rerouted, Takes, Held
  <2>4. CASE MergeEntry(mine, e, from) = [mine EXCEPT !.age = 0]
    BY <1>5, <2>4 DEF Keeps, SameWay, Held, Entry
  <2>5. CASE \E s \in {"known", mine.status} :
              MergeEntry(mine, e, from) = [mine EXCEPT !.status = s, !.age = 0]
    BY <1>5, <2>5 DEF Keeps, SameWay, Held, Entry
  <2> QED
    BY <2>2, <2>3, <2>4, <2>5
<1> QED
  BY <1>2, <1>3, <1>4, <1>5

LEMMA MergeTells ==
    ASSUME NEW n \in Node, NEW t \in Tables, NEW g \in Tables, NEW from \in Node, NEW m \in Node
    PROVE  \/ Keeps(t[m], Merge(n, t, g, from)[m])
           \/ g[m].via # n /\ Takes(t[m], Merge(n, t, g, from)[m], g[m], from)
<1>1. t[m] \in Entry /\ g[m] \in Entry
  BY DEF Tables
<1>2. CASE Skipped(n, t, m, g[m])
  BY <1>1, <1>2 DEF Merge, Keeps, SameWay
<1>3. CASE ~Skipped(n, t, m, g[m])
  <2>1. Held(g[m]) /\ g[m].via # n /\ Merge(n, t, g, from)[m] = MergeEntry(t[m], g[m], from)
    BY <1>3 DEF Merge, Skipped, Held
  <2> QED
    BY <1>1, <2>1, MergeEntryTells
<1> QED
  BY <1>2, <1>3

\* Gossip for n has paths; where its sender leads to n by now, n has a way as
\* short; and if n told its sender of the same, the sender backs this.
Sensible(t, w, edges, n, from, g) ==
    /\ \A m \in Node : Held(g[m]) => Reaches(edges, from, m, g[m].hops)
    /\ \A m \in Node : Held(g[m]) /\ g[m].via # n /\ t[from][m].via = n
                       => Held(t[n][m]) /\ t[n][m].hops <= g[m].hops
    /\ \A m \in Node : Held(g[m]) /\ Held(w[n][from][m]) => Backs(t, from, m, g[m].hops)

\* The tables s are those of t after n merged g, told by from.
MergedAt(t, s, n, g, from) == s = [t EXCEPT ![n] = Merge(n, t[n], g, from)]

\* n takes from such gossip of its neighbour.
LEMMA Merged ==
    ASSUME NEW u, NEW t, NEW w, NEW edges, Shape(u, t, w, edges), Routes(u, t, w, edges),
           NEW n \in Node, NEW from \in Node, {n, from} \in edges, NEW g \in Tables,
           NEW s, Shape(u, s, w, edges),
           MergedAt(t, s, n, g, from), Sensible(t, w, edges, n, from, g)
    PROVE  Routes(u, s, w, edges)
<1>1. /\ \A x, m \in Node : t[x][m] \in Entry /\ s[x][m] \in Entry
      /\ \A m \in Node : g[m] \in Entry
      /\ \A x, y, m \in Node : w[x][y][m] \in Entry
  BY DEF Shape, Tables
<1>2. NoNode \notin Node /\ n # from /\ \A x \in Node : {x, x} \notin edges
  BY ConstantAssumption DEF Shape
<1>3. \A x, m \in Node : x # n => s[x][m] = t[x][m]
  BY DEF Shape, MergedAt
<1>4. \A m \in Node :
          \/ Keeps(t[n][m], s[n][m])
          \/ g[m].via # n /\ Takes(t[n][m], s[n][m], g[m], from)
  <2>1. t[n] \in Tables /\ s[n] = Merge(n, t[n], g, from)
    BY DEF Shape, MergedAt
  <2> QED
    BY <2>1, MergeTells
<1>5. \A e \in Entry : e.hops \in Nat /\ e.age \in 0..2 /\ HopsOf(e) = e.hops + 1
  BY DEF Entry, HopsOf
<1>6. OneWay(s)
  <2> SUFFICES ASSUME NEW x \in Node, NEW y \in Node, NEW m \in Node,
                      s[x][m].via = y, s[y][m].via = x
               PROVE  FALSE
    BY DEF OneWay
  <2>1. ASSUME NEW k \in Node, s[n][m].via = k, s[k][m].via = n
        PROVE  FALSE
    <3>1. CASE Keeps(t[n][m], s[n][m])
      <4>1. t[n][m].via = k
        BY <2>1, <3>1 DEF Keeps, SameWay
      <4>2. t[k][m].via = n
        <5>1. CASE k = n
          BY <4>1, <5>1
        <5>2. CASE k # n
          BY <2>1, <1>3, <5>2
        <5> QED
          BY <5>1, <5>2
      <4> QED
        BY <4>1, <4>2 DEF Routes, OneWay
    <3>2. CASE g[m].via # n /\ Takes(t[n][m], s[n][m], g[m], from)
      <4>1. k = from
        BY <2>1, <3>2 DEF Takes
      <4>2. t[from][m].via = n /\ Held(g[m])
        BY <1>2, <1>3, <2>1, <3>2, <4>1 DEF Takes
      <4>3. Held(t[n][m]) /\ t[n][m].hops <= g[m].hops
        BY <3>2, <4>2 DEF Sensible
      <4>4. HopsOf(g[m]) <= t[n][m].hops
        BY <3>2, <4>3 DEF Takes
      <4> QED
        BY <1>1, <1>5, <4>3, <4>4
    <3> QED
      BY <1>4, <3>1, <3>2
  <2>2. x # n /\ y # n
    BY <2>1
  <2> QED
    BY <1>3, <2>2 DEF Routes, OneWay
<1>7. Honest(s, w, edges)
  <2>1. ASSUME NEW m \in Node, Held(s[n][m])
        PROVE  Reaches(edges, n, m, s[n][m].hops)
    <3>1. CASE Keeps(t[n][m], s[n][m])
      BY <2>1, <3>1 DEF Keeps, SameWay, Routes, Honest
    <3>2. CASE Takes(t[n][m], s[n][m], g[m], from)
      <4>1. Reaches(edges, from, m, g[m].hops) /\ g[m].hops \in Nat
        BY <1>1, <1>5, <3>2 DEF Takes, Sensible
      <4>2. Reaches(edges, n, m, g[m].hops + 1)
        BY <4>1, ReachesFurther
      <4> QED
        BY <1>1, <1>5, <3>2, <4>2 DEF Takes
    <3> QED
      BY <1>4, <3>1, <3>2
  <2>2. ASSUME NEW x \in Node, NEW m \in Node, Held(s[x][m])
        PROVE  Reaches(edges, x, m, s[x][m].hops)
    <3>1. CASE x = n
      BY <2>1, <2>2, <3>1
    <3>2. CASE x # n
      BY <1>3, <2>2, <3>2 DEF Routes, Honest
    <3> QED
      BY <3>1, <3>2
  <2> QED
    BY <2>2 DEF Routes, Honest
<1>8. ASSUME NEW x \in Node, NEW m \in Node, NEW h \in Nat, Backs(t, x, m, h)
      PROVE  Backs(s, x, m, h)
  <2>1. CASE x # n
    BY <1>3, <1>8, <2>1 DEF Backs
  <2>2. CASE x = n /\ Keeps(t[n][m], s[n][m])
    BY <1>8, <2>2 DEF Backs, Keeps, SameWay
  <2>3. CASE x = n /\ Takes(t[n][m], s[n][m], g[m], from)
    <3>1. /\ Held(s[n][m]) /\ s[n][m].age = 0
          /\ s[n][m].hops <= t[n][m].hops /\ t[n][m].hops <= h
      BY <1>8, <2>3 DEF Backs, Takes
    <3>2. s[n][m].hops \in Nat /\ t[n][m].hops \in Nat
      BY <1>1, <1>5
    <3> QED
      BY <2>3, <3>1, <3>2 DEF Backs
  <2> QED
    BY <1>4, <2>1, <2>2, <2>3
<1>9. \A x, y, m \in Node : w[x][y][m].hops \in Nat
  BY <1>1, <1>5
<1>10. Backed(u, s, w)
  BY <1>8, <1>9 DEF Routes, Backed
<1>11. NotBack(s, w)
  <2> SUFFICES ASSUME NEW x \in Node, NEW y \in Node, NEW m \in Node, Held(w[x][y][m]),
                      w[x][y][m].via # y, s[x][m].via = y
               PROVE  Backs(s, y, m, w[x][y][m].hops)
    BY DEF NotBack
  <2>1. CASE t[x][m].via = y
    <3>1. Backs(t, y, m, w[x][y][m].hops)
      BY <2>1 DEF Routes, NotBack
    <3> QED
      BY <1>8, <1>9, <3>1
  <2>2. CASE t[x][m].via # y
    <3>1. x = n
      BY <1>3, <2>2
    <3>2. Takes(t[n][m], s[n][m], g[m], from)
      BY <1>4, <2>2, <3>1 DEF Keeps, SameWay
    <3>3. y = from /\ Held(g[m])
      BY <3>1, <3>2 DEF Takes
    <3>4. Backs(t, from, m, g[m].hops)
      BY <3>1, <3>3 DEF Sensible
    <3>5. Backs(t, n, m, w[x][y][m].hops)
      BY <3>1 DEF Routes, Backed
    <3>6. g[m].hops + 1 <= t[n][m].hops /\ t[n][m].hops <= w[x][y][m].hops
      BY <1>1, <1>5, <3>2, <3>5 DEF Takes, Backs
    <3>7. t[from][m].hops <= g[m].hops
      BY <3>4 DEF Backs
    <3>8. t[from][m].hops <= w[x][y][m].hops
      <4>1. /\ t[from][m].hops \in Nat /\ g[m].hops \in Nat
            /\ t[n][m].hops \in Nat /\ w[x][y][m].hops \in Nat
        BY <1>1, <1>5
      <4> QED
        BY <3>6, <3>7, <4>1
    <3>9. Backs(t, from, m, w[x][y][m].hops)
      BY <3>4, <3>8 DEF Backs
    <3> QED
      BY <1>8, <1>9, <3>3, <3>9
  <2> QED
    BY <2>1, <2>2
<1>12. Recent(s)
  <2>1. ASSUME NEW m \in Node, s[n][m].status = "connected" PROVE s[n][m].age < 2
    <3>1. Keeps(t[n][m], s[n][m])
      BY <1>4, <2>1 DEF Takes
    <3> QED
      BY <2>1, <3>1 DEF Keeps, Routes, Recent
  <2> QED
    BY <1>3, <2>1 DEF Routes, Recent
<1> QED
  BY <1>6, <1>7, <1>10, <1>11, <1>12 DEF Routes

\* sweep keeps ways, or forgets what is past its second deadline; what it
\* leaves to be told is not near it.
LEMMA SweptTells ==
    ASSUME NEW q \in Tables, NEW order, NEW m \in Node,
           q[m].status = "connected" => q[m].age < 2
    PROVE  /\ \/ SameWay(q[m], Swept(q, order)[m]) /\ Swept(q, order)[m].age = q[m].age
              \/ Swept(q, order)[m] = Absent /\ q[m].age >= 2
           /\ Swept(q, order)[m].status \in {"connected", "known"} => Swept(q, order)[m].age < 2
<1> DEFINE x == [k \in Node |-> Expired(q[k])]
<1>1. q[m] \in Entry
  BY DEF Tables
<1>2. /\ \/ SameWay(q[m], x[m]) /\ x[m].age = q[m].age
         \/ x[m] = Absent /\ q[m].age >= 2
      /\ x[m].status \in {"connected", "known"} => x[m].age < 2
      /\ x[m] \in Entry
  BY <1>1, Entries DEF Expired, SameWay, Held, Absent, Entry
<1> HIDE DEF x
<1>3. \/ Cascade(x, order)[m] = x[m]
      \/ x[m].status = "known" /\ Cascade(x, order)[m] = [x[m] EXCEPT !.status = "unreachable"]
  BY DEF Cascade
<1>4. Swept(q, order)[m] = Cascade(x, order)[m]
  BY DEF Swept, x
<1>5. CASE Cascade(x, order)[m] = x[m]
  BY <1>2, <1>4, <1>5
<1>6. CASE /\ x[m].status = "known"
           /\ Cascade(x, order)[m] = [x[m] EXCEPT !.status = "unreachable"]
  <2>1. SameWay(x[m], Cascade(x, order)[m]) /\ Cascade(x, order)[m].age = x[m].age
        /\ Cascade(x, order)[m].status = "unreachable"
    BY <1>2, <1>6 DEF SameWay, Held, Entry
  <2>2. x[m] # Absent
    BY <1>6 DEF Absent
  <2> QED
    BY <1>2, <1>4, <2>1, <2>2 DEF SameWay
<1> QED
  BY <1>3, <1>5, <1>6

-----------------------------------------------------------------------------
(* The same of the mesh.                                                    *)

RoutesNow == Routes(up, table, wire, ever)

LEMMA InitRoutes == Init => RoutesNow
<1> SUFFICES ASSUME Init PROVE RoutesNow
  OBVIOUS
<1>1. \A m \in Node : /\ ~Held(EmptyTable[m]) /\ EmptyTable[m].via = NoNode
                      /\ EmptyTable[m].status = "absent"
  BY DEF EmptyTable, Held, Absent
<1>2. NoNode \notin Node
  BY ConstantAssumption
<1> QED
  BY <1>1, <1>2 DEF Init, RoutesNow, Routes, OneWay, Honest, Backed, NotBack, Recent

LEMMA ShapeNow == IInv => Shape(up, table, wire, ever)
BY DEF IInv, Shape

\* Ways are kept where tables and frames are.
LEMMA SameIsSame ==
    ASSUME NEW t
    PROVE  \A x, m \in Node : SameWay(t[x][m], t[x][m])
BY DEF SameWay

LEMMA NextShape == IInv' => Shape(up', table', wire', ever')
BY DEF IInv, Shape

LEMMA ConnectRoutes ==
    ASSUME IInv, IInv', RoutesNow, NEW a \in Node, NEW b \in Node, Connect(a, b)
    PROVE  RoutesNow'
<1> DEFINE s1 == [table EXCEPT ![a][b] = Direct]
           s2 == [s1 EXCEPT ![b][a] = Direct]
           g == ToGossip(s2[a])
<1>1. /\ {a, b} \in Edge \ up /\ up' = up \cup {{a, b}}
      /\ ever' = ever \cup {{a, b}} /\ wire' = wire
  BY DEF Connect
<1>2. a # b /\ {b, a} = {a, b} /\ {a, b} \in ever' /\ ever \subseteq ever'
  BY <1>1, ConstantAssumption
<1>3. Shape(up, table, wire, ever') /\ Routes(up, table, wire, ever')
  BY <1>1, <1>2, ShapeNow, NextShape, HonestGrows DEF Shape, RoutesNow, Routes
<1>4. Shape(up, s1, wire, ever') /\ Routes(up, s1, wire, ever')
  BY <1>2, <1>3, Registered
<1> HIDE DEF s1
<1>5. Shape(up, s2, wire, ever') /\ Routes(up, s2, wire, ever')
  BY <1>2, <1>4, Registered
<1>6. /\ s2[a] = [table[a] EXCEPT ![b] = Direct]
      /\ s2[b] = [table[b] EXCEPT ![a] = Direct]
      /\ \A x \in Node \ {a, b} : s2[x] = table[x]
  BY <1>2, <1>3 DEF s1, Shape
<1>7. table' = [table EXCEPT ![a] = s2[a], ![b] = Merge(b, s2[b], g, a)]
  BY <1>6 DEF Connect
<1> HIDE DEF s2
<1>8. table' = [s2 EXCEPT ![b] = Merge(b, s2[b], g, a)]
  <2>1. /\ table \in [Node -> Tables] /\ s2 \in [Node -> Tables]
        /\ table' \in [Node -> Tables]
    BY <1>3, <1>5, NextShape DEF Shape
  <2>2. \A x \in Node : table'[x] = [s2 EXCEPT ![b] = Merge(b, s2[b], g, a)][x]
    BY <1>2, <1>6, <1>7, <2>1
  <2>3. /\ table' = [x \in Node |-> table'[x]]
        /\ [s2 EXCEPT ![b] = Merge(b, s2[b], g, a)] =
             [x \in Node |-> [s2 EXCEPT ![b] = Merge(b, s2[b], g, a)][x]]
    BY <2>1
  <2> QED
    BY <2>2, <2>3
<1>9. g \in Tables
  BY <1>5, ToGossipLemma DEF Shape
<1>10. \A m \in Node : Held(g[m]) =>
          Held(s2[a][m]) /\ g[m].hops = s2[a][m].hops /\ g[m].via = s2[a][m].via
  <2>1. \A m \in Node : s2[a][m] \in Entry
    BY <1>5 DEF Shape, Tables
  <2> QED
    BY <2>1 DEF ToGossip, Announced, Held, Absent, Entry
<1>11. \A m \in Node : ~Held(wire[b][a][m])
  BY <1>1, <1>2 DEF RoutesNow, Routes, Backed
<1>12. Shape(up, table', wire, ever')
  BY <1>1, <1>3, NextShape DEF Shape
<1>13. \A m \in Node : Held(g[m]) => Reaches(ever', a, m, g[m].hops)
  BY <1>5, <1>10 DEF Routes, Honest
<1> HIDE DEF g
<1>14. Routes(up, table', wire, ever')
  <2>1. \A m \in Node : ~(Held(g[m]) /\ g[m].via # b /\ s2[a][m].via = b)
    BY <1>10
  <2>2. Sensible(s2, wire, ever', b, a, g)
    BY <1>11, <1>13, <2>1 DEF Sensible
  <2> QED
    BY <1>2, <1>5, <1>8, <1>9, <1>12, <2>2, Merged DEF MergedAt
<1>15. Backed(up', table', wire)
  BY <1>1, <1>14 DEF Routes, Backed
<1> QED
  BY <1>1, <1>14, <1>15 DEF RoutesNow, Routes

LEMMA DisconnectRoutes ==
    ASSUME IInv, IInv', RoutesNow, NEW a \in Node, NEW b \in Node, Disconnect(a, b)
    PROVE  RoutesNow'
<1>1. /\ up' = up \ {{a, b}} /\ table' = table /\ ever' = ever
      /\ wire' = [wire EXCEPT ![a][b] = EmptyTable, ![b][a] = EmptyTable]
      /\ Shape(up, table, wire, ever) /\ Shape(up', table', wire', ever)
  BY ShapeNow, NextShape DEF Disconnect
<1>2. /\ wire'[a][b] = EmptyTable /\ wire'[b][a] = EmptyTable
      /\ \A x, y \in Node : wire'[x][y] \in {wire[x][y], EmptyTable}
  BY <1>1 DEF Shape, Tables
<1>3. \A m \in Node : ~Held(EmptyTable[m])
  BY DEF EmptyTable, Held, Absent
<1>4. \A x, y, m \in Node : Held(wire'[x][y][m]) => {x, y} \in up'
  <2> SUFFICES ASSUME NEW x \in Node, NEW y \in Node, NEW m \in Node, Held(wire'[x][y][m])
               PROVE  {x, y} \in up'
    OBVIOUS
  <2>1. {x, y} # {a, b}
    BY <1>2, <1>3
  <2>2. Held(wire[x][y][m])
    BY <1>2, <1>3
  <2> QED
    BY <1>1, <2>1, <2>2 DEF RoutesNow, Routes, Backed
<1>5. Recent(table')
  BY <1>1 DEF RoutesNow, Routes
<1>6. \A x, m \in Node : SameWay(table[x][m], table'[x][m]) /\ table'[x][m].age = table[x][m].age
  BY <1>1 DEF SameWay
<1>7. KeptOrLost(table, table', wire') /\ Fewer(wire, wire', up')
  BY <1>2, <1>4, <1>6 DEF KeptOrLost, Fewer
<1> QED
  BY <1>1, <1>5, <1>7, Rewritten DEF RoutesNow

LEMMA NoticeRoutes ==
    ASSUME IInv, IInv', RoutesNow, NEW n \in Node, NEW k \in Node, Notice(n, k)
    PROVE  RoutesNow'
<1>1. /\ up' = up /\ wire' = wire /\ ever' = ever
      /\ table' = [table EXCEPT ![n][k] = Marked(table[n][k])]
      /\ Shape(up, table, wire, ever) /\ Shape(up', table', wire', ever)
  BY ShapeNow, NextShape DEF Notice
<1>2. \A x, m \in Node : table[x][m] \in Entry
  BY <1>1 DEF Shape, Tables
<1>3. \A x, m \in Node : table'[x][m] = IF x = n /\ m = k THEN Marked(table[x][m]) ELSE table[x][m]
  BY <1>1 DEF Shape, Tables
<1>4. \A e \in Entry : /\ SameWay(e, Marked(e)) /\ Marked(e).age = e.age
                       /\ Marked(e).status # "connected"
  BY DEF Marked, SameWay, Held, Entry
<1>5. Recent(table')
  BY <1>2, <1>3, <1>4 DEF RoutesNow, Routes, Recent
<1>6. \A x, m \in Node : SameWay(table[x][m], table'[x][m]) /\ table'[x][m].age = table[x][m].age
  BY <1>2, <1>3, <1>4 DEF SameWay
<1>7. \A x, y, m \in Node : Held(wire[x][y][m]) => {x, y} \in up
  BY DEF RoutesNow, Routes, Backed
<1>8. KeptOrLost(table, table', wire') /\ Fewer(wire, wire', up')
  BY <1>1, <1>6, <1>7 DEF KeptOrLost, Fewer
<1> QED
  BY <1>1, <1>5, <1>8, Rewritten DEF RoutesNow

LEMMA RestartRoutes ==
    ASSUME IInv, IInv', RoutesNow, NEW n \in Node, Restart(n)
    PROVE  RoutesNow'
<1>1. /\ up' = {e \in up : n \notin e} /\ ever' = ever
      /\ table' = [table EXCEPT ![n] = EmptyTable]
      /\ wire' = [x \in Node |-> [y \in Node |->
                     IF n \in {x, y} THEN EmptyTable ELSE wire[x][y]]]
      /\ Shape(up, table, wire, ever) /\ Shape(up', table', wire', ever)
  BY ShapeNow, NextShape DEF Restart
<1>2. \A x, y \in Node : wire'[x][y] = IF n \in {x, y} THEN EmptyTable ELSE wire[x][y]
  BY <1>1
<1>3. \A m \in Node : ~Held(EmptyTable[m]) /\ EmptyTable[m] = Absent /\ Absent.status = "absent"
  BY DEF EmptyTable, Held, Absent
<1>4. \A x, y, m \in Node : Held(wire'[x][y][m]) => {x, y} \in up'
  BY <1>1, <1>2, <1>3 DEF RoutesNow, Routes, Backed
<1>5. /\ \A m \in Node : table'[n][m] = Absent
      /\ \A x, m \in Node : x # n => table'[x][m] = table[x][m]
  BY <1>1, <1>3 DEF Shape
<1>6. NoneFrom(wire', n) /\ NoneTo(wire', n)
  BY <1>2 DEF NoneFrom, NoneTo
<1>7. Recent(table')
  BY <1>3, <1>5 DEF RoutesNow, Routes, Recent
<1>8. \A x, m \in Node :
          \/ x # n /\ SameWay(table[x][m], table'[x][m]) /\ table'[x][m].age = table[x][m].age
          \/ x = n /\ table'[x][m] = Absent
  BY <1>5 DEF SameWay
<1>9. KeptOrLost(table, table', wire') /\ Fewer(wire, wire', up')
  BY <1>2, <1>4, <1>6, <1>8 DEF KeptOrLost, Fewer
<1> QED
  BY <1>1, <1>7, <1>9, Rewritten DEF RoutesNow

\* The sweep first, then the gossip of what it left.
LEMMA GossipRoundRoutes ==
    ASSUME IInv, IInv', RoutesNow, NEW n \in Node, GossipRound(n)
    PROVE  RoutesNow'
<1>1. PICK order \in Orders : table' = [table EXCEPT ![n] = Swept(table[n], order)]
  BY DEF GossipRound
<1>2. /\ up' = up /\ ever' = ever /\ \A b \in Node : wire[n][b] = EmptyTable
      /\ wire' = [wire EXCEPT ![n] = [b \in Node |->
                     IF table'[n][b].status = "connected" /\ {n, b} \in up
                     THEN ToGossip(table'[n]) ELSE EmptyTable]]
      /\ Shape(up, table, wire, ever) /\ Shape(up', table', wire', ever)
  BY ShapeNow, NextShape DEF GossipRound
<1>3. /\ table'[n] = Swept(table[n], order)
      /\ \A x \in Node : x # n => table'[x] = table[x]
      /\ table[n] \in Tables
  BY <1>1, <1>2 DEF Shape
<1>4. \A m \in Node :
          /\ \/ SameWay(table[n][m], table'[n][m]) /\ table'[n][m].age = table[n][m].age
             \/ table'[n][m] = Absent /\ table[n][m].age >= 2
          /\ table'[n][m].status \in {"connected", "known"} => table'[n][m].age < 2
  BY <1>3, SweptTells DEF RoutesNow, Routes, Recent
<1>5. \A m \in Node : NoneFrom(wire, n)
  BY <1>2 DEF NoneFrom
<1>6. KeptOrLost(table, table', wire)
  <2> SUFFICES ASSUME NEW x \in Node, NEW m \in Node
               PROVE  \/ /\ SameWay(table[x][m], table'[x][m])
                         /\ table'[x][m].age = table[x][m].age
                      \/ /\ table'[x][m] = Absent /\ NoneFrom(wire, x)
                         /\ table[x][m].age >= 2
    BY DEF KeptOrLost
  <2>1. CASE x = n
    BY <1>4, <1>5, <2>1
  <2>2. CASE x # n
    BY <1>3, <2>2 DEF SameWay
  <2> QED
    BY <2>1, <2>2
<1>7. Fewer(wire, wire, up)
  BY DEF RoutesNow, Routes, Backed, Fewer
<1>8. Recent(table')
  BY <1>3, <1>4 DEF RoutesNow, Routes, Recent
<1>9. Shape(up, table', wire, ever)
  BY <1>2 DEF Shape
<1>10. Routes(up, table', wire, ever)
  BY <1>2, <1>6, <1>7, <1>8, <1>9, Rewritten DEF RoutesNow
<1>11. /\ \A x, y \in Node : x # n => wire'[x][y] = wire[x][y]
       /\ \A y \in Node : \/ wire'[n][y] = EmptyTable
                          \/ wire'[n][y] = ToGossip(table'[n]) /\ {n, y} \in up
  BY <1>2 DEF Shape
<1>12. Routes(up, table', wire', ever)
  <2>1. \A m \in Node : table'[n][m].status \in {"connected", "known"} => table'[n][m].age < 2
    BY <1>4
  <2>2. Shape(up, table', wire', ever)
    BY <1>2
  <2>3. Announces(up, table', wire, wire', n)
    BY <1>11, <2>1 DEF Announces
  <2> QED
    BY <1>9, <1>10, <2>2, <2>3, Sent
<1> QED
  BY <1>2, <1>12 DEF RoutesNow

LEMMA ReceiveGossipRoutes ==
    ASSUME IInv, IInv', RoutesNow, NEW a \in Node, NEW b \in Node, ReceiveGossip(a, b)
    PROVE  RoutesNow'
<1> DEFINE s == [table EXCEPT ![b] = Touched(table[b], a)]
           g == wire[a][b]
<1>1. /\ g # EmptyTable /\ up' = up /\ ever' = ever
      /\ table' = [table EXCEPT ![b] = Merge(b, Touched(table[b], a), g, a)]
      /\ wire' = [wire EXCEPT ![a][b] = EmptyTable]
      /\ Shape(up, table, wire, ever) /\ Shape(up', table', wire', ever)
  BY ShapeNow, NextShape DEF ReceiveGossip
<1>2. {a, b} \in ever /\ {b, a} = {a, b} /\ g \in Tables
  BY <1>1 DEF IInv
<1>3. Touched(table[b], a) \in Tables
  BY TouchedLemma DEF IInv, Sound
<1>4. Shape(up, s, wire, ever)
  BY <1>1, <1>3 DEF Shape
<1>5. \A x, m \in Node :
          /\ SameWay(table[x][m], s[x][m]) /\ s[x][m].age \in {table[x][m].age, 0}
          /\ s[x][m].status = table[x][m].status
  <2>1. table \in [Node -> [Node -> Entry]]
    BY <1>1 DEF Shape, Tables
  <2>2. \A m \in Node :
            Touched(table[b], a)[m] \in {table[b][m], [table[b][m] EXCEPT !.age = 0],
                                         [table[b][m] EXCEPT !.age = table[b][m].age]}
    BY <2>1 DEF Touched
  <2>3. \A e \in Entry : \A f \in {e, [e EXCEPT !.age = 0], [e EXCEPT !.age = e.age]} :
            SameWay(e, f) /\ f.age \in {e.age, 0} /\ f.status = e.status
    BY DEF Entry, SameWay, Held
  <2>4. \A x \in Node : s[x] = IF x = b THEN Touched(table[b], a) ELSE table[x]
    BY <2>1
  <2>5. \A x, m \in Node : table[x][m] \in Entry
    BY <2>1
  <2> HIDE DEF s
  <2>6. \A m \in Node : /\ SameWay(table[b][m], s[b][m])
                         /\ s[b][m].age \in {table[b][m].age, 0}
                         /\ s[b][m].status = table[b][m].status
    <3> SUFFICES ASSUME NEW m \in Node
                 PROVE  /\ SameWay(table[b][m], s[b][m])
                        /\ s[b][m].age \in {table[b][m].age, 0}
                        /\ s[b][m].status = table[b][m].status
      OBVIOUS
    <3> DEFINE e == table[b][m]
               f == s[b][m]
    <3>1. e \in Entry /\ f \in {e, [e EXCEPT !.age = 0], [e EXCEPT !.age = e.age]}
      BY <2>2, <2>4, <2>5
    <3> HIDE DEF e, f
    <3>2. SameWay(e, f) /\ f.age \in {e.age, 0} /\ f.status = e.status
      BY <2>3, <3>1
    <3> QED
      BY <3>2 DEF e, f
  <2>7. \A x, m \in Node : x # b => s[x][m] = table[x][m]
    BY <2>4
  <2> QED
    BY <2>6, <2>7 DEF SameWay
<1>6. table' = [s EXCEPT ![b] = Merge(b, s[b], g, a)]
  BY <1>1 DEF Shape
<1> HIDE DEF s
<1>7. KeptOrLost(table, s, wire) /\ Fewer(wire, wire, up)
  BY <1>5 DEF KeptOrLost, Fewer, RoutesNow, Routes, Backed
<1>8. Recent(s)
  BY <1>5 DEF RoutesNow, Routes, Recent
<1>9. Routes(up, s, wire, ever)
  BY <1>1, <1>4, <1>7, <1>8, Rewritten DEF RoutesNow
<1>10. Sensible(s, wire, ever, b, a, g)
  BY <1>2, <1>9 DEF Sensible, Routes, Honest, Backed, NotBack, Backs
<1>11. Shape(up, table', wire, ever)
  BY <1>1 DEF Shape
<1> HIDE DEF g
<1>12. Routes(up, table', wire, ever)
  BY <1>2, <1>4, <1>6, <1>9, <1>10, <1>11, Merged DEF MergedAt
<1>13. \A x, y \in Node : wire'[x][y] \in {wire[x][y], EmptyTable}
  BY <1>1 DEF Shape, Tables
<1>14. \A m \in Node : ~Held(EmptyTable[m])
  BY DEF EmptyTable, Held, Absent
<1>15. KeptOrLost(table', table', wire') /\ Fewer(wire, wire', up')
  BY <1>1, <1>12, <1>13, <1>14 DEF KeptOrLost, SameWay, Fewer, Routes, Backed
<1>16. Recent(table')
  BY <1>12 DEF Routes
<1> QED
  BY <1>1, <1>11, <1>12, <1>15, <1>16, Rewritten DEF RoutesNow

LEMMA AgeRoutes ==
    ASSUME IInv, IInv', RoutesNow, NEW n \in Node, Age(n)
    PROVE  RoutesNow'
<1>1. /\ up' = up /\ wire' = wire /\ ever' = ever
      /\ table' = [table EXCEPT ![n] = [m \in Node |-> Older(table[n][m])]]
      /\ Awaited(n) => \A m \in Node : table[n][m].age = 0
      /\ Shape(up, table, wire, ever) /\ Shape(up', table', wire', ever)
  BY ShapeNow, NextShape DEF Age
<1>2. \A x, m \in Node :
          table'[x][m] = IF x = n THEN Older(table[x][m]) ELSE table[x][m]
  BY <1>1 DEF Shape
<1>3. \A x, m \in Node : table[x][m] \in Entry
  BY <1>1 DEF Shape, Tables
<1>4. \A e \in Entry :
          /\ SameWay(e, Older(e)) /\ Older(e).status = e.status
          /\ Older(e).age \in {e.age, e.age + 1}
          /\ e.status = "connected" /\ e.age < 2 => Older(e).age < 2
  BY DEF Older, Entry, SameWay, Held
<1>5. Awaited(n) \/ (NoneFrom(wire, n) /\ NoneTo(wire, n))
  BY DEF Awaited, NoneFrom, NoneTo
<1>6. KeptOrLost(table, table', wire')
  <2> SUFFICES ASSUME NEW x \in Node, NEW m \in Node
               PROVE  /\ SameWay(table[x][m], table'[x][m])
                      /\ table[x][m].age < 2 /\ ~(NoneFrom(wire, x) /\ NoneTo(wire, x))
                         => table'[x][m].age < 2
    BY <1>1 DEF KeptOrLost
  <2>1. CASE x = n
    <3>1. SameWay(table[x][m], table'[x][m])
          /\ table'[x][m].age \in {table[x][m].age, table[x][m].age + 1}
      BY <1>2, <1>3, <1>4, <2>1
    <3>2. Awaited(n) => table[x][m].age = 0
      BY <1>1, <2>1
    <3> QED
      BY <1>5, <2>1, <3>1, <3>2
  <2>2. CASE x # n
    BY <1>2, <2>2 DEF SameWay
  <2> QED
    BY <2>1, <2>2
<1>7. Fewer(wire, wire', up')
  BY <1>1 DEF Fewer, RoutesNow, Routes, Backed
<1>8. Recent(table')
  BY <1>2, <1>3, <1>4 DEF RoutesNow, Routes, Recent
<1> QED
  BY <1>1, <1>6, <1>7, <1>8, Rewritten DEF RoutesNow

\* Every step keeps them.
LEMMA NextRoutes == IInv /\ RoutesNow /\ [Next]_vars => RoutesNow'
<1> SUFFICES ASSUME IInv, RoutesNow, [Next]_vars PROVE RoutesNow'
  OBVIOUS
<1>0. IInv'
  BY NextIInv
<1>1. CASE UNCHANGED vars
  BY <1>1 DEF vars, RoutesNow
<1>2. ASSUME NEW a \in Node, NEW b \in Node, Connect(a, b) PROVE RoutesNow'
  BY <1>0, <1>2, ConnectRoutes
<1>3. ASSUME NEW a \in Node, NEW b \in Node, Disconnect(a, b) PROVE RoutesNow'
  BY <1>0, <1>3, DisconnectRoutes
<1>4. ASSUME NEW a \in Node, NEW b \in Node, Notice(a, b) PROVE RoutesNow'
  BY <1>0, <1>4, NoticeRoutes
<1>5. ASSUME NEW a \in Node, NEW b \in Node, ReceiveGossip(a, b) PROVE RoutesNow'
  BY <1>0, <1>5, ReceiveGossipRoutes
<1>6. ASSUME NEW n \in Node, Restart(n) PROVE RoutesNow'
  BY <1>0, <1>6, RestartRoutes
<1>7. ASSUME NEW n \in Node, GossipRound(n) PROVE RoutesNow'
  BY <1>0, <1>7, GossipRoundRoutes
<1>8. ASSUME NEW n \in Node, Age(n) PROVE RoutesNow'
  BY <1>0, <1>8, AgeRoutes
<1> QED
  BY <1>1, <1>2, <1>3, <1>4, <1>5, <1>6, <1>7, <1>8 DEF Next

-----------------------------------------------------------------------------

\* Every table, entry and announcement has its type, whatever connects,
\* leaves, restarts or arrives late (NeighborTable).
THEOREM TypeCorrect == Spec => []TypeOK
<1>1. IInv => TypeOK
  BY DEF IInv, TypeOK
<1> QED
  BY <1>1, Inductive, PTL

\* A route starts with a node there was a connection to (merge_gossip).
THEOREM RoutesStartWithNeighbours == Spec => []ViaWasNeighbour
<1>1. IInv => ViaWasNeighbour
  BY DEF IInv, Sound, ViaWasNeighbour
<1> QED
  BY <1>1, Inductive, PTL

\* No two nodes lead to each other, and no distance is understated, however
\* many nodes there are and however late gossip arrives (merge_gossip, sweep).
THEOREM RoutesAreSound == Spec => []RoutesSound
<1>1. IInv /\ RoutesNow => RoutesSound
  BY DEF RoutesNow, Routes, OneWay, Honest, Held, RoutesSound, NoTwoLoop, HopsNotUnderstated
<1> QED
  BY <1>1, Inductive, InitRoutes, NextRoutes, PTL DEF Spec

\* No step takes a live direct connection out of a table (merge_gossip,
\* sweep, mark_unreachable).
THEOREM DirectConnectionsStay == Spec => DirectStays
<1>1. IInv /\ [Next]_vars => [DirectStep]_vars
  BY NextIInv
<1> QED
  BY <1>1, Inductive, PTL DEF Spec, DirectStays, DirectStep

=============================================================================
