------------------------------- MODULE MCNode -------------------------------
(* Small instances of the parts of a node.                                  *)
EXTENDS Node

CONSTANTS d1,                    \* a download
          n1, n2, c1, j1, j2,    \* nodes, a certificate, calls
          b1, b2, k1, k2,        \* browser tabs, their calls
          t1, x,                 \* what config.yaml says, and its secret
          m1, m2                 \* methods

\* The second node has the certificate; the first one fetches it, the second
\* loads, mends or deletes it.
MCFirst == [n \in Holder |-> IF n = n2 THEN {c1} ELSE {}]
MCSite == [r \in Request |-> IF r = j1 THEN n1 ELSE n2]
MCKind == [r \in Request |-> IF r = j1 THEN {"fetch"} ELSE {"load", "fix", "delete"}]

MCFirstText == [body |-> t1, secret |-> x]

MCOf == [c \in Click |-> IF c = k1 THEN b1 ELSE b2]

\* Somebody purges what starts the node, its settings and its program; the
\* process alone; the rest.
MCChoices == {{"autorun_task", "config", "exe"}, {"process"},
              {"autorun_registry", "work_dir", "update_leftovers"}}

\* The first version has a method that the later ones do not have.
MCMethods == [v \in 1 .. MaxMade |-> IF v = 1 THEN {m1, m2} ELSE {m2}]

-----------------------------------------------------------------------------
\* The downloads are alike: what one of them is owed the other one is.
\* Every update ends with a node that runs (updater.py:395), every download ends
\* (files/service.py:763), the index of certificates agrees with what is
\* installed (certstool/service.py:77).
WorkEnds == Due(d1) ~> Over(d1)

=============================================================================
